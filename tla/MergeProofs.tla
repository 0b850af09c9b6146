---------------------------- MODULE MergeProofs ----------------------------
(***************************************************************************)
(* For any owners, any number of sessions, any clocks and any number of    *)
(* losses, crashes, foreign blocks and merges by hand: the dialogue        *)
(* implements the pact, a stored snapshot is one the branch commits to,    *)
(* and what the owners publish proves every leaf under every union.        *)
(*                                                                         *)
(* What a step can disturb is a branch that grows, so everything below is  *)
(* said of branches `br`, and kept by branches that carry them on.         *)
(***************************************************************************)
EXTENDS Merge, DataLemmas

IsSeq(s) == s \in Seq({s[i] : i \in DOMAIN s})

-----------------------------------------------------------------------------
(* The invariant.                                                          *)

\* Block i of owner p is a merge half.
Half(br, p, i) ==
  /\ p \in Party /\ i \in Nat \ {0}
  /\ i \in DOMAIN br[p] /\ br[p][i].kind = "merge"

\* The halves i of p and j of q answer each other.
Twins(br, p, i, q, j) ==
  /\ Half(br, p, i) /\ Half(br, q, j) /\ p # q
  /\ br[p][i].takes = <<q, j - 1>>
  /\ br[q][j].takes = <<p, i - 1>>
  /\ br[p][i].union = br[q][j].union

Answered(br, p, i) == \E q \in Party : \E j \in DOMAIN br[q] : Twins(br, p, i, q, j)

\* A message tells the truth: a draft is on its author's disk, and a
\* co-signature from somebody who drafts on the tip he tells is for a half
\* that is answered.
Truthful(br, sure, m) ==
  /\ m.t \in {"OFFER", "ACCEPT", "TIP"} => m.tip \in Nat
  /\ m.t = "DRAFT" =>
       \E p \in Party : \E i \in DOMAIN br[p] :
         m.at = <<p, i>> /\ Half(br, p, i) /\ m.block = br[p][i]
  /\ m.t = "COSIG" /\ sure =>
       \E p \in Party : \E i \in DOMAIN br[p] : m.of = <<p, i>> /\ Answered(br, p, i)

Drafted == {"SNAP", "WAIT_DRAFT", "WAIT_COSIG", "SEALED"}
Checked == {"WAIT_COSIG", "SEALED"}
Live    == {"IDLE"} \cup Waiting \cup Midway

HasFields(v) ==
  v = [x \in {"st", "peer", "out", "seq", "nextIn", "at", "mine", "mineSnap",
              "his", "hisSnap", "pend"} |-> v[x]]

\* The own draft of owner p in dialogue v takes what the partner told.
OwnDraft(br, p, sure, v) ==
  /\ Half(br, p, v.pend)
  /\ br[p][v.pend].takes = <<v.peer, v.his>>
  /\ sure => v.mine = v.pend - 1

\* The partner's draft: right after the tip he told, taking ours, over our union.
HisDraft(br, p, v) ==
  /\ Half(br, v.peer, v.his + 1)
  /\ br[v.peer][v.his + 1].takes = <<p, v.mine>>
  /\ br[v.peer][v.his + 1].union = br[p][v.pend].union

\* Dialogue v of owner p; `sure` when he drafts on the very tip he tells.
DialogueOK(br, p, sure, v) ==
  /\ HasFields(v)
  /\ IsSeq(v.out)
  /\ v.mine \in Nat /\ v.his \in Nat /\ v.pend \in Nat
  /\ v.st \in Live => v.peer \in Party \ {p}
  /\ v.st \notin Live => v.out = <<>>
  /\ v.st = "WAIT_ACCEPT" => ~sure
  /\ v.st \in Drafted => OwnDraft(br, p, sure, v)
  /\ v.st \in Checked => HisDraft(br, p, v)
  /\ \A i \in DOMAIN v.out : Truthful(br, sure, v.out[i])

\* A letter for owner p: who begins a session may have told a tip his draft
\* does not stand on any more; who answers has not.
LetterOK(br, es, p, l) ==
  /\ l.s \in Session /\ l.from \in Party \ {p}
  /\ Truthful(br, l.from # es[l.s][1], l.msg)

SlipOK(br, p, v) ==
  /\ HasFields(v)
  /\ v.pend # 0 =>
       /\ v.mine \in Nat /\ v.his \in Nat /\ v.pend \in Nat
       /\ v.peer \in Party \ {p}
       /\ OwnDraft(br, p, TRUE, v)

Mailbox(br, es, p, b) ==
  /\ IsSeq(b)
  /\ \A i \in DOMAIN b : LetterOK(br, es, p, b[i])

Shapes ==
  /\ ends \in [Session -> Party \X Party]
  /\ \A s \in Session : ends[s][1] # ends[s][2]
  /\ branch = [p \in Party |-> branch[p]]
  /\ \A p \in Party : IsSeq(branch[p])
  /\ stored = [p \in Party |-> stored[p]]
  /\ box = [p \in Party |-> box[p]]
  /\ todo = [c \in Proc |-> todo[c]]
  /\ side = [d \in Sides |-> side[d]]
  /\ slip = [p \in Party |-> slip[p]]

Server(d) == d[1][1] = "serve"

DialoguesOK == \A d \in Sides : DialogueOK(branch, Owner(d[1]), Server(d), side[d])
BoxesOK     == \A p \in Party : Mailbox(branch, ends, p, box[p])
TodoOK      == \A c \in Proc : Mailbox(branch, ends, Owner(c), todo[c])
SlipsOK     == \A p \in Party : SlipOK(branch, p, slip[p])
PapersOK    == \A x \in papers : Truthful(branch, TRUE, x.msg)

\* Every half with the partner's signature is answered.
SealsOK ==
  \A x \in seals : \E p \in Party : \E i \in DOMAIN branch[p] :
    x = <<p, i>> /\ Answered(branch, p, i)

IInv ==
  /\ Shapes /\ DialoguesOK /\ BoxesOK /\ TodoOK /\ SlipsOK /\ PapersOK /\ SealsOK
  /\ SnapshotIsCommitted

-----------------------------------------------------------------------------
(* Sequences.                                                              *)

LEMMA AppendSeq ==
  ASSUME NEW s, IsSeq(s), NEW e
  PROVE  /\ IsSeq(Append(s, e)) /\ Len(s) \in Nat
         /\ DOMAIN s = 1..Len(s)
         /\ DOMAIN Append(s, e) = 1..(Len(s) + 1)
         /\ \A i \in DOMAIN s : Append(s, e)[i] = s[i]
         /\ Append(s, e)[Len(s) + 1] = e
<1> DEFINE S == {s[i] : i \in DOMAIN s}
           T == S \cup {e}
           t == Append(s, e)
<1>1. s \in Seq(S)
  BY DEF IsSeq
<1>2. s \in Seq(T)
  BY <1>1
<1>3. /\ t \in Seq(T) /\ Len(t) = Len(s) + 1 /\ Len(s) \in Nat
      /\ \A i \in 1..Len(s) : t[i] = s[i]
      /\ t[Len(s) + 1] = e
  BY <1>2
<1>4. DOMAIN t = 1..Len(t) /\ DOMAIN s = 1..Len(s)
  BY <1>2, <1>3
<1>5. t \in Seq({t[i] : i \in DOMAIN t})
  BY <1>3, <1>4
<1> QED
  BY <1>3, <1>4, <1>5 DEF IsSeq

LEMMA AnySeq ==
  ASSUME NEW S, NEW s \in Seq(S)
  PROVE  IsSeq(s) /\ DOMAIN s = 1..Len(s) /\ Len(s) \in Nat
<1>1. s \in [1..Len(s) -> S] /\ DOMAIN s = 1..Len(s) /\ Len(s) \in Nat
  OBVIOUS
<1>2. s = [i \in 1..Len(s) |-> s[i]]
  BY <1>1
<1>3. [i \in 1..Len(s) |-> s[i]] \in Seq({s[i] : i \in 1..Len(s)})
  BY <1>1
<1> QED
  BY <1>1, <1>2, <1>3 DEF IsSeq

LEMMA TailSeq ==
  ASSUME NEW s, IsSeq(s), s # <<>>
  PROVE  /\ IsSeq(Tail(s)) /\ 1 \in DOMAIN s /\ Head(s) = s[1]
         /\ \A i \in DOMAIN Tail(s) : i + 1 \in DOMAIN s /\ Tail(s)[i] = s[i + 1]
<1> DEFINE S == {s[i] : i \in DOMAIN s}
           t == Tail(s)
<1>1. s \in Seq(S)
  BY DEF IsSeq
<1>2. Len(s) \in Nat \ {0} /\ DOMAIN s = 1..Len(s) /\ Head(s) = s[1]
  BY <1>1
<1>3. /\ t \in Seq(S) /\ Len(t) = Len(s) - 1
      /\ \A i \in 1..Len(t) : t[i] = s[i + 1]
  BY <1>1
<1>4. DOMAIN t = 1..Len(t)
  BY <1>3
<1> HIDE DEF S
<1>5. IsSeq(t)
  BY <1>3, AnySeq
<1> QED
  BY <1>2, <1>3, <1>4, <1>5

LEMMA SingleSeq ==
  ASSUME NEW m
  PROVE  IsSeq(<<m>>) /\ \A i \in DOMAIN <<m>> : <<m>>[i] = m
<1>1. <<m>> \in Seq({m}) /\ DOMAIN <<m>> = 1..1 /\ <<m>>[1] = m
  OBVIOUS
<1>2. \A i \in 1..1 : i = 1
  OBVIOUS
<1>3. IsSeq(<<m>>)
  BY <1>1, AnySeq
<1> QED
  BY <1>1, <1>2, <1>3

LEMMA EmptySeq == IsSeq(<<>>) /\ DOMAIN <<>> = {}
BY DEF IsSeq

-----------------------------------------------------------------------------
(* Branches only grow, and what was said of them stays true.               *)

Extends(br, br2) ==
  \A p \in Party : \A i \in DOMAIN br[p] : i \in DOMAIN br2[p] /\ br2[p][i] = br[p][i]

LEMMA TwinsStay ==
  ASSUME NEW br, NEW br2, Extends(br, br2), NEW p, NEW i, Answered(br, p, i)
  PROVE  Answered(br2, p, i)
BY DEF Extends, Answered, Twins, Half

LEMMA TruthStays ==
  ASSUME NEW br, NEW br2, Extends(br, br2), NEW sure, NEW m, Truthful(br, sure, m)
  PROVE  Truthful(br2, sure, m)
<1>1. ASSUME m.t = "DRAFT"
      PROVE  \E p \in Party : \E i \in DOMAIN br2[p] :
               m.at = <<p, i>> /\ Half(br2, p, i) /\ m.block = br2[p][i]
  BY <1>1 DEF Truthful, Extends, Half
<1>2. ASSUME m.t = "COSIG", sure
      PROVE  \E p \in Party : \E i \in DOMAIN br2[p] : m.of = <<p, i>> /\ Answered(br2, p, i)
  BY <1>2, TwinsStay DEF Truthful, Extends
<1> QED
  BY <1>1, <1>2 DEF Truthful

LEMMA DialogueStays ==
  ASSUME NEW br, NEW br2, Extends(br, br2), NEW p \in Party, NEW sure, NEW v,
         DialogueOK(br, p, sure, v)
  PROVE  DialogueOK(br2, p, sure, v)
<1>1. v.st \in Drafted => OwnDraft(br2, p, sure, v) /\ br2[p][v.pend] = br[p][v.pend]
  BY DEF DialogueOK, OwnDraft, Half, Extends
<1>2. v.st \in Checked => HisDraft(br2, p, v)
  BY <1>1 DEF DialogueOK, HisDraft, Half, Extends, Checked, Drafted
<1>3. \A i \in DOMAIN v.out : Truthful(br2, sure, v.out[i])
  BY TruthStays DEF DialogueOK
<1> QED
  BY <1>1, <1>2, <1>3 DEF DialogueOK

LEMMA MailboxStays ==
  ASSUME NEW br, NEW br2, Extends(br, br2), NEW es, NEW p, NEW b, Mailbox(br, es, p, b)
  PROVE  Mailbox(br2, es, p, b)
BY TruthStays DEF Mailbox, LetterOK

LEMMA SlipStays ==
  ASSUME NEW br, NEW br2, Extends(br, br2), NEW p \in Party, NEW v, SlipOK(br, p, v)
  PROVE  SlipOK(br2, p, v)
BY DEF SlipOK, OwnDraft, Half, Extends

-----------------------------------------------------------------------------
(* Steps.                                                                  *)

LEMMA SidesAre ==
  ASSUME NEW d \in Sides, Shapes
  PROVE  /\ d[1] \in Proc /\ d[2] \in Session /\ d = <<d[1], d[2]>>
         /\ Owner(d[1]) \in Party
         /\ Server(d) => d[1] = Serve(Owner(d[1]))
         /\ ~Server(d) => /\ d[1] = Run(d[2]) /\ Owner(d[1]) = ends[d[2]][1]
                          /\ d[1][1] = "run"
<1>1. CASE d \in {<<Run(s), s>> : s \in Session}
  BY <1>1 DEF Sides, Proc, Run, Owner, Server, Shapes
<1>2. CASE d \in {Serve(p) : p \in Party} \X Session
  <2>1. PICK p \in Party : d[1] = Serve(p) /\ d[2] \in Session /\ d = <<d[1], d[2]>>
    BY <1>2
  <2>2. d[1][1] = "serve" /\ d[1][2] = p
    BY <2>1 DEF Serve
  <2>3. d[1] \in Proc
    BY <2>1 DEF Proc
  <2> QED
    BY <2>1, <2>2, <2>3 DEF Server, Owner
<1> QED
  BY <1>1, <1>2 DEF Sides

LEMMA OwnersAre ==
  ASSUME NEW c \in Proc, Shapes
  PROVE  /\ Owner(c) \in Party
         /\ c[1] = "run" => c[2] \in Session /\ c = Run(c[2]) /\ <<c, c[2]>> \in Sides
BY DEF Proc, Run, Serve, Owner, Shapes, Sides

\* What a step leaves alone stays true, so only what it changes is looked at.
LEMMA Frame ==
  ASSUME IInv, Shapes', ends' = ends, Extends(branch, branch'),
         \A d \in Sides : \/ side'[d] = side[d]
                          \/ DialogueOK(branch', Owner(d[1]), Server(d), side'[d]),
         \A p \in Party : box'[p] = box[p] \/ Mailbox(branch', ends, p, box'[p]),
         \A c \in Proc : todo'[c] = todo[c] \/ Mailbox(branch', ends, Owner(c), todo'[c]),
         \A p \in Party : slip'[p] = slip[p] \/ SlipOK(branch', p, slip'[p]),
         \A x \in papers' : x \in papers \/ Truthful(branch', TRUE, x.msg),
         \A x \in seals' : x \in seals \/ \E p \in Party : \E i \in DOMAIN branch'[p] :
                                            x = <<p, i>> /\ Answered(branch', p, i),
         \A p \in Party : \/ stored'[p] = stored[p]
                          \/ \E i \in DOMAIN branch'[p] :
                               branch'[p][i].kind = "merge" /\ branch'[p][i].union = stored'[p]
  PROVE  IInv'
<1>1. DialoguesOK'
  <2>1. ASSUME NEW d \in Sides
        PROVE  DialogueOK(branch', Owner(d[1]), Server(d), side'[d])
    BY <2>1, DialogueStays, SidesAre DEF IInv, DialoguesOK
  <2>2. \A d \in Sides : Owner(d[1])' = Owner(d[1])
    BY DEF Owner
  <2> QED
    BY <2>1, <2>2 DEF DialoguesOK, Server
<1>2. BoxesOK'
  <2>1. ASSUME NEW p \in Party
        PROVE  Mailbox(branch', ends', p, box'[p])
    BY <2>1, MailboxStays DEF IInv, BoxesOK
  <2> QED
    BY <2>1 DEF BoxesOK
<1>3. TodoOK'
  <2>1. ASSUME NEW c \in Proc
        PROVE  Mailbox(branch', ends', Owner(c), todo'[c])
    BY <2>1, MailboxStays DEF IInv, TodoOK
  <2>2. \A c \in Proc : Owner(c)' = Owner(c)
    BY DEF Owner
  <2> QED
    BY <2>1, <2>2 DEF TodoOK
<1>4. SlipsOK'
  <2>1. ASSUME NEW p \in Party
        PROVE  SlipOK(branch', p, slip'[p])
    BY <2>1, SlipStays DEF IInv, SlipsOK
  <2> QED
    BY <2>1 DEF SlipsOK
<1>5. PapersOK'
  <2>1. ASSUME NEW x \in papers'
        PROVE  Truthful(branch', TRUE, x.msg)
    BY <2>1, TruthStays DEF IInv, PapersOK
  <2> QED
    BY <2>1 DEF PapersOK
<1>6. SealsOK'
  <2>1. ASSUME NEW x \in seals'
        PROVE  \E p \in Party : \E i \in DOMAIN branch'[p] :
                 x = <<p, i>> /\ Answered(branch', p, i)
    BY <2>1, TwinsStay DEF IInv, SealsOK, Extends
  <2> QED
    BY <2>1 DEF SealsOK
<1>7. SnapshotIsCommitted'
  <2>1. ASSUME NEW p \in Party, stored'[p] # NoRoot
        PROVE  \E i \in DOMAIN branch'[p] :
                 branch'[p][i].kind = "merge" /\ branch'[p][i].union = stored'[p]
    BY <2>1 DEF IInv, SnapshotIsCommitted, Extends
  <2> QED
    BY <2>1 DEF SnapshotIsCommitted
<1> QED
  BY <1>1, <1>2, <1>3, <1>4, <1>5, <1>6, <1>7 DEF IInv

\* A block more, at the end.
LEMMA GrownBranch ==
  ASSUME Shapes, NEW p \in Party, NEW b, branch' = [branch EXCEPT ![p] = Append(@, b)]
  PROVE  /\ Extends(branch, branch') /\ Len(branch[p]) \in Nat
         /\ branch' = [q \in Party |-> branch'[q]]
         /\ \A q \in Party : IsSeq(branch'[q])
         /\ Len(branch[p]) + 1 \in DOMAIN branch'[p]
         /\ branch'[p][Len(branch[p]) + 1] = b
<1>1. IsSeq(branch[p]) /\ branch'[p] = Append(branch[p], b)
  BY DEF Shapes
<1>2. \A q \in Party : q # p => branch'[q] = branch[q]
  BY DEF Shapes
<1>3. branch' = [q \in Party |-> branch'[q]]
  BY DEF Shapes
<1> QED
  BY <1>1, <1>2, <1>3, AppendSeq DEF Extends, Shapes

LEMMA SameBranch == ASSUME branch' = branch PROVE Extends(branch, branch')
BY DEF Extends

\* A dialogue that is over says nothing.
LEMMA OverOK ==
  ASSUME NEW br, NEW p, NEW sure, NEW st, st \notin Live
  PROVE  DialogueOK(br, p, sure, Over(st)) /\ DialogueOK(br, p, sure, Blank)
BY EmptySeq DEF DialogueOK, HasFields, Over, Blank, Live, Waiting, Midway, Drafted, Checked

LEMMA BeginKeeps ==
  ASSUME IInv, NEW s \in Session, Begin(s), UNCHANGED hand
  PROVE  IInv'
<1> DEFINE d == <<Run(s), s>>
           p == ends[s][1]
           m == TipMessage("OFFER", p, Len(branch[p]), SnapshotFor(p))
           v == [Blank EXCEPT !.st = "WAIT_ACCEPT", !.peer = ends[s][2], !.at = clock[p],
                              !.mine = Len(branch[p]), !.mineSnap = SnapshotFor(p),
                              !.out = <<m>>]
<1>1. /\ Shapes /\ d \in Sides /\ p \in Party /\ ends[s][2] \in Party \ {p}
      /\ Owner(d[1]) = p /\ ~Server(d)
  BY DEF IInv, Shapes, Sides, Owner, Run, Server
<1>2. side' = [side EXCEPT ![d] = side'[d]]
      /\ side'[d] \in {v, Over("FAILED")}
  BY <1>1 DEF Begin, Shapes
<1>3. Len(branch[p]) \in Nat
  BY <1>1, AnySeq DEF Shapes, IsSeq
<1>4. Truthful(branch, Server(d), m)
  BY <1>3 DEF Truthful, TipMessage
<1>5. IsSeq(<<m>>) /\ \A i \in DOMAIN <<m>> : <<m>>[i] = m
  BY SingleSeq
<1>6. DialogueOK(branch, p, Server(d), v)
  <2> HIDE DEF m
  <2>1. /\ HasFields(v) /\ v.st = "WAIT_ACCEPT" /\ v.peer = ends[s][2] /\ v.out = <<m>>
        /\ v.mine = Len(branch[p]) /\ v.his = 0 /\ v.pend = 0
    BY DEF Blank, HasFields
  <2> HIDE DEF v, p, d
  <2> QED
    BY <2>1, <1>1, <1>3, <1>4, <1>5
       DEF DialogueOK, Live, Waiting, Midway, Drafted, Checked
<1>7. DialogueOK(branch, p, Server(d), side'[d])
  <2>1. "FAILED" \notin Live
    BY DEF Live, Waiting, Midway
  <2> HIDE DEF v
  <2> QED
    BY <1>1, <1>2, <1>6, <2>1, OverOK
<1> HIDE DEF v, m
<1>8. /\ UNCHANGED <<ends, branch, stored, seals, box, todo, slip, papers>>
  BY DEF Begin, world, disk, hand
<1>9. Shapes'
  BY <1>1, <1>2, <1>8 DEF Shapes
<1>10. \A e \in Sides : side'[e] = side[e] \/ DialogueOK(branch', Owner(e[1]), Server(e), side'[e])
  BY <1>1, <1>2, <1>7, <1>8 DEF Shapes
<1> QED
  BY <1>8, <1>9, <1>10, Frame, SameBranch

LEMMA LessSure ==
  ASSUME NEW br, NEW x, NEW y, NEW m, x => y, Truthful(br, y, m)
  PROVE  Truthful(br, x, m)
BY DEF Truthful

\* What a process sends, the one it is for may believe.
LEMMA LetterSent ==
  ASSUME IInv, NEW d \in Sides, side[d].out # <<>>
  PROVE  /\ side[d].peer \in Party
         /\ Mailbox(branch, ends, side[d].peer, Append(box[side[d].peer], Letter(d)))
         /\ HasFields(side[d])
         /\ \A i \in DOMAIN Tail(side[d].out) :
              Truthful(branch, Server(d), Tail(side[d].out)[i])
         /\ IsSeq(Tail(side[d].out))
<1> DEFINE v == side[d]
           p == Owner(d[1])
           l == Letter(d)
<1>1. Shapes /\ DialogueOK(branch, p, Server(d), v) /\ BoxesOK
  BY DEF IInv, DialoguesOK
<1> HIDE DEF v
<1>2. /\ v.peer \in Party \ {p} /\ IsSeq(v.out) /\ v.out # <<>>
      /\ \A i \in DOMAIN v.out : Truthful(branch, Server(d), v.out[i])
  <2>1. v.out # <<>>
    BY DEF v
  <2> QED
    BY <1>1, <2>1 DEF DialogueOK
<1>3. l.s = d[2] /\ l.from = p /\ l.msg = Head(v.out)
  BY DEF Letter, v
<1>4. Truthful(branch, Server(d), Head(v.out))
  BY <1>2, TailSeq
<1>5. d[2] \in Session /\ p \in Party /\ (p # ends[d[2]][1] => Server(d))
  BY <1>1, SidesAre
<1> HIDE DEF l, p
<1>6. LetterOK(branch, ends, v.peer, l)
  BY <1>2, <1>3, <1>4, <1>5, LessSure DEF LetterOK
<1>7. Mailbox(branch, ends, v.peer, box[v.peer])
  BY <1>1, <1>2 DEF BoxesOK
<1>8. Mailbox(branch, ends, v.peer, Append(box[v.peer], l))
  BY <1>6, <1>7, AppendSeq DEF Mailbox
<1>9. \A i \in DOMAIN Tail(v.out) : Truthful(branch, Server(d), Tail(v.out)[i])
  BY <1>2, TailSeq
<1> QED
  BY <1>1, <1>2, <1>8, <1>9, TailSeq DEF v, l, DialogueOK

LEMMA QueuedKeeps ==
  ASSUME IInv, NEW d \in Sides, Queued(d), UNCHANGED hand
  PROVE  IInv'
<1> DEFINE v == side[d]
           w == [side[d] EXCEPT !.out = Tail(@), !.seq = @ + 1]
           q == side[d].peer
<1>1. UNCHANGED <<ends, branch, stored, seals, todo, slip, papers>>
  BY DEF Queued, world, disk, hand
<1>2. Shapes /\ v.out # <<>> /\ DialogueOK(branch, Owner(d[1]), Server(d), v)
  BY DEF Queued, IInv, DialoguesOK
<1>3. side' = [side EXCEPT ![d] = w] /\ box' = [box EXCEPT ![q] = Append(@, Letter(d))]
  BY DEF Queued
<1>4. DialogueOK(branch, Owner(d[1]), Server(d), w)
  <2>1. /\ HasFields(w) /\ w.st = v.st /\ w.peer = v.peer /\ w.out = Tail(v.out)
        /\ w.mine = v.mine /\ w.his = v.his /\ w.pend = v.pend
    BY <1>2, LetterSent DEF HasFields
  <2> HIDE DEF w
  <2> QED
    BY <1>2, <2>1, LetterSent DEF DialogueOK, OwnDraft, HisDraft
<1> HIDE DEF w
<1>5. Mailbox(branch, ends, q, Append(box[q], Letter(d))) /\ q \in Party
  BY <1>2, LetterSent
<1>6. \A e \in Sides : side'[e] = side[e] \/ DialogueOK(branch', Owner(e[1]), Server(e), side'[e])
  BY <1>1, <1>2, <1>3, <1>4 DEF Shapes
<1>7. \A p \in Party : box'[p] = box[p] \/ Mailbox(branch', ends, p, box'[p])
  <2> HIDE DEF q
  <2> QED
    BY <1>1, <1>2, <1>3, <1>5 DEF Shapes
<1>8. Shapes'
  <2> HIDE DEF q
  <2> QED
    BY <1>1, <1>2, <1>3 DEF Shapes
<1> QED
  BY <1>1, <1>6, <1>7, <1>8, Frame, SameBranch

\* Giving up, or dying, a process leaves nothing behind but its letters.
SidesWell ==
  /\ side' = [d \in Sides |-> side'[d]]
  /\ \A d \in Sides : side'[d] = side[d] \/ DialogueOK(branch', Owner(d[1]), Server(d), side'[d])

TodoWell ==
  /\ todo' = [c \in Proc |-> todo'[c]]
  /\ \A c \in Proc : todo'[c] = todo[c] \/ Mailbox(branch', ends, Owner(c), todo'[c])

LEMMA EmptyBox == ASSUME NEW br, NEW es, NEW p PROVE Mailbox(br, es, p, <<>>)
BY EmptySeq DEF Mailbox

LEMMA GiveUpWell ==
  ASSUME IInv, NEW d \in Sides, GiveUp(d)
  PROVE  SidesWell /\ TodoWell
<1>1. Shapes
  BY DEF IInv
<1>2. PICK st \in {"off", "null"} : side' = [side EXCEPT ![d] = Over(st)]
  BY DEF GiveUp
<1>3. st \notin Live
  BY <1>2 DEF Live, Waiting, Midway
<1>4. SidesWell
  BY <1>1, <1>2, <1>3, OverOK DEF SidesWell, Shapes
<1>5. TodoWell
  BY <1>1, EmptyBox DEF GiveUp, TodoWell, Shapes
<1> QED
  BY <1>4, <1>5

LEMMA DieWell ==
  ASSUME IInv, NEW c \in Proc, Die(c)
  PROVE  SidesWell /\ TodoWell
<1>1. Shapes
  BY DEF IInv
<1>2. "off" \notin Live
  BY DEF Live, Waiting, Midway
<1>3. /\ side' = [d \in Sides |-> side'[d]]
      /\ \A d \in Sides : side'[d] \in {side[d], Over("off"), Blank}
  BY DEF Die
<1>4. SidesWell
  BY <1>2, <1>3, OverOK DEF SidesWell
<1>5. TodoWell
  BY <1>1, EmptyBox DEF Die, TodoWell, Shapes
<1> QED
  BY <1>4, <1>5

\* A step that changes dialogues, letters fetched and mailboxes only.
LEMMA RelayFrame ==
  ASSUME IInv, SidesWell, TodoWell,
         UNCHANGED <<ends, branch, stored, seals, slip, papers>>,
         box' = [p \in Party |-> box'[p]],
         \A p \in Party : box'[p] = box[p] \/ Mailbox(branch, ends, p, box'[p])
  PROVE  IInv'
<1>1. Shapes'
  BY DEF IInv, Shapes, SidesWell, TodoWell
<1> QED
  BY <1>1, Frame, SameBranch DEF SidesWell, TodoWell

LEMMA RefusedKeeps ==
  ASSUME IInv, NEW d \in Sides, Refused(d), UNCHANGED hand
  PROVE  IInv'
<1>1. Shapes /\ SidesWell /\ TodoWell
  BY GiveUpWell DEF Refused, IInv
<1> QED
  BY <1>1, RelayFrame DEF Refused, world, disk, hand, Shapes

LEMMA SendLostKeeps ==
  ASSUME IInv, NEW d \in Sides, SendLost(d), UNCHANGED hand
  PROVE  IInv'
<1> DEFINE q == side[d].peer
<1>1. Shapes /\ SidesWell /\ TodoWell /\ side[d].out # <<>>
  BY GiveUpWell DEF SendLost, IInv
<1>2. q \in Party /\ Mailbox(branch, ends, q, Append(box[q], Letter(d)))
  BY <1>1, LetterSent
<1>3. box' = box \/ box' = [box EXCEPT ![q] = Append(@, Letter(d))]
  BY DEF SendLost
<1> HIDE DEF q
<1>4. /\ box' = [p \in Party |-> box'[p]]
      /\ \A p \in Party : box'[p] = box[p] \/ Mailbox(branch, ends, p, box'[p])
  BY <1>1, <1>2, <1>3 DEF Shapes
<1> QED
  BY <1>1, <1>4, RelayFrame DEF SendLost, world, disk, hand

\* A mailbox is emptied and the dialogues that ended are forgotten.
LEMMA DrainWell ==
  ASSUME IInv, NEW c \in Proc, Drain(c)
  PROVE  /\ SidesWell
         /\ box' = [p \in Party |-> box'[p]]
         /\ \A p \in Party : box'[p] = box[p] \/ Mailbox(branch, ends, p, box'[p])
<1>1. Shapes /\ Owner(c) \in Party
  BY OwnersAre DEF IInv
<1>2. /\ side' = [d \in Sides |-> side'[d]]
      /\ \A d \in Sides : side'[d] \in {side[d], Blank}
  BY DEF Drain, Swept
<1>3. SidesWell
  BY <1>2, OverOK DEF SidesWell, Live, Waiting, Midway
<1>4. box' = [box EXCEPT ![Owner(c)] = <<>>]
  BY DEF Drain
<1> QED
  BY <1>1, <1>3, <1>4, EmptyBox DEF Shapes

LEMMA PollKeeps ==
  ASSUME IInv, NEW c \in Proc, Poll(c), UNCHANGED hand
  PROVE  IInv'
<1>1. Shapes /\ Owner(c) \in Party /\ Mailbox(branch, ends, Owner(c), box[Owner(c)])
  BY OwnersAre DEF IInv, BoxesOK
<1>2. UNCHANGED <<ends, branch, stored, seals, slip, papers>>
  BY DEF Poll, world, disk, hand
<1>3. TodoWell
  BY <1>1, <1>2 DEF Poll, TodoWell, Shapes
<1> QED
  BY <1>2, <1>3, DrainWell, RelayFrame DEF Poll

LEMMA PollLostKeeps ==
  ASSUME IInv, NEW c \in Proc, PollLost(c), UNCHANGED hand
  PROVE  IInv'
<1>1. UNCHANGED <<ends, branch, stored, seals, slip, papers, todo>>
  BY DEF PollLost, world, disk, hand
<1>2. TodoWell
  BY <1>1 DEF IInv, Shapes, TodoWell
<1> QED
  BY <1>1, <1>2, DrainWell, RelayFrame DEF PollLost

LEMMA ExpireKeeps ==
  ASSUME IInv, NEW p \in Party, Expire(p), UNCHANGED hand
  PROVE  IInv'
<1>1. UNCHANGED <<ends, branch, stored, seals, slip, papers, todo, side>>
  BY DEF Expire, world, disk, hand
<1>2. Shapes /\ Mailbox(branch, ends, p, box[p]) /\ box[p] # <<>>
  BY DEF Expire, IInv, BoxesOK
<1>3. Mailbox(branch, ends, p, Tail(box[p]))
  BY <1>2, TailSeq DEF Mailbox
<1>4. box' = [box EXCEPT ![p] = Tail(@)]
  BY DEF Expire
<1>5. SidesWell /\ TodoWell
  BY <1>1, <1>2 DEF Shapes, SidesWell, TodoWell
<1> QED
  BY <1>1, <1>2, <1>3, <1>4, <1>5, RelayFrame DEF Shapes

LEMMA CrashKeeps ==
  ASSUME IInv, NEW c \in Proc, Die(c), UNCHANGED <<world, disk, box>>, UNCHANGED hand
  PROVE  IInv'
BY DieWell, RelayFrame DEF IInv, Shapes, world, disk, hand

LEMMA TimeoutKeeps ==
  ASSUME IInv, NEW s \in Session, Timeout(s), UNCHANGED hand
  PROVE  IInv'
<1> DEFINE d == <<Run(s), s>>
<1>1. /\ UNCHANGED <<ends, branch, stored, seals, slip, papers, box, todo>>
      /\ side' = [side EXCEPT ![d] = Over("off")]
  BY DEF Timeout, world, disk, hand
<1>2. Shapes /\ "off" \notin Live
  BY DEF IInv, Live, Waiting, Midway
<1>3. SidesWell /\ TodoWell
  BY <1>1, <1>2, OverOK DEF Shapes, SidesWell, TodoWell
<1> QED
  BY <1>1, <1>2, <1>3, RelayFrame DEF Shapes

LEMMA GrowKeeps ==
  ASSUME IInv, NEW p \in Party, Grow(p), UNCHANGED hand
  PROVE  IInv'
<1>1. /\ UNCHANGED <<ends, stored, seals, slip, papers, box, todo, side>>
      /\ branch' = [branch EXCEPT ![p] = Append(@, DataBlock(clock[p]))]
  BY DEF Grow, world, hand
<1>2. Shapes
  BY DEF IInv
<1>3. Shapes' /\ Extends(branch, branch')
  BY <1>1, <1>2, GrownBranch DEF Shapes
<1> QED
  BY <1>1, <1>3, Frame

LEMMA PairSeq ==
  ASSUME NEW m, NEW n
  PROVE  IsSeq(<<m, n>>) /\ \A i \in DOMAIN <<m, n>> : <<m, n>>[i] = m \/ <<m, n>>[i] = n
<1>1. <<m, n>> \in Seq({m, n}) /\ DOMAIN <<m, n>> = 1..2
  OBVIOUS
<1>2. <<m, n>>[1] = m /\ <<m, n>>[2] = n /\ \A i \in 1..2 : i = 1 \/ i = 2
  OBVIOUS
<1>3. IsSeq(<<m, n>>)
  BY <1>1, AnySeq
<1> QED
  BY <1>1, <1>2, <1>3

\* The draft that goes out is the one on the disk.
LEMMA ProposalTrue ==
  ASSUME IInv, NEW d \in Sides, side[d].st = "SNAP"
  PROVE  /\ IsSeq(Proposal(d))
         /\ \A i \in DOMAIN Proposal(d) : Truthful(branch, Server(d), Proposal(d)[i])
<1> DEFINE v == side[d]
           p == Owner(d[1])
           draft == [t |-> "DRAFT", at |-> <<p, v.pend>>, block |-> branch[p][v.pend]]
           tip == TipMessage("ACCEPT", p, v.mine, v.mineSnap)
<1>1. DialogueOK(branch, p, Server(d), v)
  BY DEF IInv, DialoguesOK
<1>2. Half(branch, p, v.pend) /\ v.mine \in Nat
  BY <1>1 DEF DialogueOK, OwnDraft, Drafted
<1>3. Truthful(branch, Server(d), draft)
  <2> HIDE DEF v, p
  <2> QED
    BY <1>2 DEF Truthful, Half
<1>4. Truthful(branch, Server(d), tip)
  BY <1>2 DEF Truthful, TipMessage
<1>5. Proposal(d) = IF v.seq = 0 THEN <<tip, draft>> ELSE <<draft>>
  BY DEF Proposal
<1> HIDE DEF v, p, draft, tip
<1> QED
  BY <1>3, <1>4, <1>5, PairSeq, SingleSeq

LEMMA SnapKeeps ==
  ASSUME IInv, NEW d \in Sides, Snap(d), UNCHANGED hand
  PROVE  IInv'
<1> DEFINE v == side[d]
           w == [side[d] EXCEPT !.st = "WAIT_DRAFT", !.out = Proposal(d)]
           p == Owner(d[1])
<1>1. UNCHANGED <<ends, branch, seals, todo, box, slip, papers>>
  BY DEF Snap, world, hand
<1>2. /\ Shapes /\ v.st = "SNAP" /\ DialogueOK(branch, p, Server(d), v)
      /\ side' = [side EXCEPT ![d].st = "WAIT_DRAFT", ![d].out = Proposal(d)]
      /\ stored' = [stored EXCEPT ![p] = branch[p][v.pend].union]
  BY DEF Snap, IInv, DialoguesOK, Kept
<1>3. p \in Party /\ OwnDraft(branch, p, Server(d), v)
  BY <1>2, SidesAre DEF DialogueOK, Drafted
<1>4. side' = [side EXCEPT ![d] = w]
  BY <1>2 DEF Shapes
<1>5. DialogueOK(branch, p, Server(d), w)
  <2>1. /\ HasFields(w) /\ w.st = "WAIT_DRAFT" /\ w.peer = v.peer /\ w.out = Proposal(d)
        /\ w.mine = v.mine /\ w.his = v.his /\ w.pend = v.pend
    BY <1>2 DEF HasFields, DialogueOK
  <2>2. v.peer \in Party \ {p}
    BY <1>2 DEF DialogueOK, Live, Midway
  <2> HIDE DEF w, v, p
  <2> QED
    BY <1>2, <1>3, <2>1, <2>2, ProposalTrue
       DEF DialogueOK, OwnDraft, Checked, Live, Waiting, Midway, v
<1> HIDE DEF w, p, v
<1>6. \A e \in Sides : side'[e] = side[e] \/ DialogueOK(branch', Owner(e[1]), Server(e), side'[e])
  BY <1>1, <1>2, <1>4, <1>5 DEF Shapes, p
<1>7. \A q \in Party : \/ stored'[q] = stored[q]
                       \/ \E i \in DOMAIN branch'[q] :
                            branch'[q][i].kind = "merge" /\ branch'[q][i].union = stored'[q]
  BY <1>1, <1>2, <1>3 DEF Shapes, OwnDraft, Half
<1>8. Shapes'
  BY <1>1, <1>2, <1>4 DEF Shapes
<1> QED
  BY <1>1, <1>6, <1>7, <1>8, Frame, SameBranch

LEMMA FillCacheKeeps ==
  ASSUME IInv, NEW d \in Sides, FillCache(d), UNCHANGED hand
  PROVE  IInv'
<1> DEFINE v == side[d]
           w == [Over("DONE") EXCEPT !.mine = v.mine, !.pend = v.pend]
<1>1. UNCHANGED <<ends, branch, stored, seals, todo, box, slip, papers>>
  BY DEF FillCache, world, hand
<1>2. Shapes /\ DialogueOK(branch, Owner(d[1]), Server(d), v) /\ side' = [side EXCEPT ![d] = w]
  BY DEF FillCache, IInv, DialoguesOK
<1>3. DialogueOK(branch, Owner(d[1]), Server(d), w)
  <2>1. /\ HasFields(w) /\ w.st = "DONE" /\ w.out = <<>>
        /\ w.mine = v.mine /\ w.his = 0 /\ w.pend = v.pend
    BY DEF HasFields, Over, Blank
  <2> HIDE DEF w
  <2> QED
    BY <1>2, <2>1, EmptySeq DEF DialogueOK, Live, Waiting, Midway, Drafted, Checked
<1> HIDE DEF w
<1>4. SidesWell /\ TodoWell
  BY <1>1, <1>2, <1>3 DEF Shapes, SidesWell, TodoWell
<1> QED
  BY <1>1, <1>2, <1>4, RelayFrame DEF Shapes

-----------------------------------------------------------------------------
(* A letter is read.                                                       *)

\* What a dialogue v may have become after a letter: over, waiting, or about to
\* write its draft, or about to put the partner's signature.
Drafting(p, sure, w) ==
  /\ HasFields(w) /\ w.st = "SNAP" /\ w.out = <<>>
  /\ w.mine \in Nat /\ w.his \in Nat
  /\ w.peer \in Party \ {p} /\ branch[p] # <<>>
  /\ w.pend = Len(branch[p]) + 1
  /\ sure => w.mine = Len(branch[p])

LEMMA MetWell ==
  ASSUME IInv, NEW d \in Sides, NEW v, DialogueOK(branch, Owner(d[1]), Server(d), v),
         v.st \in Live, v.out = <<>>, NEW m, m.tip \in Nat,
         Server(d) => v.mine = Len(branch[Owner(d[1])])
  PROVE  \/ Met(d, v, m) = Over("FAILED")
         \/ Drafting(Owner(d[1]), Server(d), Met(d, v, m))
<1> DEFINE p == Owner(d[1])
           w == [v EXCEPT !.his = m.tip, !.hisSnap = m.snap, !.pend = Len(branch[p]) + 1,
                          !.st = "SNAP"]
<1>1. CASE ~(TipIsNow(m.time, v.at) /\ branch[p] # <<>> /\ m.tip # 0)
  BY <1>1 DEF Met
<1>2. CASE TipIsNow(m.time, v.at) /\ branch[p] # <<>> /\ m.tip # 0
  <2>1. Met(d, v, m) = w
    BY <1>2 DEF Met
  <2>2. /\ HasFields(w) /\ w.st = "SNAP" /\ w.out = v.out /\ w.mine = v.mine
        /\ w.his = m.tip /\ w.peer = v.peer /\ w.pend = Len(branch[p]) + 1
    BY DEF DialogueOK, HasFields
  <2> HIDE DEF w, p
  <2>3. v.mine \in Nat /\ v.peer \in Party \ {p}
    BY DEF DialogueOK, p
  <2>4. Drafting(p, Server(d), w)
    BY <1>2, <2>2, <2>3 DEF Drafting, p
  <2> QED
    BY <2>1, <2>4 DEF p
<1> QED
  BY <1>1, <1>2

LEMMA OfferWell ==
  ASSUME IInv, NEW d \in Sides, NEW v, DialogueOK(branch, Owner(d[1]), Server(d), v),
         v.st = "IDLE", v.out = <<>>, NEW m, m.tip \in Nat
  PROVE  \/ HandleOffer(d, v, m) = Over("FAILED")
         \/ Drafting(Owner(d[1]), Server(d), HandleOffer(d, v, m))
<1> DEFINE p == Owner(d[1])
           w == [v EXCEPT !.mine = Len(branch[p]), !.mineSnap = SnapshotFor(p)]
<1>1. p \in Party /\ Len(branch[p]) \in Nat
  BY SidesAre, AppendSeq DEF IInv, Shapes
<1>2. /\ HasFields(w) /\ w.st = v.st /\ w.out = v.out /\ w.mine = Len(branch[p])
      /\ w.his = v.his /\ w.peer = v.peer /\ w.pend = v.pend
  BY DEF DialogueOK, HasFields
<1>3. HandleOffer(d, v, m) = Over("FAILED") \/ HandleOffer(d, v, m) = Met(d, w, m)
  BY DEF HandleOffer
<1> HIDE DEF w
<1>4. DialogueOK(branch, p, Server(d), w)
  <2> HIDE DEF p
  <2> QED
    BY <1>1, <1>2 DEF DialogueOK, Drafted, Checked, p
<1>5. w.st \in Live
  BY <1>2 DEF Live
<1> QED
  BY <1>2, <1>3, <1>4, <1>5, MetWell

LEMMA DraftWell ==
  ASSUME IInv, NEW d \in Sides, NEW v, DialogueOK(branch, Owner(d[1]), Server(d), v),
         v.st = "WAIT_DRAFT", NEW m, m.t = "DRAFT", Truthful(branch, FALSE, m)
  PROVE  /\ DialogueOK(branch, Owner(d[1]), Server(d), HandleDraft(d, v, m))
         /\ HandleDraft(d, v, m).st \notin Midway
<1> DEFINE p == Owner(d[1])
           cosig == [t |-> "COSIG", of |-> m.at, key |-> key[p]]
           w == [v EXCEPT !.st = "WAIT_COSIG", !.out = <<cosig>>]
<1>1. CASE ~DraftOK(p, v, m)
  <2>1. HandleDraft(d, v, m) = Over("FAILED") /\ "FAILED" \notin Live
    BY <1>1 DEF HandleDraft, Live, Waiting, Midway
  <2> QED
    BY <2>1, OverOK DEF Over, Blank, Midway
<1>2. CASE DraftOK(p, v, m)
  <2>1. HandleDraft(d, v, m) = w
    BY <1>2 DEF HandleDraft
  <2>2. /\ HasFields(w) /\ w.st = "WAIT_COSIG" /\ w.out = <<cosig>>
        /\ w.mine = v.mine /\ w.his = v.his /\ w.peer = v.peer /\ w.pend = v.pend
    BY DEF DialogueOK, HasFields
  <2> HIDE DEF w, p
  <2>0. PICK q \in Party : \E j \in DOMAIN branch[q] :
          m.at = <<q, j>> /\ Half(branch, q, j) /\ m.block = branch[q][j]
    BY DEF Truthful
  <2>3. PICK j \in DOMAIN branch[q] :
          m.at = <<q, j>> /\ Half(branch, q, j) /\ m.block = branch[q][j]
    BY <2>0
  <2>4. /\ v.mine \in Nat /\ v.his \in Nat /\ v.pend \in Nat
        /\ v.peer \in Party \ {p} /\ OwnDraft(branch, p, Server(d), v) /\ p \in Party
    BY SidesAre DEF DialogueOK, Live, Waiting, Drafted, IInv, p
  <2>5. q = v.peer /\ j = v.his + 1 /\ HisDraft(branch, p, v)
    BY <1>2, <2>3 DEF DraftOK, HisDraft
  <2>6. Server(d) => Answered(branch, q, j)
    <3>1. ASSUME Server(d)
          PROVE  Twins(branch, q, j, p, v.pend)
      BY <3>1, <2>4, <2>5 DEF Twins, OwnDraft, HisDraft, Half
    <3>2. v.pend \in DOMAIN branch[p]
      BY <2>4 DEF OwnDraft, Half
    <3> QED
      BY <3>1, <3>2, <2>4 DEF Answered
  <2>7. Truthful(branch, Server(d), cosig)
    BY <2>3, <2>6 DEF Truthful
  <2> HIDE DEF cosig
  <2>8. DialogueOK(branch, p, Server(d), w)
    BY <2>2, <2>4, <2>5, <2>7, SingleSeq
       DEF DialogueOK, OwnDraft, HisDraft, Live, Waiting, Drafted, Checked
  <2> QED
    BY <2>1, <2>2, <2>8 DEF p, Midway
<1> QED
  BY <1>1, <1>2

\* Who seals has checked the partner's draft, and the co-signature is for his:
\* one who drafts on the tip he tells knows by the draft, one who began the
\* session by the co-signature that the two halves are twins.
LEMMA CosigWell ==
  ASSUME IInv, NEW d \in Sides, NEW v, DialogueOK(branch, Owner(d[1]), Server(d), v),
         v.st = "WAIT_COSIG", v.out = <<>>, NEW m, m.t = "COSIG",
         Truthful(branch, ~Server(d), m)
  PROVE  \/ HandleCosig(d, v, m) = Over("FAILED")
         \/ /\ HandleCosig(d, v, m).st = "SEALED"
            /\ DialogueOK(branch, Owner(d[1]), Server(d), HandleCosig(d, v, m))
            /\ v.pend \in DOMAIN branch[Owner(d[1])]
            /\ Answered(branch, Owner(d[1]), v.pend)
<1> DEFINE p == Owner(d[1])
           w == [v EXCEPT !.st = "SEALED"]
<1>1. CASE ~CosigOK(p, v, m)
  BY <1>1 DEF HandleCosig
<1>2. CASE CosigOK(p, v, m)
  <2>1. HandleCosig(d, v, m) = w
    BY <1>2 DEF HandleCosig
  <2>2. /\ HasFields(w) /\ w.st = "SEALED" /\ w.out = v.out
        /\ w.mine = v.mine /\ w.his = v.his /\ w.peer = v.peer /\ w.pend = v.pend
    BY DEF DialogueOK, HasFields
  <2> HIDE DEF w, p
  <2>3. /\ v.mine \in Nat /\ v.his \in Nat /\ v.pend \in Nat /\ p \in Party
        /\ v.peer \in Party \ {p} /\ OwnDraft(branch, p, Server(d), v) /\ HisDraft(branch, p, v)
    BY SidesAre DEF DialogueOK, Live, Waiting, Drafted, Checked, IInv, p
  <2>4. DialogueOK(branch, p, Server(d), w)
    BY <2>2, <2>3, EmptySeq
       DEF DialogueOK, OwnDraft, HisDraft, Live, Midway, Drafted, Checked
  <2>5. v.pend \in DOMAIN branch[p] /\ v.his + 1 \in DOMAIN branch[v.peer]
    BY <2>3 DEF OwnDraft, HisDraft, Half
  <2>6. CASE Server(d)
    <3>1. Twins(branch, p, v.pend, v.peer, v.his + 1)
      BY <2>3, <2>6 DEF Twins, OwnDraft, HisDraft, Half
    <3> QED
      BY <2>1, <2>2, <2>3, <2>4, <2>5, <3>1 DEF Answered, p
  <2>7. CASE ~Server(d)
    <3>1. m.of = <<p, v.pend>>
      BY <1>2 DEF CosigOK
    <3>2. Answered(branch, p, v.pend)
      BY <2>7, <3>1 DEF Truthful
    <3> QED
      BY <2>1, <2>2, <2>4, <2>5, <3>2 DEF p
  <2> QED
    BY <2>6, <2>7
<1> QED
  BY <1>1, <1>2

LEMMA FailedOK ==
  ASSUME NEW br, NEW p, NEW sure
  PROVE  Over("FAILED").st \notin Midway /\ DialogueOK(br, p, sure, Over("FAILED"))
BY OverOK DEF Over, Blank, Live, Waiting, Midway

\* After a letter a dialogue is as it should be, or writes its draft, or its
\* owner gets the signature on an answered half.
After(d, v, w) ==
  \/ w.st \notin Midway /\ DialogueOK(branch, Owner(d[1]), Server(d), w)
  \/ Drafting(Owner(d[1]), Server(d), w)
  \/ /\ w.st = "SEALED" /\ DialogueOK(branch, Owner(d[1]), Server(d), w)
     /\ v.pend \in DOMAIN branch[Owner(d[1])] /\ Answered(branch, Owner(d[1]), v.pend)

LEMMA OnMessageWell ==
  ASSUME IInv, NEW d \in Sides, NEW v, DialogueOK(branch, Owner(d[1]), Server(d), v),
         v.st \in Waiting \cup {"IDLE"}, v.out = <<>>,
         NEW m, Truthful(branch, ~Server(d), m)
  PROVE  After(d, v, OnMessage(d, v, m))
<1>0. After(d, v, Over("FAILED"))
  BY FailedOK DEF After
<1>1. CASE v.st = "IDLE" /\ m.t = "OFFER"
  <2>1. OnMessage(d, v, m) = HandleOffer(d, v, m)
    BY <1>1 DEF OnMessage
  <2>2. m.tip \in Nat
    BY <1>1 DEF Truthful
  <2> QED
    BY <1>0, <1>1, <2>1, <2>2, OfferWell DEF After
<1>2. CASE v.st = "WAIT_ACCEPT" /\ m.t = "ACCEPT"
  <2>1. OnMessage(d, v, m) = Met(d, v, m)
    BY <1>2 DEF OnMessage, HandleAccept
  <2>2. m.tip \in Nat /\ ~Server(d) /\ v.st \in Live
    BY <1>2 DEF Truthful, DialogueOK, Live, Waiting
  <2> QED
    BY <1>0, <1>2, <2>1, <2>2, MetWell DEF After
<1>3. CASE v.st = "WAIT_DRAFT" /\ m.t = "DRAFT"
  <2>1. OnMessage(d, v, m) = HandleDraft(d, v, m)
    BY <1>3 DEF OnMessage
  <2>2. Truthful(branch, FALSE, m)
    BY <1>3 DEF Truthful
  <2> QED
    BY <1>3, <2>1, <2>2, DraftWell DEF After
<1>4. CASE v.st = "WAIT_COSIG" /\ m.t = "COSIG"
  <2>1. OnMessage(d, v, m) = HandleCosig(d, v, m)
    BY <1>4 DEF OnMessage
  <2> QED
    BY <1>0, <1>4, <2>1, CosigWell DEF After
<1>5. CASE /\ ~(v.st = "IDLE" /\ m.t = "OFFER")
           /\ ~(v.st = "WAIT_ACCEPT" /\ m.t = "ACCEPT")
           /\ ~(v.st = "WAIT_DRAFT" /\ m.t = "DRAFT")
           /\ ~(v.st = "WAIT_COSIG" /\ m.t = "COSIG")
  <2>1. OnMessage(d, v, m) = Over("FAILED")
    BY <1>5 DEF OnMessage
  <2> QED
    BY <1>0, <2>1
<1> QED
  BY <1>1, <1>2, <1>3, <1>4, <1>5

\* Counting the letter changes nothing else.
LEMMA CountedWell ==
  ASSUME NEW d, NEW v, NEW x, After(d, v, x)
  PROVE  After(d, v, [x EXCEPT !.nextIn = @ + 1])
<1> DEFINE w == [x EXCEPT !.nextIn = @ + 1]
<1>1. HasFields(x)
  BY DEF After, Drafting, DialogueOK
<1>2. /\ HasFields(w) /\ w.st = x.st /\ w.peer = x.peer /\ w.out = x.out
      /\ w.mine = x.mine /\ w.his = x.his /\ w.pend = x.pend
  BY <1>1 DEF HasFields
<1> HIDE DEF w
<1>3. DialogueOK(branch, Owner(d[1]), Server(d), x)
        => DialogueOK(branch, Owner(d[1]), Server(d), w)
  BY <1>2 DEF DialogueOK, OwnDraft, HisDraft
<1>4. Drafting(Owner(d[1]), Server(d), x) => Drafting(Owner(d[1]), Server(d), w)
  BY <1>2 DEF Drafting
<1>5. After(d, v, w)
  BY <1>2, <1>3, <1>4 DEF After
<1> QED
  BY <1>5 DEF w

\* A dialogue that opens knows who wrote.
LEMMA OpenedWell ==
  ASSUME IInv, NEW d \in Sides, NEW l, LetterOK(branch, ends, Owner(d[1]), l)
  PROVE  /\ DialogueOK(branch, Owner(d[1]), Server(d), Opened(d, l))
         /\ side[d].out = <<>> => Opened(d, l).out = <<>>
         /\ side[d].st \notin Midway => Opened(d, l).st \notin Midway
<1> DEFINE v == [Blank EXCEPT !.st = "IDLE", !.peer = l.from, !.at = clock[Owner(d[1])]]
<1>1. CASE side[d].st # "none"
  BY <1>1 DEF Opened, IInv, DialoguesOK
<1>2. CASE side[d].st = "none"
  <2>1. Opened(d, l) = v
    BY <1>2 DEF Opened
  <2>2. /\ HasFields(v) /\ v.st = "IDLE" /\ v.peer = l.from /\ v.out = <<>>
        /\ v.mine = 0 /\ v.his = 0 /\ v.pend = 0
    BY DEF HasFields, Blank
  <2> HIDE DEF v
  <2>3. DialogueOK(branch, Owner(d[1]), Server(d), v)
    BY <2>2, EmptySeq DEF DialogueOK, LetterOK, Drafted, Checked
  <2> QED
    BY <2>1, <2>2, <2>3 DEF Midway
<1> QED
  BY <1>1, <1>2

LEMMA LetterRead ==
  ASSUME IInv, NEW d \in Sides, NEW l, LetterOK(branch, ends, Owner(d[1]), l), l.s = d[2],
         side[d].out = <<>>, side[d].st \notin Midway
  PROVE  After(d, Opened(d, l),
               IF Turn(d, l) THEN [OnMessage(d, Opened(d, l), l.msg) EXCEPT !.nextIn = @ + 1]
               ELSE Opened(d, l))
<1> DEFINE v == Opened(d, l)
<1>1. DialogueOK(branch, Owner(d[1]), Server(d), v) /\ v.out = <<>> /\ v.st \notin Midway
  BY OpenedWell
<1>2. CASE ~Turn(d, l)
  BY <1>1, <1>2 DEF After
<1>3. CASE Turn(d, l)
  <2>1. l.from = v.peer /\ v.st \in Waiting \cup {"IDLE"}
    BY <1>3 DEF Turn
  <2>2. v.peer \in Party \ {Owner(d[1])}
    BY <1>1, <2>1 DEF DialogueOK, Live
  <2> HIDE DEF v
  <2>3. ~Server(d) => l.from # ends[l.s][1]
    BY <2>1, <2>2, SidesAre DEF IInv
  <2>4. Truthful(branch, ~Server(d), l.msg)
    BY <2>3, LessSure DEF LetterOK
  <2> QED
    BY <1>1, <1>3, <2>1, <2>4, OnMessageWell, CountedWell DEF v
<1> QED
  BY <1>2, <1>3

\* The draft that is written takes what the dialogue was told.
LEMMA DraftWritten ==
  ASSUME IInv, NEW d \in Sides, NEW w, Drafting(Owner(d[1]), Server(d), w),
         branch' = [branch EXCEPT ![Owner(d[1])] = Append(@, DraftOf(Owner(d[1]), w))]
  PROVE  DialogueOK(branch', Owner(d[1]), Server(d), w)
<1> DEFINE p == Owner(d[1])
           b == DraftOf(p, w)
<1>1. p \in Party /\ Shapes
  BY SidesAre DEF IInv
<1>2. b.kind = "merge" /\ b.takes = <<w.peer, w.his>>
  BY DEF DraftOf
<1> HIDE DEF p, b
<1>3. /\ Len(branch[p]) \in Nat /\ Len(branch[p]) + 1 \in DOMAIN branch'[p]
      /\ branch'[p][Len(branch[p]) + 1] = b
  BY <1>1, GrownBranch DEF p, b
<1>4. OwnDraft(branch', p, Server(d), w)
  BY <1>1, <1>2, <1>3 DEF OwnDraft, Half, Drafting, p
<1>5. w.pend \in Nat
  BY <1>3 DEF Drafting, p
<1> QED
  BY <1>4, <1>5, EmptySeq DEF DialogueOK, Drafting, Live, Midway, Checked, p

LEMMA ReadKeeps ==
  ASSUME IInv, NEW c \in Proc, Read(c), UNCHANGED hand
  PROVE  IInv'
<1> DEFINE l == Head(todo[c])
           d == <<c, l.s>>
           v == Opened(d, l)
           w == IF Turn(d, l) THEN [OnMessage(d, v, l.msg) EXCEPT !.nextIn = @ + 1] ELSE v
           p == Owner(c)
<1>1. /\ UNCHANGED <<ends, stored, box, slip, papers>>
      /\ ~Busy(c) /\ todo[c] # <<>>
      /\ todo' = [todo EXCEPT ![c] = Tail(@)]
      /\ side' = IF d \in Sides THEN [side EXCEPT ![d] = w] ELSE side
      /\ branch' = IF d \in Sides /\ w.st = "SNAP"
                   THEN [branch EXCEPT ![p] = Append(@, DraftOf(p, w))] ELSE branch
      /\ seals' = IF d \in Sides /\ w.st = "SEALED" THEN seals \cup {<<p, v.pend>>} ELSE seals
  BY DEF Read, world, hand
<1>2. Shapes /\ p \in Party /\ Mailbox(branch, ends, p, todo[c])
  BY OwnersAre DEF IInv, TodoOK
<1>3. /\ LetterOK(branch, ends, p, l) /\ IsSeq(Tail(todo[c]))
      /\ \A i \in DOMAIN Tail(todo[c]) : LetterOK(branch, ends, p, Tail(todo[c])[i])
  BY <1>1, <1>2, TailSeq DEF Mailbox
<1>4. d \in Sides => After(d, v, w)
  <2> SUFFICES ASSUME d \in Sides PROVE After(d, v, w)
    OBVIOUS
  <2>1. side[d].out = <<>> /\ side[d].st \notin Midway
    BY <1>1 DEF Busy
  <2> QED
    BY <1>3, <2>1, LetterRead
<1>5. d[1] = c
  OBVIOUS
<1> HIDE DEF w, v, d, l
<1>6. CASE d \in Sides /\ Drafting(p, Server(d), w)
  <2>1. /\ branch' = [branch EXCEPT ![p] = Append(@, DraftOf(p, w))]
        /\ seals' = seals /\ side' = [side EXCEPT ![d] = w]
    BY <1>1, <1>6 DEF Drafting
  <2>2. DialogueOK(branch', p, Server(d), w)
    BY <1>5, <1>6, <2>1, DraftWritten
  <2>3. /\ Extends(branch, branch') /\ branch' = [q \in Party |-> branch'[q]]
        /\ \A q \in Party : IsSeq(branch'[q])
    BY <1>2, <2>1, GrownBranch
  <2>4. Mailbox(branch', ends, p, Tail(todo[c]))
    BY <1>3, <2>3, TruthStays DEF Mailbox, LetterOK
  <2>5. Shapes'
    BY <1>1, <1>2, <2>1, <2>3 DEF Shapes
  <2>6. \A e \in Sides : side'[e] = side[e] \/ DialogueOK(branch', Owner(e[1]), Server(e), side'[e])
    BY <1>2, <1>5, <1>6, <2>1, <2>2 DEF Shapes
  <2>7. \A e \in Proc : todo'[e] = todo[e] \/ Mailbox(branch', ends, Owner(e), todo'[e])
    BY <1>1, <1>2, <2>4 DEF Shapes
  <2> QED
    BY <1>1, <2>1, <2>3, <2>5, <2>6, <2>7, Frame
<1>7. CASE ~(d \in Sides /\ Drafting(p, Server(d), w))
  <2>1. /\ branch' = branch
        /\ d \in Sides => DialogueOK(branch, p, Server(d), w)
        /\ d \in Sides /\ w.st = "SEALED" => v.pend \in DOMAIN branch[p] /\ Answered(branch, p, v.pend)
    BY <1>1, <1>4, <1>5, <1>7 DEF After, Midway
  <2>2. Mailbox(branch', ends, p, Tail(todo[c]))
    BY <1>3, <2>1 DEF Mailbox
  <2>3. Shapes'
    BY <1>1, <1>2, <2>1 DEF Shapes
  <2>4. \A e \in Sides : side'[e] = side[e] \/ DialogueOK(branch', Owner(e[1]), Server(e), side'[e])
    BY <1>1, <1>2, <1>5, <2>1 DEF Shapes
  <2>5. \A e \in Proc : todo'[e] = todo[e] \/ Mailbox(branch', ends, Owner(e), todo'[e])
    BY <1>1, <1>2, <2>2 DEF Shapes
  <2>6. \A x \in seals' : x \in seals \/ \E q \in Party : \E i \in DOMAIN branch'[q] :
                                           x = <<q, i>> /\ Answered(branch', q, i)
    BY <1>1, <1>2, <2>1
  <2> QED
    BY <1>1, <2>1, <2>3, <2>4, <2>5, <2>6, Frame, SameBranch
<1> QED
  BY <1>6, <1>7

-----------------------------------------------------------------------------
(* By hand.                                                                *)

\* A step of one owner at the command line: nothing moves on the relay.
LEMMA HandFrame ==
  ASSUME IInv, UNCHANGED <<ends, box, todo, side>>, Extends(branch, branch'),
         branch' = [p \in Party |-> branch'[p]], \A p \in Party : IsSeq(branch'[p]),
         stored' = [p \in Party |-> stored'[p]], slip' = [p \in Party |-> slip'[p]],
         \A p \in Party : slip'[p] = slip[p] \/ SlipOK(branch', p, slip'[p]),
         \A x \in papers' : x \in papers \/ Truthful(branch', TRUE, x.msg),
         \A x \in seals' : x \in seals \/ \E p \in Party : \E i \in DOMAIN branch'[p] :
                                            x = <<p, i>> /\ Answered(branch', p, i),
         \A p \in Party : \/ stored'[p] = stored[p]
                          \/ \E i \in DOMAIN branch'[p] :
                               branch'[p][i].kind = "merge" /\ branch'[p][i].union = stored'[p]
  PROVE  IInv'
<1>1. Shapes'
  BY DEF IInv, Shapes
<1> QED
  BY <1>1, Frame

LEMMA PrintedWell ==
  ASSUME NEW p, NEW m, PrintSlip(p, m), Truthful(branch', TRUE, m)
  PROVE  \A x \in papers' : x \in papers \/ Truthful(branch', TRUE, x.msg)
<1> SUFFICES ASSUME NEW x \in papers', x \notin papers PROVE Truthful(branch', TRUE, x.msg)
  OBVIOUS
<1>1. x.msg = m
  BY DEF PrintSlip
<1> QED
  BY <1>1

LEMMA PrepareKeeps ==
  ASSUME IInv, NEW p \in Party, PrepareByHand(p), UNCHANGED <<world, box, todo, side>>
  PROVE  IInv'
<1> DEFINE m == TipMessage("TIP", p, Len(branch[p]), SnapshotFor(p))
<1>1. UNCHANGED <<ends, branch, stored, seals, slip>> /\ Shapes
  BY DEF PrepareByHand, world, disk, IInv
<1>2. PrintSlip(p, m)
  BY DEF PrepareByHand
<1>3. Len(branch[p]) \in Nat
  BY <1>1, AppendSeq DEF Shapes
<1>4. Truthful(branch', TRUE, m)
  BY <1>3 DEF Truthful, TipMessage
<1> HIDE DEF m
<1>5. \A x \in papers' : x \in papers \/ Truthful(branch', TRUE, x.msg)
  BY <1>2, <1>4, PrintedWell
<1> QED
  BY <1>1, <1>5, HandFrame, SameBranch DEF Shapes

\* What is printed is true.
LEMMA PrintedTrue ==
  ASSUME IInv, NEW q, NEW t, NEW m \in Printed(q, t)
  PROVE  Truthful(branch, TRUE, m) /\ m.t = t
BY DEF IInv, PapersOK, Printed

LEMMA CreateKeeps ==
  ASSUME IInv, NEW p \in Party, NEW q \in Party \ {p}, CreateByHand(p, q),
         UNCHANGED <<world, box, todo, side>>
  PROVE  IInv'
<1> DEFINE at == Len(branch[p]) + 1
           Printed4(b) == [t |-> "DRAFT", at |-> <<p, at>>, block |-> b]
<1>1. UNCHANGED <<ends, box, todo, side, seals>> /\ Shapes
  BY DEF CreateByHand, world, IInv
<1>2. PICK m \in Printed(q, "TIP") :
        /\ branch' = [branch EXCEPT ![p] = Append(@, DraftOf(p, SlipOf(p, q, m)))]
        /\ stored' = stored \/ stored' = [stored EXCEPT ![p] = DraftOf(p, SlipOf(p, q, m)).union]
        /\ slip' = slip \/ slip' = [slip EXCEPT ![p] = SlipOf(p, q, m)]
        /\ papers' = papers \/ PrintSlip(p, Printed4(DraftOf(p, SlipOf(p, q, m))))
  BY DEF CreateByHand
<1>3. m.tip \in Nat
  BY PrintedTrue DEF Truthful
<1>4. PICK v : v = SlipOf(p, q, m)
  OBVIOUS
<1>5. HasFields(v) /\ v.peer = q /\ v.pend = at /\ v.mine = at - 1 /\ v.his = m.tip
  <2>1. Len(branch[p]) \in Nat
    BY <1>1 DEF Shapes
  <2>2. HasFields(v) /\ v.peer = q /\ v.pend = at /\ v.mine = Len(branch[p]) /\ v.his = m.tip
    BY <1>4 DEF HasFields, Blank, SlipOf
  <2> QED
    BY <2>1, <2>2
<1>6. PICK b : b = DraftOf(p, v)
  OBVIOUS
<1>7. b.kind = "merge" /\ b.takes = <<q, m.tip>>
  BY <1>5, <1>6 DEF DraftOf
<1>8. /\ branch' = [branch EXCEPT ![p] = Append(@, b)]
      /\ stored' = stored \/ stored' = [stored EXCEPT ![p] = b.union]
      /\ slip' = slip \/ slip' = [slip EXCEPT ![p] = v]
      /\ papers' = papers \/ PrintSlip(p, Printed4(b))
  BY <1>2, <1>4, <1>6
<1>9. /\ Extends(branch, branch') /\ branch' = [o \in Party |-> branch'[o]]
      /\ \A o \in Party : IsSeq(branch'[o])
      /\ at \in Nat \ {0} /\ at \in DOMAIN branch'[p] /\ branch'[p][at] = b
  <2>1. branch' = [branch EXCEPT ![p] = Append(@, b)]
    BY <1>8
  <2>2. /\ Extends(branch, branch') /\ branch' = [o \in Party |-> branch'[o]]
        /\ \A o \in Party : IsSeq(branch'[o])
    BY <1>1, <2>1, GrownBranch
  <2>3. /\ Len(branch[p]) \in Nat /\ Len(branch[p]) + 1 \in DOMAIN branch'[p]
        /\ branch'[p][Len(branch[p]) + 1] = b
    BY <1>1, <2>1, GrownBranch
  <2> QED
    BY <2>2, <2>3
<1> HIDE DEF at
<1>10. Half(branch', p, at)
  BY <1>7, <1>9 DEF Half
<1>11. SlipOK(branch', p, v)
  BY <1>3, <1>5, <1>7, <1>9, <1>10 DEF SlipOK, OwnDraft
<1>12. \A o \in Party : slip'[o] = slip[o] \/ SlipOK(branch', o, slip'[o])
  BY <1>1, <1>8, <1>11 DEF Shapes
<1>13. Truthful(branch', TRUE, Printed4(b))
  BY <1>9, <1>10 DEF Truthful
<1> HIDE DEF Printed4
<1>14. \A x \in papers' : x \in papers \/ Truthful(branch', TRUE, x.msg)
  BY <1>8, <1>13, PrintedWell
<1>15. \A o \in Party : \/ stored'[o] = stored[o]
                        \/ \E i \in DOMAIN branch'[o] :
                             branch'[o][i].kind = "merge" /\ branch'[o][i].union = stored'[o]
  BY <1>1, <1>7, <1>8, <1>9 DEF Shapes
<1>16. stored' = [o \in Party |-> stored'[o]] /\ slip' = [o \in Party |-> slip'[o]]
  BY <1>1, <1>8 DEF Shapes
<1> QED
  BY <1>1, <1>9, <1>12, <1>14, <1>15, <1>16, HandFrame

LEMMA CosignKeeps ==
  ASSUME IInv, NEW p \in Party, CosignByHand(p), UNCHANGED <<world, box, todo, side>>
  PROVE  IInv'
<1> DEFINE v == slip[p]
           W == [v EXCEPT !.at = clock[p]]
<1>1. UNCHANGED <<ends, branch, stored, seals, slip>> /\ Shapes
  BY DEF CosignByHand, world, disk, IInv
<1>2. PICK m \in Printed(v.peer, "DRAFT") :
        /\ DraftOK(p, W, m)
        /\ PrintSlip(p, [t |-> "COSIG", of |-> m.at, key |-> key[p]])
  BY DEF CosignByHand
<1>3. /\ SlipOK(branch, p, v) /\ v.pend # 0
  BY DEF CosignByHand, HasSlip, IInv, SlipsOK
<1> HIDE DEF v
<1>4. W.peer = v.peer /\ W.his = v.his /\ W.mine = v.mine /\ W.pend = v.pend
  BY <1>3 DEF SlipOK, HasFields
<1> HIDE DEF W
<1>5. /\ m.at = <<v.peer, v.his + 1>>
      /\ m.block.takes = <<p, v.mine>> /\ m.block.union = branch[p][v.pend].union
  BY <1>2, <1>4 DEF DraftOK
<1>6. /\ v.mine \in Nat /\ v.his \in Nat /\ v.pend \in Nat
      /\ v.peer \in Party \ {p} /\ OwnDraft(branch, p, TRUE, v)
  BY <1>3 DEF SlipOK
<1>7. PICK q \in Party : \E j \in DOMAIN branch[q] :
        m.at = <<q, j>> /\ Half(branch, q, j) /\ m.block = branch[q][j]
  BY PrintedTrue DEF Truthful
<1>8. PICK j \in DOMAIN branch[q] :
        m.at = <<q, j>> /\ Half(branch, q, j) /\ m.block = branch[q][j]
  BY <1>7
<1>9. q = v.peer /\ j = v.his + 1
  BY <1>5, <1>8
<1>10. Twins(branch, q, j, p, v.pend)
  BY <1>5, <1>6, <1>8, <1>9 DEF Twins, OwnDraft, Half
<1>11. Answered(branch, q, j)
  BY <1>6, <1>10 DEF Answered, Twins, Half
<1>12. Truthful(branch', TRUE, [t |-> "COSIG", of |-> m.at, key |-> key[p]])
  BY <1>1, <1>8, <1>11 DEF Truthful
<1>13. \A x \in papers' : x \in papers \/ Truthful(branch', TRUE, x.msg)
  BY <1>2, <1>12, PrintedWell
<1> QED
  BY <1>1, <1>13, HandFrame, SameBranch DEF Shapes

LEMMA FinalizeKeeps ==
  ASSUME IInv, NEW p \in Party, FinalizeByHand(p), UNCHANGED <<world, box, todo, side>>
  PROVE  IInv'
<1>1. UNCHANGED <<ends, branch, stored, papers>> /\ Shapes
  BY DEF FinalizeByHand, world, IInv
<1>2. PICK m \in Printed(slip[p].peer, "COSIG") :
        /\ CosigOK(p, slip[p], m)
        /\ seals' = seals \cup {<<p, slip[p].pend>>}
        /\ slip' = slip \/ slip' = [slip EXCEPT ![p] = Blank]
  BY DEF FinalizeByHand
<1>3. Truthful(branch, TRUE, m) /\ m.t = "COSIG" /\ m.of = <<p, slip[p].pend>>
  BY <1>2, PrintedTrue DEF CosigOK
<1>4. slip[p].pend \in DOMAIN branch[p] /\ Answered(branch, p, slip[p].pend)
  BY <1>3 DEF Truthful
<1>5. \A x \in seals' : x \in seals \/ \E q \in Party : \E i \in DOMAIN branch'[q] :
                                         x = <<q, i>> /\ Answered(branch', q, i)
  BY <1>1, <1>2, <1>4
<1>6. SlipOK(branch, p, Blank)
  BY DEF SlipOK, HasFields, Blank
<1>7. /\ \A q \in Party : slip'[q] = slip[q] \/ SlipOK(branch', q, slip'[q])
      /\ slip' = [q \in Party |-> slip'[q]]
  BY <1>1, <1>2, <1>6 DEF Shapes
<1> QED
  BY <1>1, <1>5, <1>7, HandFrame, SameBranch DEF Shapes

-----------------------------------------------------------------------------
(* The theorems.                                                           *)

LEMMA InitHolds == Init => IInv
<1> SUFFICES ASSUME Init PROVE IInv
  OBVIOUS
<1>1. \A p \in Party : branch[p] = <<>> \/ branch[p] = <<DataBlock(0)>>
  BY DEF Init
<1>2. Shapes
  BY <1>1, EmptySeq, SingleSeq DEF Init, Shapes
<1>3. DialoguesOK
  <2>1. "none" \notin Live
    BY DEF Live, Waiting, Midway
  <2> QED
    BY <2>1, OverOK DEF Init, DialoguesOK
<1>4. BoxesOK /\ TodoOK
  BY EmptyBox DEF Init, BoxesOK, TodoOK
<1>5. SlipsOK
  BY DEF Init, SlipsOK, SlipOK, HasFields, Blank
<1>6. PapersOK /\ SealsOK /\ SnapshotIsCommitted
  BY DEF Init, PapersOK, SealsOK, SnapshotIsCommitted
<1> QED
  BY <1>2, <1>3, <1>4, <1>5, <1>6 DEF IInv

LEMMA ReadDroppedDies ==
  ASSUME NEW c \in Proc, ReadDropped(c)
  PROVE  Die(c) /\ UNCHANGED <<world, disk, box>>
BY DEF ReadDropped

\* What two owners, their dialogues, the relay's mailboxes and the sessions always
\* satisfy, whatever is lost, dropped or repeated and whoever crashes.
THEOREM Invariance == Spec => []IInv
<1>1. IInv /\ [Next]_vars => IInv'
  <2> SUFFICES ASSUME IInv, [Next]_vars PROVE IInv'
    OBVIOUS
  <2>1. CASE OverRelay /\ UNCHANGED hand
    <3>1. ASSUME NEW s \in Session, Begin(s) \/ Timeout(s)
          PROVE  IInv'
      BY <2>1, <3>1, BeginKeeps, TimeoutKeeps
    <3>2. ASSUME NEW c \in Proc, Poll(c) \/ Read(c) \/ PollLost(c)
          PROVE  IInv'
      BY <2>1, <3>2, PollKeeps, ReadKeeps, PollLostKeeps
    <3>3. ASSUME NEW c \in Proc, ReadDropped(c) \/ Crash(c)
          PROVE  IInv'
      <4>1. Die(c) /\ UNCHANGED <<world, disk, box>>
        BY <3>3, ReadDroppedDies DEF Crash
      <4> QED
        BY <2>1, <4>1, CrashKeeps
    <3>4. ASSUME NEW d \in Sides, Queued(d) \/ Snap(d) \/ FillCache(d)
          PROVE  IInv'
      BY <2>1, <3>4, QueuedKeeps, SnapKeeps, FillCacheKeeps
    <3>5. ASSUME NEW d \in Sides, Refused(d) \/ SendLost(d)
          PROVE  IInv'
      BY <2>1, <3>5, RefusedKeeps, SendLostKeeps
    <3>6. ASSUME NEW p \in Party, Expire(p) \/ Grow(p)
          PROVE  IInv'
      BY <2>1, <3>6, ExpireKeeps, GrowKeeps
    <3> QED
      BY <2>1, <3>1, <3>2, <3>3, <3>4, <3>5, <3>6 DEF OverRelay, Work
  <2>2. ASSUME NEW p \in Party, ByHand(p)
        PROVE  IInv'
    BY <2>2, PrepareKeeps, CosignKeeps, FinalizeKeeps, CreateKeeps DEF ByHand
  <2>3. CASE UNCHANGED vars
    <3>1. /\ UNCHANGED <<ends, branch, stored, seals, slip, papers, box, todo, side>> /\ Shapes
      BY <2>3 DEF vars, world, disk, hand, IInv
    <3> QED
      BY <3>1, RelayFrame DEF SidesWell, TodoWell, Shapes
  <2> QED
    BY <2>1, <2>2, <2>3 DEF Next
<1> QED
  BY <1>1, InitHolds, PTL DEF Spec

\* A process may die between the two writes of a draft, or give the merge up
\* after them (create_pending): the stored snapshot, from which the next merge
\* starts, is one that some block of the branch commits to.
THEOREM SnapshotCommitted == Spec => []SnapshotIsCommitted
BY Invariance, PTL DEF IInv

-----------------------------------------------------------------------------
(* The pact.                                                               *)

HalfOf(br, p, i) ==
  [at |-> <<p, i>>, prev |-> <<p, i - 1>>, takes |-> br[p][i].takes, union |-> br[p][i].union]

IsHalf(br, h) == \E p \in Party : \E i \in DOMAIN br[p] :
                   br[p][i].kind = "merge" /\ h = HalfOf(br, p, i)

LEMMA HalvesAre ==
  /\ \A h : h \in Halves <=> IsHalf(branch, h)
  /\ \A h : h \in Halves' <=> IsHalf(branch', h)
BY DEF Halves, HalfAt, Places, IsHalf, HalfOf

\* The half at a place is what the branch has there.
LEMMA HalfFields ==
  ASSUME NEW br, NEW p, NEW i
  PROVE  /\ HalfOf(br, p, i).at = <<p, i>> /\ HalfOf(br, p, i).prev = <<p, i - 1>>
         /\ HalfOf(br, p, i).takes = br[p][i].takes
         /\ HalfOf(br, p, i).union = br[p][i].union
BY DEF HalfOf

Sealed == {h \in Halves : h.at \in seals}

\* What a step writes: nothing, a block at the end of a branch, or a signature.
Writes ==
  \/ UNCHANGED <<branch, seals>>
  \/ \E p \in Party : \E b : /\ branch' = [branch EXCEPT ![p] = Append(@, b)]
                             /\ seals' = seals
  \/ branch' = branch /\ \E x : seals' = seals \cup {x}

LEMMA NextWrites ==
  ASSUME IInv, [Next]_vars
  PROVE  Writes
<1>0. Shapes
  BY DEF IInv
<1>1. ASSUME NEW c \in Proc, Read(c)
      PROVE  Writes
  <2> DEFINE l == Head(todo[c])
             d == <<c, l.s>>
             v == Opened(d, l)
             w == IF Turn(d, l) THEN [OnMessage(d, v, l.msg) EXCEPT !.nextIn = @ + 1] ELSE v
  <2>1. /\ branch' = IF d \in Sides /\ w.st = "SNAP"
                     THEN [branch EXCEPT ![Owner(c)] = Append(@, DraftOf(Owner(c), w))] ELSE branch
        /\ seals' = IF d \in Sides /\ w.st = "SEALED" THEN seals \cup {<<Owner(c), v.pend>>} ELSE seals
    BY <1>1 DEF Read
  <2> HIDE DEF w, v, d
  <2>2. CASE d \in Sides /\ w.st = "SNAP"
    BY <1>0, <2>1, <2>2, OwnersAre DEF Writes
  <2>3. CASE ~(d \in Sides /\ w.st = "SNAP")
    BY <2>1, <2>3 DEF Writes
  <2> QED
    BY <2>2, <2>3
<1>2. ASSUME NEW p \in Party, NEW q \in Party, CreateByHand(p, q)
      PROVE  Writes
  BY <1>2 DEF CreateByHand, Writes
<1>3. ASSUME NEW p \in Party, FinalizeByHand(p)
      PROVE  Writes
  BY <1>3 DEF FinalizeByHand, Writes
<1>4. ASSUME NEW p \in Party, Grow(p)
      PROVE  Writes
  BY <1>4 DEF Grow, Writes
<1>5. ASSUME UNCHANGED <<branch, seals>>
      PROVE  Writes
  BY <1>5 DEF Writes
<1>6. CASE OverRelay
  <2>1. ASSUME NEW s \in Session, Begin(s) \/ Timeout(s)
        PROVE  Writes
    BY <1>5, <2>1 DEF Begin, Timeout, disk
  <2>2. ASSUME NEW c \in Proc, Poll(c) \/ PollLost(c) \/ ReadDropped(c) \/ Crash(c)
        PROVE  Writes
    BY <1>5, <2>2 DEF Poll, PollLost, ReadDropped, Crash, disk
  <2>3. ASSUME NEW d \in Sides, Queued(d) \/ Snap(d) \/ FillCache(d) \/ Refused(d) \/ SendLost(d)
        PROVE  Writes
    BY <1>5, <2>3 DEF Queued, Snap, FillCache, Refused, SendLost, disk
  <2>4. ASSUME NEW p \in Party, Expire(p)
        PROVE  Writes
    BY <1>5, <2>4 DEF Expire, disk
  <2> QED
    BY <1>1, <1>4, <1>6, <2>1, <2>2, <2>3, <2>4 DEF OverRelay, Work
<1>7. ASSUME NEW p \in Party, ByHand(p)
      PROVE  Writes
  <2>1. CASE PrepareByHand(p) \/ CosignByHand(p)
    BY <1>5, <2>1 DEF PrepareByHand, CosignByHand, disk
  <2> QED
    BY <1>2, <1>3, <1>7, <2>1 DEF ByHand
<1> QED
  BY <1>5, <1>6, <1>7 DEF Next, vars, disk

LEMMA StepKeepsPact ==
  ASSUME IInv, IInv', [Next]_vars
  PROVE  [Pact!Next]_<<Halves, Sealed>>
<1>0. Shapes /\ SealsOK /\ SealsOK' /\ Writes
  BY NextWrites DEF IInv
<1>1. CASE UNCHANGED <<branch, seals>>
  BY <1>1 DEF Halves, HalfAt, Places, Sealed
<1>2. CASE \E p \in Party : \E b : /\ branch' = [branch EXCEPT ![p] = Append(@, b)]
                                   /\ seals' = seals
  <2>0. PICK p \in Party : \E b : /\ branch' = [branch EXCEPT ![p] = Append(@, b)]
                                  /\ seals' = seals
    BY <1>2
  <2>1. PICK b : branch' = [branch EXCEPT ![p] = Append(@, b)] /\ seals' = seals
    BY <2>0
  <2>2. PICK n : n = Len(branch[p]) + 1
    OBVIOUS
  <2>3. /\ DOMAIN branch[p] = 1..(n - 1) /\ n \in Nat /\ DOMAIN branch'[p] = 1..n
        /\ branch'[p] = Append(branch[p], b)
        /\ \A i \in DOMAIN branch[p] : branch'[p][i] = branch[p][i]
        /\ branch'[p][n] = b
        /\ \A q \in Party : q # p => branch'[q] = branch[q]
    BY <1>0, <2>1, <2>2, AppendSeq DEF Shapes
  <2> DEFINE new == HalfOf(branch', p, n)
  <2>4. \A h : IsHalf(branch', h) <=> IsHalf(branch, h) \/ (b.kind = "merge" /\ h = new)
    <3>1. ASSUME NEW h, IsHalf(branch, h)
          PROVE  IsHalf(branch', h)
      <4>1. PICK q \in Party : \E i \in DOMAIN branch[q] :
              branch[q][i].kind = "merge" /\ h = HalfOf(branch, q, i)
        BY <3>1 DEF IsHalf
      <4>2. PICK i \in DOMAIN branch[q] :
              branch[q][i].kind = "merge" /\ h = HalfOf(branch, q, i)
        BY <4>1
      <4>3. i \in DOMAIN branch'[q] /\ branch'[q][i] = branch[q][i]
        BY <2>3, <4>2
      <4> QED
        BY <4>2, <4>3 DEF IsHalf, HalfOf
    <3>2. ASSUME b.kind = "merge"
          PROVE  IsHalf(branch', new)
      <4>1. n \in DOMAIN branch'[p]
        BY <2>3
      <4> QED
        BY <2>3, <3>2, <4>1 DEF IsHalf
    <3>3. ASSUME NEW h, IsHalf(branch', h), ~(b.kind = "merge" /\ h = new)
          PROVE  IsHalf(branch, h)
      <4>1. PICK q \in Party : \E i \in DOMAIN branch'[q] :
              branch'[q][i].kind = "merge" /\ h = HalfOf(branch', q, i)
        BY <3>3 DEF IsHalf
      <4>2. PICK i \in DOMAIN branch'[q] :
              branch'[q][i].kind = "merge" /\ h = HalfOf(branch', q, i)
        BY <4>1
      <4>3. ~(q = p /\ i = n)
        BY <2>3, <3>3, <4>2
      <4>4. i \in DOMAIN branch[q] /\ branch'[q][i] = branch[q][i]
        BY <2>3, <4>2, <4>3
      <4> QED
        BY <4>2, <4>4 DEF IsHalf, HalfOf
    <3> QED
      BY <3>1, <3>2, <3>3
  <2>5. new.at = <<p, n>>
    BY HalfFields
  <2>6. \A h : IsHalf(branch, h) => h.at # <<p, n>>
    <3> SUFFICES ASSUME NEW h, IsHalf(branch, h) PROVE h.at # <<p, n>>
      OBVIOUS
    <3>1. PICK q \in Party : \E i \in DOMAIN branch[q] : h = HalfOf(branch, q, i)
      BY DEF IsHalf
    <3>2. PICK i \in DOMAIN branch[q] : h = HalfOf(branch, q, i)
      BY <3>1
    <3>3. h.at = <<q, i>>
      BY <3>2, HalfFields
    <3>4. n \notin DOMAIN branch[p]
      BY <2>3
    <3> QED
      BY <3>2, <3>3, <3>4
  <2>7. <<p, n>> \notin seals
    <3>1. n \notin DOMAIN branch[p]
      BY <2>3
    <3> QED
      BY <1>0, <3>1 DEF SealsOK
  <2> HIDE DEF new
  <2>8. CASE b.kind = "merge"
    <3>1. Halves' = Halves \cup {new} /\ new \notin Halves
      BY <2>4, <2>5, <2>6, <2>8, HalvesAre
    <3>2. Sealed' = Sealed
      BY <2>1, <2>5, <2>7, <3>1 DEF Sealed
    <3>3. new.at \notin {g.at : g \in Halves}
      BY <2>5, <2>6, HalvesAre
    <3>4. Pact!Write
      BY <3>1, <3>2, <3>3 DEF Pact!Write, Sealed
    <3> QED
      BY <3>4 DEF Pact!Next
  <2>9. CASE b.kind # "merge"
    <3>1. Halves' = Halves
      BY <2>4, <2>9, HalvesAre
    <3> QED
      BY <2>1, <3>1 DEF Sealed
  <2> QED
    BY <2>8, <2>9
<1>3. CASE branch' = branch /\ \E x : seals' = seals \cup {x}
  <2>1. PICK x : seals' = seals \cup {x}
    BY <1>3
  <2>2. Halves' = Halves
    BY <1>3, HalvesAre
  <2>3. PICK p \in Party : \E i \in DOMAIN branch[p] : x = <<p, i>> /\ Answered(branch, p, i)
    BY <1>0, <1>3, <2>1 DEF SealsOK
  <2>4. PICK i \in DOMAIN branch[p] : x = <<p, i>> /\ Answered(branch, p, i)
    BY <2>3
  <2>5. PICK q \in Party : \E j \in DOMAIN branch[q] : Twins(branch, p, i, q, j)
    BY <2>4 DEF Answered
  <2>6. PICK j \in DOMAIN branch[q] : Twins(branch, p, i, q, j)
    BY <2>5
  <2> DEFINE h == HalfOf(branch, p, i)
             g == HalfOf(branch, q, j)
  <2>7. h \in Halves /\ g \in Halves
    BY <2>6, HalvesAre DEF IsHalf, Twins, Half
  <2>8. /\ h.at = x /\ g.at[1] = q /\ h.at[1] = p
        /\ h.takes = g.prev /\ g.takes = h.prev /\ g.union = h.union /\ q # p
    <3>1. h.at = <<p, i>> /\ h.prev = <<p, i - 1>> /\ g.at = <<q, j>> /\ g.prev = <<q, j - 1>>
      BY HalfFields
    <3>2. /\ h.takes = branch[p][i].takes /\ h.union = branch[p][i].union
          /\ g.takes = branch[q][j].takes /\ g.union = branch[q][j].union
      BY HalfFields
    <3> HIDE DEF h, g
    <3> QED
      BY <2>4, <2>6, <3>1, <3>2 DEF Twins
  <2> HIDE DEF h, g
  <2>9. Pact!Counterpart(g, h)
    BY <2>8 DEF Pact!Counterpart
  <2>10. \A k : k \in Halves /\ k.at = x => k = h
    <3> SUFFICES ASSUME NEW k \in Halves, k.at = x PROVE k = h
      OBVIOUS
    <3>1. PICK r \in Party : \E m \in DOMAIN branch[r] : k = HalfOf(branch, r, m)
      BY HalvesAre DEF IsHalf
    <3>2. PICK m \in DOMAIN branch[r] : k = HalfOf(branch, r, m)
      BY <3>1
    <3>3. r = p /\ m = i
      BY <2>4, <3>2, HalfFields
    <3> QED
      BY <3>2, <3>3 DEF h
  <2>11. Sealed' = Sealed \cup {h}
    BY <2>1, <2>2, <2>7, <2>8, <2>10 DEF Sealed
  <2>12. CASE h \in Sealed
    BY <2>2, <2>11, <2>12
  <2>13. CASE h \notin Sealed
    <3>1. Pact!Seal
      BY <2>2, <2>7, <2>9, <2>11, <2>13 DEF Pact!Seal, Sealed
    <3> QED
      BY <3>1 DEF Pact!Next
  <2> QED
    BY <2>12, <2>13
<1> QED
  BY <1>0, <1>1, <1>2, <1>3 DEF Writes

\* Whatever is lost, dies or gets in between, an owner holds the partner's
\* signature on a half only when the partner's half of the same merge is on the
\* partner's disk (MergeDialogue, MergeSession::finalize).
THEOREM PactKept == Spec => ImplementsPact
<1>1. Init => Pact!Init
  <2> SUFFICES ASSUME Init PROVE Pact!Init
    OBVIOUS
  <2>1. ASSUME NEW h, IsHalf(branch, h)
        PROVE  FALSE
    <3>1. PICK p \in Party : \E i \in DOMAIN branch[p] : branch[p][i].kind = "merge"
      BY <2>1 DEF IsHalf
    <3>2. branch[p] = <<>> \/ branch[p] = <<DataBlock(0)>>
      BY DEF Init
    <3>3. DataBlock(0).kind # "merge"
      BY DEF DataBlock
    <3> QED
      BY <3>1, <3>2, <3>3, EmptySeq, SingleSeq
  <2>2. Halves = {}
    BY <2>1, HalvesAre
  <2> QED
    BY <2>2 DEF Pact!Init
<1>2. IInv /\ IInv' /\ [Next]_vars => [Pact!Next]_<<Halves, Sealed>>
  BY StepKeepsPact
<1> QED
  BY <1>1, <1>2, Invariance, PTL DEF Spec, ImplementsPact, Pact!Spec, Sealed

-----------------------------------------------------------------------------
(* What the unions are made of, and who has written them down.             *)

\* Some half of some owner is over r.
IsUnion(br, r) ==
  \E p \in Party : \E i \in DOMAIN br[p] : br[p][i].kind = "merge" /\ br[p][i].union = r

\* What owner p may show for his tip i: one leaf over it, or a union.
Shows(br, p, i, r) == r = Leaf(<<p, i>>) \/ IsUnion(br, r)

\* The leaves a half at place i of p, taking x, brings in.
NewLeaves(p, i, x) == {Leaf(<<p, i - 1>>), Leaf(x)}

\* A half is over leaves it brings in, and unions.
Made(br, p, i) ==
  \A r \in br[p][i].union.kids : r \in NewLeaves(p, i, br[p][i].takes) \/ IsUnion(br, r)

HalvesMade == \A p \in Party : \A i \in DOMAIN branch[p] :
                branch[p][i].kind = "merge" => Made(branch, p, i)

\* Something says m in session s and signs it p: a mailbox, a process with
\* letters to read, or a dialogue with letters to send.
InBox(b, s, p, m) == \E i \in DOMAIN b : b[i].s = s /\ b[i].from = p /\ b[i].msg = m

Mail(s, p, m) ==
  \/ \E q \in Party : InBox(box[q], s, p, m)
  \/ \E c \in Proc : InBox(todo[c], s, p, m)
  \/ \E d \in Sides : /\ d[2] = s /\ Owner(d[1]) = p
                      /\ \E i \in DOMAIN side[d].out : side[d].out[i] = m

Running == {"WAIT_ACCEPT"} \cup Drafted

\* The dialogue of who began session s.
Asker(s) == side[<<Run(s), s>>]

\* While a session runs, what is offered in it is what who began it captured, and
\* what is accepted stands on a half over both.
Answers(br, es, s, p, v, m) ==
  v.st \in Running =>
    /\ m.t = "OFFER" => m.snap = v.mineSnap
    /\ m.t = "ACCEPT" /\ p # es[s][1] =>
         Half(br, p, m.tip + 1) /\ br[p][m.tip + 1].union = Join(m.snap, v.mineSnap)

\* A message that tells a tip shows what its author has for it.
TellsTip(br, p, m) == m.t \in {"OFFER", "ACCEPT", "TIP"} => Shows(br, p, m.tip, m.snap)

MailTrue ==
  \A s \in Session, p \in Party : \A m : Mail(s, p, m) =>
    TellsTip(branch, p, m) /\ Answers(branch, ends, s, p, Asker(s), m)

PapersTrue == \A x \in papers : TellsTip(branch, x.by, x.msg)

\* Who answers drafts over what he captured and was offered.
Responds(br, p, v) == br[p][v.pend].union = Join(v.mineSnap, v.hisSnap)

\* Who began a session has been told of a half over what both captured.
Follows(br, v) ==
  Half(br, v.peer, v.his + 1) /\ br[v.peer][v.his + 1].union = Join(v.mineSnap, v.hisSnap)

\* Dialogue v of owner p; `a` is the one of who began the session.
SideTrue(br, p, sure, v, a) ==
  /\ v.st \in Running => Shows(br, p, v.mine, v.mineSnap)
  /\ v.st \in Drafted => IF sure THEN Responds(br, p, v) ELSE Follows(br, v)
  /\ sure /\ v.st \in Drafted /\ a.st \in Running => v.hisSnap = a.mineSnap

SidesTrue ==
  \A d \in Sides : SideTrue(branch, Owner(d[1]), Server(d), side[d], Asker(d[2]))

SlipsTrue == \A p \in Party : slip[p].pend # 0 => Responds(branch, p, slip[p])

\* Nothing is said in a session that has not begun.
SilentTrue ==
  \A s \in Session : s \notin begun =>
    /\ \A p \in Party : \A m : ~Mail(s, p, m)
    /\ \A d \in Sides : d[2] = s => side[d].st = "none"

Talk == HalvesMade /\ MailTrue /\ PapersTrue /\ SidesTrue /\ SlipsTrue /\ SilentTrue

\* A process that has the signature has it on the disk, has nothing to send and
\* works on no other merge.
SealedOK ==
  /\ \A d \in Sides : side[d].st = "SEALED" =>
       <<Owner(d[1]), side[d].pend>> \in seals /\ side[d].out = <<>>
  /\ \A d, e \in Sides :
       d[1] = e[1] /\ side[d].st = "SEALED" /\ side[e].st = "SEALED" => d = e

\* What a half brings into a cache.
RecordOf(br, p, i) ==
  {br[p][i].union} \cup (br[p][i].union.kids \cap NewLeaves(p, i, br[p][i].takes))

\* The signed half at x is not recorded by its owner, and not about to be.
Lost(x) ==
  /\ ~(RecordOf(branch, x[1], x[2]) \subseteq cache[x[1]])
  /\ \A d \in Sides : ~(side[d].st = "SEALED" /\ <<Owner(d[1]), side[d].pend>> = x)

\* Each half lost takes a fault of its own.
FewLost ==
  /\ faults \in Nat
  /\ \A x \in seals : Lost(x) => faults # 0
  /\ faults <= 1 => \A x, y \in seals : Lost(x) /\ Lost(y) => x = y

CachesOK ==
  /\ cache = [p \in Party |-> cache[p]]
  /\ \A p \in Party : IsFiniteSet(cache[p])

Ledger == SealedOK /\ FewLost /\ CachesOK

-----------------------------------------------------------------------------
(* What was true of a branch stays true.                                   *)

LEMMA ShowsStay ==
  ASSUME NEW br, NEW br2, Extends(br, br2), NEW p, NEW i, NEW r, Shows(br, p, i, r)
  PROVE  Shows(br2, p, i, r)
BY DEF Shows, IsUnion, Extends

LEMMA MadeStays ==
  ASSUME NEW br, NEW br2, Extends(br, br2), NEW p \in Party, NEW i \in DOMAIN br[p], Made(br, p, i)
  PROVE  Made(br2, p, i)
<1>1. br2[p][i] = br[p][i]
  BY DEF Extends
<1>2. \A r : IsUnion(br, r) => IsUnion(br2, r)
  BY DEF IsUnion, Extends
<1> QED
  BY <1>1, <1>2 DEF Made

LEMMA TellsStay ==
  ASSUME NEW br, NEW br2, Extends(br, br2), NEW p, NEW m, TellsTip(br, p, m)
  PROVE  TellsTip(br2, p, m)
BY ShowsStay DEF TellsTip

LEMMA AnswersStay ==
  ASSUME NEW br, NEW br2, Extends(br, br2), NEW es, NEW s, NEW p, NEW m,
         NEW v, NEW w, w.st \in Running => v.st \in Running /\ w.mineSnap = v.mineSnap,
         Answers(br, es, s, p, v, m)
  PROVE  Answers(br2, es, s, p, w, m)
BY DEF Answers, Half, Extends

\* A dialogue in the middle of a merge and what it stands for.
SameTalk(v, w) ==
  /\ w.st \in Running => v.st \in Running
  /\ w.st \in Drafted => v.st \in Drafted
  /\ w.peer = v.peer /\ w.mine = v.mine /\ w.mineSnap = v.mineSnap
  /\ w.his = v.his /\ w.hisSnap = v.hisSnap /\ w.pend = v.pend

LEMMA SideStays ==
  ASSUME NEW br, NEW br2, Extends(br, br2), NEW p \in Party, NEW sure, NEW v, NEW w,
         SameTalk(v, w), NEW a, NEW b, b.st \in Running => a.st \in Running /\ b.mineSnap = a.mineSnap,
         v.st \in Drafted => Half(br, p, v.pend), SideTrue(br, p, sure, v, a)
  PROVE  SideTrue(br2, p, sure, w, b)
<1>1. w.st \in Running => Shows(br2, p, w.mine, w.mineSnap)
  BY ShowsStay DEF SideTrue, SameTalk
<1>2. ASSUME w.st \in Drafted, sure
      PROVE  Responds(br2, p, w)
  BY <1>2 DEF SideTrue, SameTalk, Responds, Half, Extends
<1>3. ASSUME w.st \in Drafted, ~sure
      PROVE  Follows(br2, w)
  BY <1>3 DEF SideTrue, SameTalk, Follows, Half, Extends
<1>4. sure /\ w.st \in Drafted /\ b.st \in Running => w.hisSnap = b.mineSnap
  BY DEF SideTrue, SameTalk
<1> QED
  BY <1>1, <1>2, <1>3, <1>4 DEF SideTrue

LEMMA EndedTrue ==
  ASSUME NEW br, NEW p, NEW sure, NEW w, w.st \notin Running, NEW a
  PROVE  SideTrue(br, p, sure, w, a)
BY DEF SideTrue, Running

\* What a step leaves alone stays true, so only what it adds is looked at.
LEMMA TalkFrame ==
  ASSUME IInv, Talk, ends' = ends, begun \subseteq begun', Extends(branch, branch'),
         \A p \in Party : \A i \in DOMAIN branch'[p] :
           branch'[p][i].kind = "merge" =>
             (i \in DOMAIN branch[p] /\ branch'[p][i] = branch[p][i]) \/ Made(branch', p, i),
         \A s \in Session, p \in Party : \A m : Mail(s, p, m)' =>
           \/ Mail(s, p, m)
           \/ s \in begun' /\ TellsTip(branch', p, m) /\ Answers(branch', ends, s, p, Asker(s)', m),
         \A s \in Session : s \in begun /\
           Asker(s)'.st \in Running => Asker(s).st \in Running /\ Asker(s)'.mineSnap = Asker(s).mineSnap,
         \A d \in Sides : \/ side'[d].st \notin Running
                          \/ SameTalk(side[d], side'[d])
                          \/ SideTrue(branch', Owner(d[1]), Server(d), side'[d], Asker(d[2])'),
         \A d \in Sides : d[2] \notin begun' /\ side[d].st = "none" => side'[d].st = "none",
         \A x \in papers' : x \in papers \/ TellsTip(branch', x.by, x.msg),
         \A p \in Party : slip'[p] = slip[p] \/ (slip'[p].pend # 0 => Responds(branch', p, slip'[p]))
  PROVE  Talk'
<1>1. HalvesMade'
  BY MadeStays DEF Talk, HalvesMade
<1>2. MailTrue'
  <2> SUFFICES ASSUME NEW s \in Session, NEW p \in Party, NEW m, Mail(s, p, m)'
               PROVE  TellsTip(branch', p, m) /\ Answers(branch', ends, s, p, Asker(s)', m)
    BY DEF MailTrue
  <2>1. CASE Mail(s, p, m)
    <3>1. TellsTip(branch, p, m) /\ Answers(branch, ends, s, p, Asker(s), m) /\ s \in begun
      BY <2>1 DEF Talk, MailTrue, SilentTrue
    <3> QED
      BY <3>1, TellsStay, AnswersStay
  <2> QED
    BY <2>1
<1>3. PapersTrue'
  BY TellsStay DEF Talk, PapersTrue
<1>4. SidesTrue'
  <2>1. ASSUME NEW d \in Sides
        PROVE  SideTrue(branch', Owner(d[1]), Server(d), side'[d], Asker(d[2])')
    <3>1. Owner(d[1]) \in Party /\ d[2] \in Session
      BY <2>1, SidesAre DEF IInv
    <3>2. CASE side'[d].st \notin Running
      BY <3>2, EndedTrue
    <3>3. CASE SameTalk(side[d], side'[d]) /\ d[2] \notin begun
      <4>1. side[d].st = "none"
        BY <2>1, <3>1, <3>3 DEF Talk, SilentTrue
      <4>2. side'[d].st \notin Running
        BY <3>3, <4>1 DEF SameTalk, Running, Drafted
      <4> QED
        BY <4>2, EndedTrue
    <3>4. CASE SameTalk(side[d], side'[d]) /\ d[2] \in begun
      <4>1. SideTrue(branch, Owner(d[1]), Server(d), side[d], Asker(d[2]))
        BY <2>1 DEF Talk, SidesTrue
      <4>2. side[d].st \in Drafted => Half(branch, Owner(d[1]), side[d].pend)
        BY <2>1 DEF IInv, DialoguesOK, DialogueOK, OwnDraft
      <4> QED
        BY <3>1, <3>4, <4>1, <4>2, SideStays
    <3> QED
      BY <2>1, <3>2, <3>3, <3>4
  <2>2. \A d \in Sides : Owner(d[1])' = Owner(d[1])
    BY DEF Owner
  <2> QED
    BY <2>1, <2>2 DEF SidesTrue, Server
<1>5. SlipsTrue'
  <2> SUFFICES ASSUME NEW p \in Party, slip'[p].pend # 0
               PROVE  Responds(branch', p, slip'[p])
    BY DEF SlipsTrue
  <2>1. CASE slip'[p] = slip[p]
    <3>1. Half(branch, p, slip[p].pend) /\ Responds(branch, p, slip[p])
      BY <2>1 DEF IInv, SlipsOK, SlipOK, OwnDraft, Talk, SlipsTrue
    <3> QED
      BY <2>1, <3>1 DEF Responds, Half, Extends
  <2> QED
    BY <2>1
<1>6. SilentTrue'
  BY DEF Talk, SilentTrue
<1> QED
  BY <1>1, <1>2, <1>3, <1>4, <1>5, <1>6 DEF Talk

-----------------------------------------------------------------------------
(* Steps that add nothing to what is said.                                 *)

Within(b2, b) == \A i \in DOMAIN b2 : \E j \in DOMAIN b : b2[i] = b[j]

\* A letter in a mailbox was there or was sent just now.
Delivered(b2, b) ==
  \A i \in DOMAIN b2 : \/ \E j \in DOMAIN b : b2[i] = b[j]
                       \/ \E d \in Sides : side[d].out # <<>> /\ b2[i] = Letter(d)

LEMMA MailShrinks ==
  ASSUME IInv, ends' = ends,
         \A q \in Party : Delivered(box'[q], box[q]),
         \A c \in Proc : Within(todo'[c], todo[c]) \/ Within(todo'[c], box[Owner(c)]),
         \A d \in Sides : Within(side'[d].out, side[d].out)
  PROVE  \A s \in Session, p \in Party : \A m : Mail(s, p, m)' => Mail(s, p, m)
<1> SUFFICES ASSUME NEW s \in Session, NEW p \in Party, NEW m, Mail(s, p, m)'
             PROVE  Mail(s, p, m)
  OBVIOUS
<1>0. /\ \A d \in Sides : Owner(d[1])' = Owner(d[1])
      /\ \A d \in Sides : IsSeq(side[d].out)
      /\ \A c \in Proc : Owner(c) \in Party
  BY OwnersAre DEF Owner, IInv, DialoguesOK, DialogueOK
<1>1. CASE \E q \in Party : InBox(box'[q], s, p, m)
  <2>1. PICK q \in Party : InBox(box'[q], s, p, m)
    BY <1>1
  <2>2. PICK i \in DOMAIN box'[q] : box'[q][i].s = s /\ box'[q][i].from = p /\ box'[q][i].msg = m
    BY <2>1 DEF InBox
  <2>3. CASE \E j \in DOMAIN box[q] : box'[q][i] = box[q][j]
    BY <2>2, <2>3 DEF Mail, InBox
  <2>4. CASE \E d \in Sides : side[d].out # <<>> /\ box'[q][i] = Letter(d)
    <3>1. PICK d \in Sides : side[d].out # <<>> /\ box'[q][i] = Letter(d)
      BY <2>4
    <3>2. d[2] = s /\ Owner(d[1]) = p /\ Head(side[d].out) = m
      BY <2>2, <3>1 DEF Letter
    <3>3. 1 \in DOMAIN side[d].out /\ side[d].out[1] = m
      BY <1>0, <3>1, <3>2, TailSeq
    <3> QED
      BY <3>2, <3>3 DEF Mail
  <2> QED
    BY <2>3, <2>4 DEF Delivered
<1>2. CASE \E c \in Proc : InBox(todo'[c], s, p, m)
  BY <1>0, <1>2 DEF Mail, InBox, Within
<1>3. CASE \E d \in Sides : /\ d[2] = s /\ Owner(d[1])' = p
                            /\ \E i \in DOMAIN side'[d].out : side'[d].out[i] = m
  <2>1. PICK d \in Sides : /\ d[2] = s /\ Owner(d[1])' = p
                           /\ \E i \in DOMAIN side'[d].out : side'[d].out[i] = m
    BY <1>3
  <2>2. \E i \in DOMAIN side[d].out : side[d].out[i] = m
    BY <2>1 DEF Within
  <2> QED
    BY <1>0, <2>1, <2>2 DEF Mail
<1> QED
  BY <1>1, <1>2, <1>3 DEF Mail

LEMMA WithinItself == \A b : Within(b, b) /\ Within(<<>>, b)
BY EmptySeq DEF Within

LEMMA WithinDelivered == \A b, b2 : Within(b2, b) => Delivered(b2, b)
BY DEF Within, Delivered

\* A dialogue goes on, at most with less to say, or is over.
Lessens(v, w) ==
  \/ SameTalk(v, w) /\ (v.st = "none" => w.st = "none") /\ Within(w.out, v.out)
  \/ w.st \in {"none", "off", "null", "FAILED", "DONE"} /\ (v.st = "none" => w.st = "none")
     /\ w.out = <<>>

LEMMA LessTalk ==
  ASSUME IInv, Talk, UNCHANGED <<ends, begun, papers, slip>>,
         Extends(branch, branch'),
         \A p \in Party : \A i \in DOMAIN branch'[p] :
           branch'[p][i].kind = "merge" => i \in DOMAIN branch[p] /\ branch'[p][i] = branch[p][i],
         \A q \in Party : Delivered(box'[q], box[q]),
         \A c \in Proc : Within(todo'[c], todo[c]) \/ Within(todo'[c], box[Owner(c)]),
         \A d \in Sides : Lessens(side[d], side'[d])
  PROVE  Talk'
<1>1. \A d \in Sides : Within(side'[d].out, side[d].out)
  BY WithinItself DEF Lessens
<1>2. \A s \in Session, p \in Party : \A m : Mail(s, p, m)' => Mail(s, p, m)
  BY <1>1, MailShrinks
<1>3. \A d \in Sides : side'[d].st \notin Running \/ SameTalk(side[d], side'[d])
  BY DEF Lessens, Running, Drafted
<1>4. \A s \in Session :
        Asker(s)'.st \in Running => Asker(s).st \in Running /\ Asker(s)'.mineSnap = Asker(s).mineSnap
  <2>1. \A s \in Session : <<Run(s), s>> \in Sides
    BY DEF Sides
  <2> QED
    BY <1>3, <2>1 DEF Asker, SameTalk
<1>5. \A d \in Sides : d[2] \notin begun /\ side[d].st = "none" => side'[d].st = "none"
  BY DEF Lessens
<1> QED
  BY <1>2, <1>3, <1>4, <1>5, TalkFrame

\* The same mailboxes, letters and dialogues.
LEMMA SameMail ==
  ASSUME UNCHANGED <<box, todo>>
  PROVE  /\ \A q \in Party : Delivered(box'[q], box[q])
         /\ \A c \in Proc : Within(todo'[c], todo[c])
BY WithinItself, WithinDelivered

LEMMA SameLessens == \A v : Lessens(v, v)
BY WithinItself DEF Lessens, SameTalk

LEMMA OverLessens ==
  ASSUME NEW v, NEW st \in {"off", "null"}, v.st # "none"
  PROVE  Lessens(v, Over(st)) /\ Over(st).st = st
BY DEF Lessens, Over, Blank

LEMMA BlankLessens == \A v : Lessens(v, Blank)
BY DEF Lessens, Blank

LEMMA GiveUpTalks ==
  ASSUME IInv, Talk, NEW d \in Sides, side[d].out # <<>>, GiveUp(d),
         UNCHANGED <<ends, begun, papers, slip, branch>>,
         \A q \in Party : Delivered(box'[q], box[q])
  PROVE  Talk'
<1>1. Shapes /\ DialogueOK(branch, Owner(d[1]), Server(d), side[d])
  BY DEF IInv, DialoguesOK
<1>2. side[d].st # "none"
  BY <1>1 DEF DialogueOK, Live, Waiting, Midway
<1>3. PICK st \in {"off", "null"} : side' = [side EXCEPT ![d] = Over(st)]
  BY DEF GiveUp
<1>4. \A e \in Sides : Lessens(side[e], side'[e])
  BY <1>1, <1>2, <1>3, OverLessens, SameLessens DEF Shapes
<1>5. \A c \in Proc : Within(todo'[c], todo[c])
  BY <1>1, WithinItself DEF GiveUp, Shapes
<1>6. Extends(branch, branch')
  BY SameBranch
<1> QED
  BY <1>4, <1>5, <1>6, LessTalk

LEMMA DieTalks ==
  ASSUME IInv, Talk, NEW c \in Proc, Alive(c) \/ Busy(c), Die(c),
         UNCHANGED <<ends, begun, papers, slip, branch, box>>
  PROVE  Talk'
<1>1. Shapes
  BY DEF IInv
<1>2. ASSUME NEW d \in Sides
      PROVE  Lessens(side[d], side'[d])
  <2>1. CASE d[1] # c \/ c[1] # "run"
    BY <2>1, SameLessens, BlankLessens DEF Die
  <2>2. CASE d[1] = c /\ c[1] = "run"
    <3>1. d = <<c, c[2]>>
      BY <1>1, <2>2, SidesAre, OwnersAre DEF Server, Run
    <3>2. \A e \in Sides : e[1] = c => e = d
      <4> SUFFICES ASSUME NEW e \in Sides, e[1] = c PROVE e = d
        OBVIOUS
      <4>1. ~Server(e)
        BY <2>2 DEF Server
      <4>2. e = <<e[1], e[2]>> /\ e[1] = Run(e[2])
        BY <1>1, <4>1, SidesAre
      <4> QED
        BY <3>1, <4>2 DEF Run
    <3>3. side[d].st # "none"
      <4>1. CASE Alive(c)
        BY <2>2, <3>1, <4>1 DEF Alive, Waiting, Midway
      <4>2. CASE Busy(c)
        <5>1. side[d].out # <<>> \/ side[d].st \in Midway
          BY <3>2, <4>2 DEF Busy
        <5>2. DialogueOK(branch, Owner(d[1]), Server(d), side[d])
          BY DEF IInv, DialoguesOK
        <5> QED
          BY <5>1, <5>2 DEF DialogueOK, Live, Waiting, Midway
      <4> QED
        BY <4>1, <4>2
    <3>4. side'[d] = Over("off")
      BY <2>2 DEF Die
    <3> QED
      BY <3>3, <3>4, OverLessens
  <2> QED
    BY <2>1, <2>2
<1>3. \A e \in Proc : Within(todo'[e], todo[e])
  BY <1>1, WithinItself DEF Die, Shapes
<1>4. Extends(branch, branch')
  BY SameBranch
<1>5. \A q \in Party : Delivered(box'[q], box[q])
  BY WithinItself, WithinDelivered
<1> QED
  BY <1>2, <1>3, <1>4, <1>5, LessTalk

LEMMA QueuedTalks ==
  ASSUME IInv, Talk, NEW d \in Sides, Queued(d), UNCHANGED hand
  PROVE  Talk'
<1> DEFINE w == [side[d] EXCEPT !.out = Tail(@), !.seq = @ + 1]
           q == side[d].peer
<1>1. UNCHANGED <<ends, begun, branch, todo, slip, papers>>
  BY DEF Queued, world, disk, hand
<1>2. /\ Shapes /\ side[d].out # <<>> /\ HasFields(side[d]) /\ q \in Party /\ IsSeq(side[d].out)
  BY LetterSent DEF Queued, IInv, DialoguesOK, DialogueOK
<1>3. side' = [side EXCEPT ![d] = w] /\ box' = [box EXCEPT ![q] = Append(@, Letter(d))]
  BY DEF Queued
<1>4. Lessens(side[d], w)
  <2>1. /\ w.st = side[d].st /\ w.peer = q /\ w.out = Tail(side[d].out)
        /\ w.mine = side[d].mine /\ w.mineSnap = side[d].mineSnap /\ w.his = side[d].his
        /\ w.hisSnap = side[d].hisSnap /\ w.pend = side[d].pend
    BY <1>2 DEF HasFields
  <2> HIDE DEF w
  <2>2. Within(w.out, side[d].out)
    BY <1>2, <2>1, TailSeq DEF Within
  <2> QED
    BY <2>1, <2>2 DEF Lessens, SameTalk
<1> HIDE DEF w
<1>5. \A e \in Sides : Lessens(side[e], side'[e])
  BY <1>2, <1>3, <1>4, SameLessens DEF Shapes
<1>6. \A p \in Party : Delivered(box'[p], box[p])
  <2>1. IsSeq(box[q])
    BY <1>2 DEF IInv, BoxesOK, Mailbox
  <2>2. Delivered(Append(box[q], Letter(d)), box[q])
    BY <1>2, <2>1, AppendSeq DEF Delivered
  <2>3. box'[q] = Append(box[q], Letter(d)) /\ \A p \in Party : p # q => box'[p] = box[p]
    BY <1>2, <1>3 DEF Shapes
  <2> HIDE DEF q
  <2> QED
    BY <2>2, <2>3, WithinItself, WithinDelivered
<1>7. \A c \in Proc : Within(todo'[c], todo[c])
  BY <1>1, WithinItself
<1> QED
  BY <1>1, <1>5, <1>6, <1>7, SameBranch, LessTalk

LEMMA SendLostTalks ==
  ASSUME IInv, Talk, NEW d \in Sides, SendLost(d), UNCHANGED hand
  PROVE  Talk'
<1> DEFINE q == side[d].peer
<1>1. /\ UNCHANGED <<ends, begun, branch, slip, papers>>
      /\ side[d].out # <<>> /\ GiveUp(d)
      /\ box' = box \/ box' = [box EXCEPT ![q] = Append(@, Letter(d))]
  BY DEF SendLost, world, disk, hand
<1>2. Shapes /\ q \in Party
  BY <1>1, LetterSent DEF IInv
<1>3. \A p \in Party : Delivered(box'[p], box[p])
  <2>1. IsSeq(box[q])
    BY <1>2 DEF IInv, BoxesOK, Mailbox
  <2>2. Delivered(Append(box[q], Letter(d)), box[q])
    BY <1>1, <2>1, AppendSeq DEF Delivered
  <2> HIDE DEF q
  <2>3. \A p \in Party : box'[p] = box[p] \/ (p = q /\ box'[p] = Append(box[q], Letter(d)))
    BY <1>1, <1>2 DEF Shapes
  <2> QED
    BY <2>2, <2>3, WithinItself, WithinDelivered
<1> QED
  BY <1>1, <1>3, GiveUpTalks

LEMMA RefusedTalks ==
  ASSUME IInv, Talk, NEW d \in Sides, Refused(d), UNCHANGED hand
  PROVE  Talk'
<1>1. UNCHANGED <<ends, begun, branch, slip, papers, box>> /\ side[d].out # <<>> /\ GiveUp(d)
  BY DEF Refused, world, disk, hand
<1>2. \A p \in Party : Delivered(box'[p], box[p])
  BY <1>1, WithinItself, WithinDelivered
<1> QED
  BY <1>1, <1>2, GiveUpTalks

LEMMA PollsTalk ==
  ASSUME IInv, Talk, NEW c \in Proc, Poll(c) \/ PollLost(c), UNCHANGED hand
  PROVE  Talk'
<1>1. /\ UNCHANGED <<ends, begun, branch, slip, papers>> /\ Drain(c)
      /\ todo' = todo \/ todo' = [todo EXCEPT ![c] = box[Owner(c)]]
  BY DEF Poll, PollLost, world, disk, hand
<1>2. Shapes /\ Owner(c) \in Party
  BY OwnersAre DEF IInv
<1>3. \A d \in Sides : side'[d] \in {side[d], Blank}
  BY <1>1 DEF Drain, Swept
<1>4. \A d \in Sides : Lessens(side[d], side'[d])
  BY <1>3, SameLessens, BlankLessens
<1>5. \A p \in Party : Delivered(box'[p], box[p])
  BY <1>1, <1>2, WithinItself, WithinDelivered DEF Drain, Shapes
<1>6. \A e \in Proc : Within(todo'[e], todo[e]) \/ Within(todo'[e], box[Owner(e)])
  BY <1>1, <1>2, WithinItself DEF Shapes
<1> QED
  BY <1>1, <1>4, <1>5, <1>6, SameBranch, LessTalk

LEMMA ExpireTalks ==
  ASSUME IInv, Talk, NEW p \in Party, Expire(p), UNCHANGED hand
  PROVE  Talk'
<1>1. /\ UNCHANGED <<ends, begun, branch, slip, papers, todo, side>>
      /\ box[p] # <<>> /\ box' = [box EXCEPT ![p] = Tail(@)]
  BY DEF Expire, world, disk, hand
<1>2. Shapes /\ IsSeq(box[p])
  BY DEF IInv, BoxesOK, Mailbox
<1>3. Within(Tail(box[p]), box[p])
  BY <1>1, <1>2, TailSeq DEF Within
<1>4. \A q \in Party : Delivered(box'[q], box[q])
  BY <1>1, <1>2, <1>3, WithinItself, WithinDelivered DEF Shapes
<1>5. /\ \A d \in Sides : Lessens(side[d], side'[d])
      /\ \A c \in Proc : Within(todo'[c], todo[c])
  BY <1>1, SameLessens, WithinItself
<1> QED
  BY <1>1, <1>4, <1>5, SameBranch, LessTalk

LEMMA TimeoutTalks ==
  ASSUME IInv, Talk, NEW s \in Session, Timeout(s), UNCHANGED hand
  PROVE  Talk'
<1> DEFINE d == <<Run(s), s>>
<1>1. /\ UNCHANGED <<ends, begun, branch, slip, papers, box, todo>>
      /\ side' = [side EXCEPT ![d] = Over("off")] /\ Alive(Run(s))
  BY DEF Timeout, world, disk, hand
<1>2. side[d].st # "none"
  BY <1>1 DEF Alive, Run, Waiting, Midway
<1>3. \A e \in Sides : Lessens(side[e], side'[e])
  BY <1>1, <1>2, OverLessens, SameLessens DEF IInv, Shapes
<1> QED
  BY <1>1, <1>3, SameMail, SameBranch, LessTalk

LEMMA GrowTalks ==
  ASSUME IInv, Talk, NEW p \in Party, Grow(p), UNCHANGED hand
  PROVE  Talk'
<1> DEFINE n == Len(branch[p]) + 1
<1>1. /\ UNCHANGED <<ends, begun, slip, papers, box, todo, side>>
      /\ branch' = [branch EXCEPT ![p] = Append(@, DataBlock(clock[p]))]
  BY DEF Grow, world, hand
<1>2. Shapes /\ DataBlock(clock[p]).kind # "merge"
  BY DEF IInv, DataBlock
<1>3. Extends(branch, branch')
  BY <1>1, <1>2, GrownBranch
<1>4. ASSUME NEW q \in Party, NEW i \in DOMAIN branch'[q], branch'[q][i].kind = "merge"
      PROVE  i \in DOMAIN branch[q] /\ branch'[q][i] = branch[q][i]
  <2>1. CASE q # p
    BY <1>1, <1>2, <2>1 DEF Shapes
  <2>2. CASE q = p
    <3>1. branch'[p] = Append(branch[p], DataBlock(clock[p])) /\ IsSeq(branch[p])
      BY <1>1, <1>2 DEF Shapes
    <3>2. /\ DOMAIN branch[p] = 1..Len(branch[p]) /\ DOMAIN branch'[p] = 1..n
          /\ branch'[p][n] = DataBlock(clock[p]) /\ Len(branch[p]) \in Nat
          /\ \A j \in DOMAIN branch[p] : branch'[p][j] = branch[p][j]
      BY <3>1, AppendSeq
    <3>3. i # n
      BY <1>2, <1>4, <2>2, <3>2
    <3> QED
      BY <2>2, <3>2, <3>3
  <2> QED
    BY <2>1, <2>2
<1>5. \A d \in Sides : Lessens(side[d], side'[d])
  BY <1>1, SameLessens
<1> QED
  BY <1>1, <1>3, <1>4, <1>5, SameMail, LessTalk

LEMMA FillCacheTalks ==
  ASSUME IInv, Talk, NEW d \in Sides, FillCache(d), UNCHANGED hand
  PROVE  Talk'
<1> DEFINE w == [Over("DONE") EXCEPT !.mine = side[d].mine, !.pend = side[d].pend]
<1>1. /\ UNCHANGED <<ends, begun, branch, todo, box, slip, papers>>
      /\ side[d].st = "SEALED" /\ side' = [side EXCEPT ![d] = w]
  BY DEF FillCache, world, hand
<1>2. w.st = "DONE" /\ w.out = <<>>
  BY DEF Over, Blank
<1> HIDE DEF w
<1>3. Lessens(side[d], w)
  BY <1>1, <1>2 DEF Lessens
<1>4. \A e \in Sides : Lessens(side[e], side'[e])
  BY <1>1, <1>3, SameLessens DEF IInv, Shapes
<1> QED
  BY <1>1, <1>4, SameMail, SameBranch, LessTalk

LEMMA DropsTalk ==
  ASSUME IInv, Talk, NEW c \in Proc, Crash(c) \/ ReadDropped(c), UNCHANGED hand
  PROVE  Talk'
<1>1. /\ UNCHANGED <<ends, begun, branch, slip, papers, box>>
      /\ Die(c) /\ (Alive(c) \/ Busy(c))
  BY DEF Crash, ReadDropped, world, disk, hand
<1> QED
  BY <1>1, DieTalks

LEMMA StutterTalks ==
  ASSUME IInv, Talk, UNCHANGED vars
  PROVE  Talk'
<1>1. UNCHANGED <<ends, begun, branch, slip, papers, box, todo, side>>
  BY DEF vars, world, disk, hand
<1>2. \A d \in Sides : Lessens(side[d], side'[d])
  BY <1>1, SameLessens
<1> QED
  BY <1>1, <1>2, SameMail, SameBranch, LessTalk

\* A branch left alone has no new halves.
LEMMA OldBlocks ==
  ASSUME branch' = branch
  PROVE  \A p \in Party : \A i \in DOMAIN branch'[p] :
           branch'[p][i].kind = "merge" =>
             (i \in DOMAIN branch[p] /\ branch'[p][i] = branch[p][i]) \/ Made(branch', p, i)
OBVIOUS

\* What p has for his tip when he looks.
LEMMA TipShown ==
  ASSUME IInv, NEW p \in Party
  PROVE  Shows(branch, p, Len(branch[p]), SnapshotFor(p))
BY DEF IInv, SnapshotIsCommitted, Shows, IsUnion, SnapshotFor

LEMMA BeginTalks ==
  ASSUME IInv, Talk, NEW s \in Session, Begin(s), UNCHANGED hand
  PROVE  Talk'
<1> DEFINE d == <<Run(s), s>>
           p == ends[s][1]
           m == TipMessage("OFFER", p, Len(branch[p]), SnapshotFor(p))
           v == [Blank EXCEPT !.st = "WAIT_ACCEPT", !.peer = ends[s][2], !.at = clock[p],
                              !.mine = Len(branch[p]), !.mineSnap = SnapshotFor(p),
                              !.out = <<m>>]
<1>1. /\ UNCHANGED <<ends, branch, box, todo, slip, papers>>
      /\ s \notin begun /\ begun' = begun \cup {s}
      /\ side' = [side EXCEPT ![d] = side'[d]] /\ side'[d] \in {v, Over("FAILED")}
  <2>1. d \in Sides /\ side = [e \in Sides |-> side[e]]
    BY DEF IInv, Shapes, Sides
  <2> HIDE DEF d
  <2> QED
    BY <2>1 DEF Begin, world, disk, hand, d
<1>2. /\ Shapes /\ d \in Sides /\ p \in Party /\ Owner(d[1]) = p /\ ~Server(d)
      /\ d[2] = s /\ Owner(d[1])' = p
  BY <1>1 DEF IInv, Shapes, Sides, Owner, Run, Server
<1>3. /\ v.st = "WAIT_ACCEPT" /\ v.mine = Len(branch[p]) /\ v.mineSnap = SnapshotFor(p)
      /\ v.out = <<m>>
      /\ m.t = "OFFER" /\ m.tip = Len(branch[p]) /\ m.snap = SnapshotFor(p)
  BY DEF Blank, TipMessage
<1>4. Over("FAILED").st = "FAILED" /\ Over("FAILED").out = <<>>
  BY DEF Over, Blank
<1>5. Shows(branch, p, Len(branch[p]), SnapshotFor(p))
  BY <1>2, TipShown
<1> HIDE DEF v, m
<1>6. \A e \in Sides : e # d => side'[e] = side[e]
  <2> HIDE DEF d
  <2> QED
    BY <1>1, <1>2 DEF Shapes
<1>7. ASSUME NEW t \in Session, NEW q \in Party, NEW x, Mail(t, q, x)'
      PROVE  Mail(t, q, x) \/ (t = s /\ q = p /\ x = m /\ side'[d] = v)
  <2>1. CASE (\E o \in Party : InBox(box'[o], t, q, x)) \/ \E c \in Proc : InBox(todo'[c], t, q, x)
    BY <1>1, <2>1 DEF Mail
  <2>2. CASE \E e \in Sides : /\ e[2] = t /\ Owner(e[1])' = q
                              /\ \E i \in DOMAIN side'[e].out : side'[e].out[i] = x
    <3>1. PICK e \in Sides : /\ e[2] = t /\ Owner(e[1])' = q
                             /\ \E i \in DOMAIN side'[e].out : side'[e].out[i] = x
      BY <2>2
    <3>2. CASE e # d
      <4>1. Owner(e[1])' = Owner(e[1])
        BY <1>1 DEF Owner
      <4> QED
        BY <1>6, <3>1, <3>2, <4>1 DEF Mail
    <3>3. CASE e = d
      <4>1. side'[d] = v
        BY <1>1, <1>4, <3>1, <3>3, EmptySeq
      <4>2. x = m
        BY <1>3, <3>1, <3>3, <4>1, SingleSeq
      <4> QED
        BY <1>2, <3>1, <3>3, <4>1, <4>2
    <3> QED
      BY <3>2, <3>3
  <2> QED
    BY <1>7, <2>1, <2>2 DEF Mail
<1>8. ASSUME NEW t \in Session, NEW q \in Party, NEW x, Mail(t, q, x)'
      PROVE  \/ Mail(t, q, x)
             \/ t \in begun' /\ TellsTip(branch', q, x) /\ Answers(branch', ends, t, q, Asker(t)', x)
  <2> SUFFICES ASSUME t = s, q = p, x = m, side'[d] = v
               PROVE  TellsTip(branch', q, x) /\ Answers(branch', ends, t, q, Asker(t)', x)
    BY <1>1, <1>7, <1>8
  <2>1. TellsTip(branch', q, x)
    BY <1>1, <1>3, <1>5 DEF TellsTip
  <2>2. Asker(t)' = v
    BY DEF Asker
  <2>3. Answers(branch', ends, t, q, v, x)
    BY <1>3 DEF Answers
  <2> QED
    BY <2>1, <2>2, <2>3
<1>9. \A t \in Session : t \in begun => Asker(t)' = Asker(t)
  <2> SUFFICES ASSUME NEW t \in Session, t \in begun PROVE Asker(t)' = Asker(t)
    OBVIOUS
  <2>1. <<Run(t), t>> \in Sides /\ <<Run(t), t>> # d
    BY <1>1 DEF Sides
  <2> QED
    BY <1>6, <2>1 DEF Asker
<1>10. ASSUME NEW e \in Sides
       PROVE  \/ side'[e].st \notin Running
              \/ SameTalk(side[e], side'[e])
              \/ SideTrue(branch', Owner(e[1]), Server(e), side'[e], Asker(e[2])')
  <2>1. CASE e # d
    BY <1>6, <2>1 DEF SameTalk
  <2>2. CASE e = d /\ side'[d] = v
    <3>1. v.st \notin Drafted
      BY <1>3 DEF Drafted
    <3>2. SideTrue(branch', p, FALSE, v, Asker(s)')
      BY <1>1, <1>3, <1>5, <3>1 DEF SideTrue
    <3> QED
      BY <1>2, <2>2, <3>2 DEF SideTrue
  <2>3. CASE e = d /\ side'[d] = Over("FAILED")
    BY <1>4, <2>3 DEF Running, Drafted
  <2> QED
    BY <1>1, <2>1, <2>2, <2>3
<1>11. \A e \in Sides : e[2] \notin begun' /\ side[e].st = "none" => side'[e].st = "none"
  BY <1>1, <1>2, <1>6
<1> HIDE DEF d, p
<1> QED
  BY <1>1, <1>8, <1>9, <1>10, <1>11, SameBranch, TalkFrame, OldBlocks

\* The draft and, from who answers, the tip before it.
LEMMA SnapTalks ==
  ASSUME IInv, Talk, NEW d \in Sides, Snap(d), UNCHANGED hand
  PROVE  Talk'
<1> DEFINE v == side[d]
           w == [side[d] EXCEPT !.st = "WAIT_DRAFT", !.out = Proposal(d)]
           p == Owner(d[1])
           s == d[2]
           draft == [t |-> "DRAFT", at |-> <<p, v.pend>>, block |-> branch[p][v.pend]]
           tip == TipMessage("ACCEPT", p, v.mine, v.mineSnap)
<1>1. UNCHANGED <<ends, begun, branch, todo, box, slip, papers>>
  BY DEF Snap, world, hand
<1>2. /\ Shapes /\ v.st = "SNAP" /\ DialogueOK(branch, p, Server(d), v)
      /\ side' = [side EXCEPT ![d].st = "WAIT_DRAFT", ![d].out = Proposal(d)]
  BY DEF Snap, IInv, DialoguesOK
<1>3. side' = [side EXCEPT ![d] = w]
  BY <1>2 DEF Shapes
<1>4. SameTalk(v, w) /\ w.out = Proposal(d) /\ w.st = "WAIT_DRAFT"
  <2>1. /\ w.st = "WAIT_DRAFT" /\ w.peer = v.peer /\ w.out = Proposal(d)
        /\ w.mine = v.mine /\ w.his = v.his /\ w.pend = v.pend
        /\ w.mineSnap = v.mineSnap /\ w.hisSnap = v.hisSnap
    BY <1>2 DEF HasFields, DialogueOK
  <2> HIDE DEF w
  <2> QED
    BY <1>2, <2>1 DEF SameTalk, Running, Drafted
<1>5. \A i \in DOMAIN Proposal(d) : Proposal(d)[i] = tip \/ Proposal(d)[i] = draft
  <2>1. Proposal(d) = IF v.seq = 0 THEN <<tip, draft>> ELSE <<draft>>
    BY DEF Proposal
  <2> HIDE DEF tip, draft, v
  <2> QED
    BY <2>1, PairSeq, SingleSeq
<1>6. s \in Session /\ p \in Party /\ (~Server(d) => p = ends[s][1]) /\ d = <<d[1], d[2]>>
  BY <1>2, SidesAre
<1>7. v.st \in Running /\ v.st \in Drafted /\ OwnDraft(branch, p, Server(d), v)
  BY <1>2 DEF Running, Drafted, DialogueOK
<1>8. SideTrue(branch, p, Server(d), v, Asker(s))
  BY DEF Talk, SidesTrue
<1>9. v.mine \in Nat /\ v.pend \in Nat
  BY <1>2 DEF DialogueOK
<1>10. \A t \in Session :
         Asker(t)'.st \in Running => Asker(t).st \in Running /\ Asker(t)'.mineSnap = Asker(t).mineSnap
  <2> SUFFICES ASSUME NEW t \in Session, Asker(t)'.st \in Running
               PROVE  Asker(t).st \in Running /\ Asker(t)'.mineSnap = Asker(t).mineSnap
    OBVIOUS
  <2>1. <<Run(t), t>> \in Sides
    BY DEF Sides
  <2> HIDE DEF w, v
  <2>2. Asker(t)' = Asker(t) \/ (Asker(t)' = w /\ Asker(t) = v)
    BY <1>2, <1>3, <2>1 DEF Asker, Shapes, v
  <2> QED
    BY <1>4, <2>2 DEF SameTalk
<1>11. /\ tip.t = "ACCEPT" /\ tip.tip = v.mine /\ tip.snap = v.mineSnap /\ draft.t = "DRAFT"
  BY DEF TipMessage
<1> HIDE DEF w, tip, draft
<1>12. TellsTip(branch, p, tip) /\ TellsTip(branch, p, draft)
  BY <1>7, <1>8, <1>11 DEF TellsTip, SideTrue
<1>13. /\ Answers(branch, ends, s, p, Asker(s)', tip)
       /\ Answers(branch, ends, s, p, Asker(s)', draft)
  <2>1. Answers(branch, ends, s, p, Asker(s)', draft)
    BY <1>11 DEF Answers
  <2> SUFFICES ASSUME Asker(s)'.st \in Running, p # ends[s][1]
               PROVE  Half(branch, p, v.mine + 1) /\ branch[p][v.mine + 1].union = Join(v.mineSnap, Asker(s)'.mineSnap)
    BY <1>11, <2>1 DEF Answers
  <2>2. Server(d)
    BY <1>6
  <2>3. v.mine + 1 = v.pend
    BY <1>7, <1>9, <2>2 DEF OwnDraft
  <2>4. v.hisSnap = Asker(s)'.mineSnap
    BY <1>6, <1>7, <1>8, <1>10, <2>2 DEF SideTrue
  <2> QED
    BY <1>7, <1>8, <2>2, <2>3, <2>4 DEF OwnDraft, SideTrue, Responds
<1>14. ASSUME NEW t \in Session, NEW q \in Party, NEW x, Mail(t, q, x)'
       PROVE  \/ Mail(t, q, x)
              \/ t \in begun' /\ TellsTip(branch', q, x) /\ Answers(branch', ends, t, q, Asker(t)', x)
  <2>1. CASE (\E o \in Party : InBox(box'[o], t, q, x)) \/ \E c \in Proc : InBox(todo'[c], t, q, x)
    BY <1>1, <2>1 DEF Mail
  <2>2. CASE \E e \in Sides : /\ e[2] = t /\ Owner(e[1])' = q
                              /\ \E i \in DOMAIN side'[e].out : side'[e].out[i] = x
    <3>1. PICK e \in Sides : /\ e[2] = t /\ Owner(e[1])' = q
                             /\ \E i \in DOMAIN side'[e].out : side'[e].out[i] = x
      BY <2>2
    <3>2. Owner(e[1])' = Owner(e[1])
      BY <1>1 DEF Owner
    <3>3. CASE e # d
      <4>1. side'[e] = side[e]
        BY <1>2, <1>3, <3>3 DEF Shapes
      <4> QED
        BY <3>1, <3>2, <4>1 DEF Mail
    <3>4. CASE e = d
      <4>1. side'[d] = w
        BY <1>2, <1>3 DEF Shapes
      <4>2. x = tip \/ x = draft
        BY <1>4, <1>5, <3>1, <3>4, <4>1
      <4>3. s \in begun
        BY <1>6, <1>2 DEF Talk, SilentTrue
      <4> QED
        BY <1>1, <1>12, <1>13, <3>1, <3>2, <3>4, <4>2, <4>3
    <3> QED
      BY <3>3, <3>4
  <2> QED
    BY <1>14, <2>1, <2>2 DEF Mail
<1>15. \A e \in Sides : SameTalk(side[e], side'[e]) /\ (side[e].st = "none" => side'[e].st = "none")
  <2> SUFFICES ASSUME NEW e \in Sides
               PROVE  SameTalk(side[e], side'[e]) /\ (side[e].st = "none" => side'[e].st = "none")
    OBVIOUS
  <2>1. CASE e = d
    BY <1>2, <1>3, <1>4, <2>1 DEF Shapes
  <2>2. CASE e # d
    BY <1>2, <1>3, <2>2 DEF Shapes, SameTalk
  <2> QED
    BY <2>1, <2>2
<1> HIDE DEF v, p, s
<1> QED
  BY <1>1, <1>10, <1>14, <1>15, SameBranch, OldBlocks, TalkFrame

-----------------------------------------------------------------------------
(* Merges by hand add papers, slips and drafts.                            *)

LEMMA HandTalks ==
  ASSUME IInv, Talk, UNCHANGED <<ends, begun, box, todo, side>>, Extends(branch, branch'),
         \A p \in Party : \A i \in DOMAIN branch'[p] :
           branch'[p][i].kind = "merge" =>
             (i \in DOMAIN branch[p] /\ branch'[p][i] = branch[p][i]) \/ Made(branch', p, i),
         \A x \in papers' : x \in papers \/ TellsTip(branch', x.by, x.msg),
         \A p \in Party : slip'[p] = slip[p] \/ (slip'[p].pend # 0 => Responds(branch', p, slip'[p]))
  PROVE  Talk'
<1>1. \A s \in Session, p \in Party : \A m : Mail(s, p, m)' => Mail(s, p, m)
  <2>1. \A d \in Sides : Within(side'[d].out, side[d].out)
    BY WithinItself
  <2> QED
    BY <2>1, SameMail, MailShrinks
<1>2. \A s \in Session : Asker(s)' = Asker(s)
  BY DEF Asker
<1>3. \A d \in Sides : SameTalk(side[d], side'[d])
  BY DEF SameTalk
<1> QED
  BY <1>1, <1>2, <1>3, TalkFrame

\* A draft over what the owner has for his tip and what the partner told is made
\* of leaves it brings in, and unions.
LEMMA DraftMade ==
  ASSUME IInv, NEW p \in Party, NEW v, Shows(branch, v.peer, v.his, v.hisSnap),
         branch' = [branch EXCEPT ![p] = Append(@, DraftOf(p, v))]
  PROVE  /\ branch'[p][Len(branch[p]) + 1].union = Join(SnapshotFor(p), v.hisSnap)
         /\ \A q \in Party : \A i \in DOMAIN branch'[q] :
              branch'[q][i].kind = "merge" =>
                (i \in DOMAIN branch[q] /\ branch'[q][i] = branch[q][i]) \/ Made(branch', q, i)
<1> DEFINE n == Len(branch[p]) + 1
           b == DraftOf(p, v)
<1>1. Shapes /\ Extends(branch, branch')
  BY GrownBranch DEF IInv
<1>2. branch'[p] = Append(branch[p], b) /\ IsSeq(branch[p])
  BY <1>1 DEF Shapes
<1>3. b.union = Join(SnapshotFor(p), v.hisSnap) /\ b.takes = <<v.peer, v.his>>
  BY DEF DraftOf
<1>4. b.union.kids = {SnapshotFor(p), v.hisSnap}
  BY <1>3 DEF Join
<1> HIDE DEF b
<1>5. /\ DOMAIN branch[p] = 1..Len(branch[p]) /\ DOMAIN branch'[p] = 1..n
      /\ branch'[p][n] = b /\ Len(branch[p]) \in Nat
      /\ \A j \in DOMAIN branch[p] : branch'[p][j] = branch[p][j]
  BY <1>2, AppendSeq
<1>6. /\ Shows(branch', p, Len(branch[p]), SnapshotFor(p))
      /\ Shows(branch', v.peer, v.his, v.hisSnap)
  BY <1>1, TipShown, ShowsStay
<1>7. Made(branch', p, n)
  <2>1. n - 1 = Len(branch[p])
    BY <1>5
  <2> HIDE DEF n
  <2> QED
    BY <1>3, <1>4, <1>5, <1>6, <2>1 DEF Made, Shows, NewLeaves
<1>8. ASSUME NEW q \in Party, NEW i \in DOMAIN branch'[q]
      PROVE  (i \in DOMAIN branch[q] /\ branch'[q][i] = branch[q][i]) \/ Made(branch', q, i)
  <2>1. CASE q # p
    BY <1>1, <2>1 DEF Shapes
  <2>2. CASE q = p /\ i = n
    BY <1>7, <2>2
  <2>3. CASE q = p /\ i # n
    BY <1>5, <1>8, <2>3
  <2> QED
    BY <2>1, <2>2, <2>3
<1> QED
  BY <1>3, <1>5, <1>8

LEMMA PrintedTells ==
  ASSUME NEW p, NEW m, PrintSlip(p, m), TellsTip(branch', p, m)
  PROVE  \A x \in papers' : x \in papers \/ TellsTip(branch', x.by, x.msg)
<1> SUFFICES ASSUME NEW x \in papers', x \notin papers PROVE TellsTip(branch', x.by, x.msg)
  OBVIOUS
<1>1. x.msg = m /\ x.by = p
  BY DEF PrintSlip
<1> QED
  BY <1>1

LEMMA PrepareTalks ==
  ASSUME IInv, Talk, NEW p \in Party, PrepareByHand(p), UNCHANGED <<world, box, todo, side, begun>>
  PROVE  Talk'
<1> DEFINE m == TipMessage("TIP", p, Len(branch[p]), SnapshotFor(p))
<1>1. UNCHANGED <<ends, branch, slip>> /\ PrintSlip(p, m)
  BY DEF PrepareByHand, world, disk
<1>2. m.tip = Len(branch[p]) /\ m.snap = SnapshotFor(p)
  BY DEF TipMessage
<1> HIDE DEF m
<1>3. TellsTip(branch', p, m)
  BY <1>1, <1>2, TipShown DEF TellsTip
<1>4. \A x \in papers' : x \in papers \/ TellsTip(branch', x.by, x.msg)
  BY <1>1, <1>3, PrintedTells
<1> QED
  BY <1>1, <1>4, SameBranch, OldBlocks, HandTalks

LEMMA CreateMade ==
  ASSUME NEW p \in Party, NEW q \in Party, CreateByHand(p, q)
  PROVE  \E m \in Printed(q, "TIP") :
           /\ branch' = [branch EXCEPT ![p] = Append(@, DraftOf(p, SlipOf(p, q, m)))]
           /\ slip' = slip \/ slip' = [slip EXCEPT ![p] = SlipOf(p, q, m)]
           /\ papers' = papers
                \/ PrintSlip(p, [t |-> "DRAFT", at |-> <<p, Len(branch[p]) + 1>>,
                                 block |-> DraftOf(p, SlipOf(p, q, m))])
BY DEF CreateByHand

LEMMA CreateTalks ==
  ASSUME IInv, Talk, NEW p \in Party, NEW q \in Party \ {p}, CreateByHand(p, q),
         UNCHANGED <<world, box, todo, side, begun>>
  PROVE  Talk'
<1> DEFINE at == Len(branch[p]) + 1
           Printed4(b) == [t |-> "DRAFT", at |-> <<p, at>>, block |-> b]
<1>1. UNCHANGED <<ends, box, todo, side>> /\ Shapes
  BY DEF CreateByHand, world, IInv
<1>2. PICK m \in Printed(q, "TIP") :
        /\ branch' = [branch EXCEPT ![p] = Append(@, DraftOf(p, SlipOf(p, q, m)))]
        /\ slip' = slip \/ slip' = [slip EXCEPT ![p] = SlipOf(p, q, m)]
        /\ papers' = papers
             \/ PrintSlip(p, Printed4(DraftOf(p, SlipOf(p, q, m))))
  BY CreateMade
<1>3. Shows(branch, q, m.tip, m.snap)
  BY DEF Printed, Talk, PapersTrue, TellsTip
<1>4. PICK v : v = SlipOf(p, q, m)
  OBVIOUS
<1>5. /\ v.peer = q /\ v.pend = at /\ v.mineSnap = SnapshotFor(p)
      /\ v.his = m.tip /\ v.hisSnap = m.snap
  BY <1>4 DEF Blank, SlipOf
<1>6. \A b : Printed4(b).t = "DRAFT"
  OBVIOUS
<1>7. /\ branch' = [branch EXCEPT ![p] = Append(@, DraftOf(p, v))]
      /\ slip' = slip \/ slip' = [slip EXCEPT ![p] = v]
      /\ papers' = papers \/ PrintSlip(p, Printed4(DraftOf(p, v)))
  BY <1>2, <1>4
<1> HIDE DEF Printed4
<1>8. Extends(branch, branch')
  BY <1>1, <1>7, GrownBranch
<1>9. /\ branch'[p][at].union = Join(SnapshotFor(p), v.hisSnap)
      /\ \A o \in Party : \A i \in DOMAIN branch'[o] :
           branch'[o][i].kind = "merge" =>
             (i \in DOMAIN branch[o] /\ branch'[o][i] = branch[o][i]) \/ Made(branch', o, i)
  BY <1>3, <1>5, <1>7, DraftMade
<1>10. Responds(branch', p, v)
  BY <1>5, <1>9 DEF Responds
<1> HIDE DEF at
<1>11. \A o \in Party : slip'[o] = slip[o] \/ (slip'[o].pend # 0 => Responds(branch', o, slip'[o]))
  BY <1>1, <1>7, <1>10 DEF Shapes
<1>12. \A x \in papers' : x \in papers \/ TellsTip(branch', x.by, x.msg)
  <2>1. TellsTip(branch', p, Printed4(DraftOf(p, v)))
    BY <1>6 DEF TellsTip
  <2> QED
    BY <1>7, <2>1, PrintedTells
<1> QED
  BY <1>1, <1>8, <1>9, <1>11, <1>12, HandTalks

LEMMA CosignTalks ==
  ASSUME IInv, Talk, NEW p \in Party, CosignByHand(p), UNCHANGED <<world, box, todo, side, begun>>
  PROVE  Talk'
<1>1. UNCHANGED <<ends, branch, slip>>
  BY DEF CosignByHand, world, disk
<1>2. PICK m : PrintSlip(p, [t |-> "COSIG", of |-> m.at, key |-> key[p]])
  BY DEF CosignByHand
<1>3. TellsTip(branch', p, [t |-> "COSIG", of |-> m.at, key |-> key[p]])
  BY DEF TellsTip
<1>4. \A x \in papers' : x \in papers \/ TellsTip(branch', x.by, x.msg)
  BY <1>2, <1>3, PrintedTells
<1> QED
  BY <1>1, <1>4, SameBranch, OldBlocks, HandTalks

LEMMA FinalizeTalks ==
  ASSUME IInv, Talk, NEW p \in Party, FinalizeByHand(p), UNCHANGED <<world, box, todo, side, begun>>
  PROVE  Talk'
<1>1. UNCHANGED <<ends, branch, papers>> /\ Shapes
  BY DEF FinalizeByHand, world, IInv
<1>2. slip' = slip \/ slip' = [slip EXCEPT ![p] = Blank]
  BY DEF FinalizeByHand
<1>3. Blank.pend = 0
  BY DEF Blank
<1>4. \A o \in Party : slip'[o] = slip[o] \/ (slip'[o].pend # 0 => Responds(branch', o, slip'[o]))
  BY <1>1, <1>2, <1>3 DEF Shapes
<1> QED
  BY <1>1, <1>4, SameBranch, OldBlocks, HandTalks


-----------------------------------------------------------------------------
(* What a letter makes of a dialogue.                                      *)

\* It says and begins nothing.
Quiet(v, w) == w.out = <<>> /\ w.st \notin Midway /\ (w.st \notin Running \/ SameTalk(v, w))

\* The partner's draft was checked and is signed.
Cosigns(v, w) ==
  /\ SameTalk(v, w) /\ v.st = "WAIT_DRAFT" /\ w.st = "WAIT_COSIG"
  /\ \E k : w.out = <<k>> /\ k.t = "COSIG"

\* The signature is on the own draft.
Seals(v, w) == SameTalk(v, w) /\ v.st = "WAIT_COSIG" /\ w.st = "SEALED" /\ w.out = <<>>

\* The own draft is made from what the letter tells.
Drafts(p, m, w) ==
  /\ w.st = "SNAP" /\ w.out = <<>> /\ w.pend = Len(branch[p]) + 1
  /\ w.his = m.tip /\ w.hisSnap = m.snap

Offered(p, v, m, w) ==
  /\ v.st \in {"none", "IDLE"} /\ m.t = "OFFER" /\ Drafts(p, m, w)
  /\ w.mine = Len(branch[p]) /\ w.mineSnap = SnapshotFor(p)

Accepted(p, v, m, w) ==
  /\ v.st = "WAIT_ACCEPT" /\ m.t = "ACCEPT" /\ Drafts(p, m, w)
  /\ w.mine = v.mine /\ w.mineSnap = v.mineSnap

LEMMA MetDrafts ==
  ASSUME NEW d, NEW v, HasFields(v), v.out = <<>>, NEW m
  PROVE  LET w == Met(d, v, m) IN
         \/ w = Over("FAILED")
         \/ Drafts(Owner(d[1]), m, w) /\ w.mine = v.mine /\ w.mineSnap = v.mineSnap /\ w.peer = v.peer
<1> DEFINE p == Owner(d[1])
           w == [v EXCEPT !.his = m.tip, !.hisSnap = m.snap, !.pend = Len(branch[p]) + 1,
                          !.st = "SNAP"]
<1>1. Met(d, v, m) = Over("FAILED") \/ Met(d, v, m) = w
  BY DEF Met
<1>2. /\ w.st = "SNAP" /\ w.out = v.out /\ w.mine = v.mine /\ w.mineSnap = v.mineSnap
      /\ w.his = m.tip /\ w.hisSnap = m.snap /\ w.peer = v.peer /\ w.pend = Len(branch[p]) + 1
  BY DEF HasFields
<1> HIDE DEF w
<1> QED
  BY <1>1, <1>2 DEF Drafts

LEMMA OverIsQuiet == \A v : Quiet(v, Over("FAILED"))
BY DEF Quiet, Over, Blank, Midway, Running, Drafted

\* What the dialogue's answer to a message can be.
Outcome(p, u, v, m, w) ==
  \/ Quiet(u, w)
  \/ Cosigns(u, w)
  \/ Seals(u, w)
  \/ Offered(p, u, m, w) /\ w.peer = v.peer
  \/ Accepted(p, u, m, w) /\ w.peer = v.peer

LEMMA OnMessageOutcome ==
  ASSUME NEW d, NEW v, HasFields(v), v.out = <<>>, NEW m,
         NEW u, u = v \/ (v.st = "IDLE" /\ u.st = "none")
  PROVE  Outcome(Owner(d[1]), u, v, m, OnMessage(d, v, m))
<1> DEFINE p == Owner(d[1])
<1>0. Outcome(p, u, v, m, Over("FAILED"))
  BY OverIsQuiet DEF Outcome
<1>1. CASE v.st = "IDLE" /\ m.t = "OFFER"
  <2> DEFINE x == [v EXCEPT !.mine = Len(branch[p]), !.mineSnap = SnapshotFor(p)]
  <2>1. OnMessage(d, v, m) = Over("FAILED") \/ OnMessage(d, v, m) = Met(d, x, m)
    BY <1>1 DEF OnMessage, HandleOffer
  <2>2. /\ HasFields(x) /\ x.out = <<>> /\ x.peer = v.peer
        /\ x.mine = Len(branch[p]) /\ x.mineSnap = SnapshotFor(p)
    BY DEF HasFields
  <2> HIDE DEF x
  <2> QED
    BY <1>0, <1>1, <2>1, <2>2, MetDrafts DEF Outcome, Offered
<1>2. CASE v.st = "WAIT_ACCEPT" /\ m.t = "ACCEPT"
  <2>1. OnMessage(d, v, m) = Met(d, v, m) /\ u = v
    BY <1>2 DEF OnMessage, HandleAccept
  <2> QED
    BY <1>0, <1>2, <2>1, MetDrafts DEF Outcome, Accepted
<1>3. CASE v.st = "WAIT_DRAFT" /\ m.t = "DRAFT"
  <2> DEFINE k == [t |-> "COSIG", of |-> m.at, key |-> key[p]]
             x == [v EXCEPT !.st = "WAIT_COSIG", !.out = <<k>>]
  <2>1. (OnMessage(d, v, m) = Over("FAILED") \/ OnMessage(d, v, m) = x) /\ u = v
    BY <1>3 DEF OnMessage, HandleDraft
  <2>2. /\ x.st = "WAIT_COSIG" /\ x.out = <<k>> /\ k.t = "COSIG" /\ x.peer = v.peer
        /\ x.mine = v.mine /\ x.mineSnap = v.mineSnap
        /\ x.his = v.his /\ x.hisSnap = v.hisSnap /\ x.pend = v.pend
    BY DEF HasFields
  <2> HIDE DEF x, k
  <2>3. Cosigns(v, x)
    BY <1>3, <2>2 DEF Cosigns, SameTalk, Running, Drafted
  <2> QED
    BY <1>0, <2>1, <2>3 DEF Outcome
<1>4. CASE v.st = "WAIT_COSIG" /\ m.t = "COSIG"
  <2> DEFINE x == [v EXCEPT !.st = "SEALED"]
  <2>1. (OnMessage(d, v, m) = Over("FAILED") \/ OnMessage(d, v, m) = x) /\ u = v
    BY <1>4 DEF OnMessage, HandleCosig
  <2>2. /\ x.st = "SEALED" /\ x.out = <<>> /\ x.peer = v.peer
        /\ x.mine = v.mine /\ x.mineSnap = v.mineSnap
        /\ x.his = v.his /\ x.hisSnap = v.hisSnap /\ x.pend = v.pend
    BY DEF HasFields
  <2> HIDE DEF x
  <2>3. Seals(v, x)
    BY <1>4, <2>2 DEF Seals, SameTalk, Running, Drafted
  <2> QED
    BY <1>0, <2>1, <2>3 DEF Outcome
<1>5. CASE /\ ~(v.st = "IDLE" /\ m.t = "OFFER")
           /\ ~(v.st = "WAIT_ACCEPT" /\ m.t = "ACCEPT")
           /\ ~(v.st = "WAIT_DRAFT" /\ m.t = "DRAFT")
           /\ ~(v.st = "WAIT_COSIG" /\ m.t = "COSIG")
  <2>1. OnMessage(d, v, m) = Over("FAILED")
    BY <1>5 DEF OnMessage
  <2> QED
    BY <1>0, <2>1
<1> QED
  BY <1>1, <1>2, <1>3, <1>4, <1>5

LEMMA CountedOutcome ==
  ASSUME NEW p, NEW u, NEW v, NEW m, NEW x, HasFields(x), Outcome(p, u, v, m, x)
  PROVE  Outcome(p, u, v, m, [x EXCEPT !.nextIn = @ + 1])
<1> DEFINE w == [x EXCEPT !.nextIn = @ + 1]
<1>1. /\ w.st = x.st /\ w.peer = x.peer /\ w.out = x.out
      /\ w.mine = x.mine /\ w.mineSnap = x.mineSnap
      /\ w.his = x.his /\ w.hisSnap = x.hisSnap /\ w.pend = x.pend
  BY DEF HasFields
<1> HIDE DEF w
<1>2. Outcome(p, u, v, m, w)
  <2>1. CASE Quiet(u, x)
    BY <1>1, <2>1 DEF Outcome, Quiet, SameTalk
  <2>2. CASE Cosigns(u, x)
    BY <1>1, <2>2 DEF Outcome, Cosigns, SameTalk
  <2>3. CASE Seals(u, x)
    BY <1>1, <2>3 DEF Outcome, Seals, SameTalk
  <2>4. CASE Offered(p, u, m, x) /\ x.peer = v.peer
    BY <1>1, <2>4 DEF Outcome, Offered, Drafts
  <2>5. CASE Accepted(p, u, m, x) /\ x.peer = v.peer
    BY <1>1, <2>5 DEF Outcome, Accepted, Drafts
  <2> QED
    BY <2>1, <2>2, <2>3, <2>4, <2>5 DEF Outcome
<1> QED
  BY <1>2 DEF w


\* The dialogue d after letter l.
Answer(d, l) ==
  IF Turn(d, l) THEN [OnMessage(d, Opened(d, l), l.msg) EXCEPT !.nextIn = @ + 1] ELSE Opened(d, l)

LEMMA LetterOutcome ==
  ASSUME IInv, NEW d \in Sides, NEW l, LetterOK(branch, ends, Owner(d[1]), l), l.s = d[2],
         side[d].out = <<>>, side[d].st \notin Midway
  PROVE  /\ Outcome(Owner(d[1]), side[d], Opened(d, l), l.msg, Answer(d, l))
         /\ Quiet(side[d], Answer(d, l)) \/ l.from = Opened(d, l).peer
<1> DEFINE v == Opened(d, l)
<1>1. DialogueOK(branch, Owner(d[1]), Server(d), v) /\ v.out = <<>> /\ v.st \notin Midway
  BY OpenedWell
<1>2. HasFields(v)
  BY <1>1 DEF DialogueOK
<1>3. v = side[d] \/ (v.st = "IDLE" /\ side[d].st = "none")
  BY DEF Opened, Blank
<1>4. CASE ~Turn(d, l)
  <2>1. Answer(d, l) = v
    BY <1>4 DEF Answer
  <2>2. Quiet(side[d], v)
    BY <1>1, <1>3 DEF Quiet, SameTalk, Running, Drafted
  <2> QED
    BY <2>1, <2>2 DEF Outcome
<1>5. CASE Turn(d, l)
  <2>1. l.from = v.peer /\ v.st \in Waiting \cup {"IDLE"}
    BY <1>5 DEF Turn
  <2>2. v.peer \in Party \ {Owner(d[1])}
    BY <1>1, <2>1 DEF DialogueOK, Live
  <2>3. Answer(d, l) = [OnMessage(d, v, l.msg) EXCEPT !.nextIn = @ + 1]
    BY <1>5 DEF Answer
  <2> HIDE DEF v
  <2>4. ~Server(d) => l.from # ends[l.s][1]
    BY <2>1, <2>2, SidesAre DEF IInv
  <2>5. Truthful(branch, ~Server(d), l.msg)
    BY <2>4, LessSure DEF LetterOK
  <2>6. HasFields(OnMessage(d, v, l.msg))
    <3>1. After(d, v, OnMessage(d, v, l.msg))
      BY <1>1, <2>1, <2>5, OnMessageWell
    <3> QED
      BY <3>1 DEF After, Drafting, DialogueOK
  <2>7. Outcome(Owner(d[1]), side[d], v, l.msg, OnMessage(d, v, l.msg))
    BY <1>1, <1>2, <1>3, OnMessageOutcome
  <2> QED
    BY <2>1, <2>3, <2>6, <2>7, CountedOutcome DEF v
<1> QED
  BY <1>4, <1>5

\* What a letter does to the dialogues, the branch and the signatures.
ReadStep(c, l, w) ==
  LET d == <<c, l.s>> IN
  /\ IF d \in Sides THEN side' = [side EXCEPT ![d] = w] ELSE side' = side
  /\ branch' = IF d \in Sides /\ w.st = "SNAP"
               THEN [branch EXCEPT ![Owner(c)] = Append(@, DraftOf(Owner(c), w))] ELSE branch
  /\ seals' = IF d \in Sides /\ w.st = "SEALED"
              THEN seals \cup {<<Owner(c), Opened(d, l).pend>>} ELSE seals

LEMMA ReadSteps ==
  ASSUME IInv, Talk, NEW c \in Proc, Read(c), UNCHANGED hand
  PROVE  LET l == Head(todo[c]) IN
         /\ UNCHANGED <<ends, begun, stored, cache, box, slip, papers, faults>>
         /\ Alive(c) /\ ~Busy(c) /\ todo[c] # <<>> /\ todo' = [todo EXCEPT ![c] = Tail(@)]
         /\ Within(Tail(todo[c]), todo[c])
         /\ ReadStep(c, l, Answer(<<c, l.s>>, l))
         /\ LetterOK(branch, ends, Owner(c), l)
         /\ Mail(l.s, l.from, l.msg) /\ l.s \in begun /\ l.s \in Session /\ l.from \in Party
<1> DEFINE l == Head(todo[c])
<1>1. /\ UNCHANGED <<ends, begun, stored, cache, box, slip, papers, faults>>
      /\ Alive(c) /\ ~Busy(c) /\ todo[c] # <<>> /\ todo' = [todo EXCEPT ![c] = Tail(@)]
  BY DEF Read, world, hand, Undisturbed
<1>2. ReadStep(c, l, Answer(<<c, l.s>>, l))
  BY DEF Read, ReadStep, Answer
<1>3. Shapes /\ Mailbox(branch, ends, Owner(c), todo[c]) /\ IsSeq(todo[c])
  BY DEF IInv, TodoOK, Mailbox
<1>4. 1 \in DOMAIN todo[c] /\ l = todo[c][1] /\ Within(Tail(todo[c]), todo[c])
  BY <1>1, <1>3, TailSeq DEF Within
<1> HIDE DEF l
<1>5. LetterOK(branch, ends, Owner(c), l)
  BY <1>3, <1>4 DEF Mailbox
<1>6. Mail(l.s, l.from, l.msg)
  BY <1>4 DEF Mail, InBox
<1>7. l.s \in Session /\ l.from \in Party
  BY <1>5 DEF LetterOK
<1>8. l.s \in begun
  BY <1>6, <1>7 DEF Talk, SilentTrue
<1> QED
  BY <1>1, <1>2, <1>4, <1>5, <1>6, <1>7, <1>8 DEF l

\* Who runs a dialogue of his own has begun it.
LEMMA IdleServes ==
  ASSUME IInv, NEW d \in Sides, Alive(d[1]), side[d].st \in {"none", "IDLE"}
  PROVE  Server(d)
<1> SUFFICES ASSUME ~Server(d) PROVE FALSE
  OBVIOUS
<1>1. d[1] = Run(d[2]) /\ d = <<d[1], d[2]>> /\ d[1][1] = "run"
  BY SidesAre DEF IInv
<1>2. d[1][2] = d[2]
  BY <1>1 DEF Run
<1>3. side[d].st \in Waiting \cup Midway
  BY <1>1, <1>2 DEF Alive
<1> QED
  BY <1>3 DEF Waiting, Midway


\* The draft that a letter leads to: from who answers, over what he captured and
\* was offered; from who began, after a half over what both captured.
LEMMA DraftTrue ==
  ASSUME IInv, Talk, NEW d \in Sides, NEW l, NEW w, l.s = d[2], l.from \in Party,
         Mail(l.s, l.from, l.msg), Alive(d[1]), w.peer = l.from,
         LetterOK(branch, ends, Owner(d[1]), l),
         \/ Offered(Owner(d[1]), side[d], l.msg, w)
         \/ Accepted(Owner(d[1]), side[d], l.msg, w),
         branch' = [branch EXCEPT ![Owner(d[1])] = Append(@, DraftOf(Owner(d[1]), w))],
         NEW a, a = (IF Server(d) THEN Asker(d[2]) ELSE w)
  PROVE  /\ \A q \in Party : \A i \in DOMAIN branch'[q] :
              branch'[q][i].kind = "merge" =>
                (i \in DOMAIN branch[q] /\ branch'[q][i] = branch[q][i]) \/ Made(branch', q, i)
         /\ SideTrue(branch', Owner(d[1]), Server(d), w, a)
         /\ ~Server(d) => side[d].st \in Running /\ w.mineSnap = side[d].mineSnap
<1> DEFINE p == Owner(d[1])
<1>1. /\ p \in Party /\ d[2] \in Session /\ Shapes
      /\ ~Server(d) => d[1] = Run(d[2]) /\ p = ends[d[2]][1] /\ d = <<d[1], d[2]>>
  BY SidesAre DEF IInv
<1>2. TellsTip(branch, l.from, l.msg) /\ Answers(branch, ends, l.s, l.from, Asker(l.s), l.msg)
  BY <1>1 DEF Talk, MailTrue
<1>3. l.msg.t \in {"OFFER", "ACCEPT"} /\ Drafts(p, l.msg, w)
  BY DEF Offered, Accepted
<1>4. Shows(branch, w.peer, w.his, w.hisSnap)
  BY <1>2, <1>3 DEF TellsTip, Drafts
<1>5. Extends(branch, branch')
  BY <1>1, GrownBranch
<1>6. /\ branch'[p][Len(branch[p]) + 1].union = Join(SnapshotFor(p), w.hisSnap)
      /\ \A q \in Party : \A i \in DOMAIN branch'[q] :
           branch'[q][i].kind = "merge" =>
             (i \in DOMAIN branch[q] /\ branch'[q][i] = branch[q][i]) \/ Made(branch', q, i)
  BY <1>1, <1>4, DraftMade
<1>7. w.st \in Running /\ w.st \in Drafted
  BY <1>3 DEF Drafts, Running, Drafted
<1>8. CASE Offered(p, side[d], l.msg, w)
  <2>1. Server(d)
    BY <1>8, IdleServes DEF Offered
  <2>2. Responds(branch', p, w)
    BY <1>3, <1>6, <1>8 DEF Offered, Drafts, Responds
  <2>3. Shows(branch', p, w.mine, w.mineSnap)
    BY <1>1, <1>5, <1>8, TipShown, ShowsStay DEF Offered
  <2>4. a.st \in Running => w.hisSnap = a.mineSnap
    BY <1>2, <1>3, <1>8, <2>1 DEF Answers, Offered, Drafts
  <2> QED
    BY <1>6, <2>1, <2>2, <2>3, <2>4 DEF SideTrue
<1>9. CASE Accepted(p, side[d], l.msg, w)
  <2>1. ~Server(d) /\ side[d].st \in Running /\ side[d] = Asker(l.s)
    <3>1. ~Server(d)
      BY <1>9 DEF Accepted, IInv, DialoguesOK, DialogueOK
    <3> QED
      BY <1>1, <1>9, <3>1 DEF Accepted, Asker, Running
  <2>2. l.from # ends[l.s][1]
    BY <1>1, <2>1 DEF LetterOK
  <2>3. /\ Half(branch, w.peer, w.his + 1)
        /\ branch[w.peer][w.his + 1].union = Join(w.hisSnap, w.mineSnap)
    BY <1>2, <1>3, <1>9, <2>1, <2>2 DEF Answers, Accepted, Drafts
  <2>4. Join(w.hisSnap, w.mineSnap) = Join(w.mineSnap, w.hisSnap)
    BY DEF Join
  <2>5. Follows(branch', w)
    BY <1>5, <2>3, <2>4 DEF Follows, Half, Extends
  <2>6. Shows(branch, p, side[d].mine, side[d].mineSnap)
    BY <2>1 DEF Talk, SidesTrue, SideTrue
  <2>7. Shows(branch', p, w.mine, w.mineSnap)
    BY <1>5, <1>9, <2>6, ShowsStay DEF Accepted
  <2> QED
    BY <1>6, <1>9, <2>1, <2>5, <2>7 DEF SideTrue, Accepted
<1> QED
  BY <1>8, <1>9

LEMMA ReadTalks ==
  ASSUME IInv, Talk, NEW c \in Proc, Read(c), UNCHANGED hand
  PROVE  Talk'
<1>0. PICK l : l = Head(todo[c])
  OBVIOUS
<1> DEFINE d == <<c, l.s>>
           w == Answer(d, l)
<1>1. /\ UNCHANGED <<ends, begun, stored, cache, box, slip, papers, faults>>
      /\ Alive(c) /\ ~Busy(c) /\ todo[c] # <<>> /\ todo' = [todo EXCEPT ![c] = Tail(@)]
      /\ Within(Tail(todo[c]), todo[c])
      /\ ReadStep(c, l, w)
      /\ LetterOK(branch, ends, Owner(c), l)
      /\ Mail(l.s, l.from, l.msg) /\ l.s \in begun /\ l.s \in Session /\ l.from \in Party
  BY <1>0, ReadSteps
<1>2. Shapes /\ d[1] = c /\ d[2] = l.s
  BY DEF IInv
<1>3. \A e \in Proc : Within(todo'[e], todo[e])
  BY <1>1, <1>2, WithinItself DEF Shapes
<1>4. CASE d \notin Sides
  <2>1. side' = side /\ branch' = branch
    BY <1>1, <1>4 DEF ReadStep
  <2>2. \A q \in Party : Delivered(box'[q], box[q])
    BY <1>1, WithinItself, WithinDelivered
  <2>3. \A e \in Sides : Lessens(side[e], side'[e])
    BY <2>1, SameLessens
  <2> QED
    BY <1>1, <1>3, <2>1, <2>2, <2>3, SameBranch, LessTalk
<1>5. CASE d \in Sides
  <2>1. /\ side' = [side EXCEPT ![d] = w]
        /\ branch' = IF w.st = "SNAP" THEN [branch EXCEPT ![Owner(c)] = Append(@, DraftOf(Owner(c), w))]
                     ELSE branch
    BY <1>1, <1>5 DEF ReadStep
  <2>2. side[d].out = <<>> /\ side[d].st \notin Midway
    BY <1>1, <1>2, <1>5 DEF Busy
  <2> DEFINE v == Opened(d, l)
             u == side[d]
             p == Owner(c)
  <2>3. Outcome(p, u, v, l.msg, w) /\ (Quiet(u, w) \/ l.from = v.peer)
    BY <1>1, <1>2, <1>5, <2>2, LetterOutcome
  <2> HIDE DEF w, v, d
  <2>4. side'[d] = w /\ \A e \in Sides : e # d => side'[e] = side[e]
    BY <1>2, <1>5, <2>1 DEF Shapes
  <2> DEFINE drafting == /\ w.peer = l.from /\ w.st = "SNAP"
                         /\ Offered(p, u, l.msg, w) \/ Accepted(p, u, l.msg, w)
  <2>5. \/ Quiet(u, w) \/ Cosigns(u, w) \/ Seals(u, w)
        \/ drafting
    BY <2>3 DEF Outcome, Offered, Accepted, Drafts
  <2>6. /\ \/ drafting
           \/ branch' = branch /\ (w.st \notin Running \/ SameTalk(u, w))
        /\ w.out = <<>> \/ \E k : w.out = <<k>> /\ k.t = "COSIG"
    BY <2>1, <2>5 DEF Quiet, Cosigns, Seals, Offered, Accepted, Drafts, Midway
  <2>7. \A t \in Session : t # l.s \/ Server(d) => Asker(t)' = Asker(t)
    <3> SUFFICES ASSUME NEW t \in Session, t # l.s \/ Server(d) PROVE Asker(t)' = Asker(t)
      OBVIOUS
    <3>1. <<Run(t), t>> \in Sides /\ <<Run(t), t>>[2] = t /\ ~Server(<<Run(t), t>>)
      BY DEF Sides, Server, Run
    <3>2. <<Run(t), t>> # d
      BY <1>2, <3>1
    <3> QED
      BY <2>4, <3>1, <3>2 DEF Asker
  <2>8. ~Server(d) => Asker(l.s) = u /\ Asker(l.s)' = w
    <3>1. ~Server(d) => d = <<Run(l.s), l.s>>
      BY <1>2, <1>5, SidesAre
    <3> QED
      BY <2>4, <3>1 DEF Asker
  <2>9. drafting =>
          /\ \A q \in Party : \A i \in DOMAIN branch'[q] :
               branch'[q][i].kind = "merge" =>
                 (i \in DOMAIN branch[q] /\ branch'[q][i] = branch[q][i]) \/ Made(branch', q, i)
          /\ SideTrue(branch', p, Server(d), w, Asker(l.s)')
          /\ ~Server(d) => u.st \in Running /\ w.mineSnap = u.mineSnap
          /\ Extends(branch, branch')
    <3> SUFFICES ASSUME drafting
                 PROVE  /\ \A q \in Party : \A i \in DOMAIN branch'[q] :
                             branch'[q][i].kind = "merge" =>
                               (i \in DOMAIN branch[q] /\ branch'[q][i] = branch[q][i]) \/ Made(branch', q, i)
                        /\ SideTrue(branch', p, Server(d), w, Asker(l.s)')
                        /\ ~Server(d) => u.st \in Running /\ w.mineSnap = u.mineSnap
                        /\ Extends(branch, branch')
      OBVIOUS
    <3>1. branch' = [branch EXCEPT ![p] = Append(@, DraftOf(p, w))]
      BY <2>1
    <3>2. Asker(l.s)' = IF Server(d) THEN Asker(d[2]) ELSE w
      BY <1>1, <1>2, <2>7, <2>8
    <3>3. Extends(branch, branch')
      BY <1>2, <1>5, <3>1, GrownBranch, SidesAre
    <3> QED
      BY <1>1, <1>2, <1>5, <3>1, <3>2, <3>3, DraftTrue
  <2>10. /\ Extends(branch, branch')
         /\ \A q \in Party : \A i \in DOMAIN branch'[q] :
              branch'[q][i].kind = "merge" =>
                (i \in DOMAIN branch[q] /\ branch'[q][i] = branch[q][i]) \/ Made(branch', q, i)
    BY <2>6, <2>9, SameBranch, OldBlocks
  <2>11. ASSUME NEW t \in Session, t \in begun, Asker(t)'.st \in Running
         PROVE  Asker(t).st \in Running /\ Asker(t)'.mineSnap = Asker(t).mineSnap
    BY <2>6, <2>7, <2>8, <2>9, <2>11 DEF SameTalk
  <2>12. ASSUME NEW e \in Sides
         PROVE  \/ side'[e].st \notin Running
                \/ SameTalk(side[e], side'[e])
                \/ SideTrue(branch', Owner(e[1]), Server(e), side'[e], Asker(e[2])')
    <3>1. CASE e # d
      BY <2>4, <3>1 DEF SameTalk
    <3>2. CASE e = d
      BY <1>2, <2>4, <2>6, <2>9, <3>2
    <3> QED
      BY <3>1, <3>2
  <2>13. ASSUME NEW t \in Session, NEW q \in Party, NEW x, Mail(t, q, x)'
         PROVE  \/ Mail(t, q, x)
                \/ t \in begun' /\ TellsTip(branch', q, x) /\ Answers(branch', ends, t, q, Asker(t)', x)
    <3>1. CASE \E o \in Party : InBox(box'[o], t, q, x)
      BY <1>1, <3>1 DEF Mail
    <3>2. CASE \E e \in Proc : InBox(todo'[e], t, q, x)
      BY <1>3, <3>2 DEF Mail, InBox, Within
    <3>3. CASE \E e \in Sides : /\ e[2] = t /\ Owner(e[1])' = q
                                /\ \E i \in DOMAIN side'[e].out : side'[e].out[i] = x
      <4>1. PICK e \in Sides : /\ e[2] = t /\ Owner(e[1])' = q
                               /\ \E i \in DOMAIN side'[e].out : side'[e].out[i] = x
        BY <3>3
      <4>2. Owner(e[1])' = Owner(e[1])
        BY <1>1 DEF Owner
      <4>3. CASE e # d
        BY <2>4, <4>1, <4>2, <4>3 DEF Mail
      <4>4. CASE e = d
        <5>1. x.t = "COSIG" /\ t = l.s
          BY <1>2, <2>4, <2>6, <4>1, <4>4, EmptySeq, SingleSeq
        <5> QED
          BY <1>1, <5>1 DEF TellsTip, Answers
      <4> QED
        BY <4>3, <4>4
    <3> QED
      BY <2>13, <3>1, <3>2, <3>3 DEF Mail
  <2>14. \A e \in Sides : e[2] \notin begun' /\ side[e].st = "none" => side'[e].st = "none"
    BY <1>1, <1>2, <2>4
  <2> HIDE DEF drafting, u, p
  <2> QED
    BY <1>1, <2>10, <2>11, <2>12, <2>13, <2>14, TalkFrame
<1> QED
  BY <1>4, <1>5


\* The dialogue, the mailboxes and the merges by hand keep saying what is so.
LEMMA NextTalks ==
  ASSUME IInv, Talk, [Next]_vars
  PROVE  Talk'
<1>1. CASE OverRelay /\ UNCHANGED hand
  <2>1. ASSUME NEW s \in Session, Begin(s) \/ Timeout(s)
        PROVE  Talk'
    BY <1>1, <2>1, BeginTalks, TimeoutTalks
  <2>2. ASSUME NEW c \in Proc, Poll(c) \/ Read(c) \/ PollLost(c)
        PROVE  Talk'
    BY <1>1, <2>2, PollsTalk, ReadTalks
  <2>3. ASSUME NEW c \in Proc, ReadDropped(c) \/ Crash(c)
        PROVE  Talk'
    BY <1>1, <2>3, DropsTalk
  <2>4. ASSUME NEW d \in Sides, Queued(d) \/ Snap(d) \/ FillCache(d)
        PROVE  Talk'
    BY <1>1, <2>4, QueuedTalks, SnapTalks, FillCacheTalks
  <2>5. ASSUME NEW d \in Sides, Refused(d) \/ SendLost(d)
        PROVE  Talk'
    BY <1>1, <2>5, RefusedTalks, SendLostTalks
  <2>6. ASSUME NEW p \in Party, Expire(p) \/ Grow(p)
        PROVE  Talk'
    BY <1>1, <2>6, ExpireTalks, GrowTalks
  <2> QED
    BY <1>1, <2>1, <2>2, <2>3, <2>4, <2>5, <2>6 DEF OverRelay, Work
<1>2. ASSUME NEW p \in Party, ByHand(p)
      PROVE  Talk'
  BY <1>2, PrepareTalks, CosignTalks, FinalizeTalks, CreateTalks DEF ByHand
<1>3. CASE UNCHANGED vars
  BY <1>3, StutterTalks
<1> QED
  BY <1>1, <1>2, <1>3 DEF Next

-----------------------------------------------------------------------------
(* Who has recorded what he signed.                                        *)

\* The record of a half whose tip and union the owner's state v knows.
LEMMA RecordedCovers ==
  ASSUME NEW br, NEW p, NEW v, br[p][v.pend].takes = <<v.peer, v.his>>, v.mine = v.pend - 1,
         br[p][v.pend].union = Join(v.mineSnap, v.hisSnap)
  PROVE  RecordOf(br, p, v.pend) \subseteq Recorded(p, v)
BY DEF RecordOf, Recorded, NewLeaves, Join

LEMMA SlipCovers ==
  ASSUME IInv, Talk, NEW p \in Party, HasSlip(p)
  PROVE  RecordOf(branch, p, slip[p].pend) \subseteq Recorded(p, slip[p])
<1>1. OwnDraft(branch, p, TRUE, slip[p]) /\ Responds(branch, p, slip[p])
  BY DEF HasSlip, IInv, SlipsOK, SlipOK, Talk, SlipsTrue
<1> QED
  BY <1>1, RecordedCovers DEF OwnDraft, Responds

\* Who began the session learns from the partner's half what the own one is over.
LEMMA SideCovers ==
  ASSUME IInv, Talk, Ledger, NEW d \in Sides, side[d].st = "SEALED"
  PROVE  RecordOf(branch, Owner(d[1]), side[d].pend) \subseteq Recorded(Owner(d[1]), side[d])
<1> DEFINE p == Owner(d[1])
           v == side[d]
<1>1. DialogueOK(branch, p, Server(d), v) /\ SideTrue(branch, p, Server(d), v, Asker(d[2]))
  BY DEF IInv, DialoguesOK, Talk, SidesTrue
<1>2. v.st \in Drafted /\ v.st \in Checked
  BY DEF Drafted, Checked
<1>3. OwnDraft(branch, p, Server(d), v) /\ HisDraft(branch, p, v)
  BY <1>1, <1>2 DEF DialogueOK
<1>4. v.mine \in Nat /\ v.his \in Nat /\ v.pend \in Nat
  BY <1>1 DEF DialogueOK
<1>5. CASE Server(d)
  <2>1. Responds(branch, p, v) /\ v.mine = v.pend - 1
    BY <1>1, <1>2, <1>3, <1>5 DEF SideTrue, OwnDraft
  <2> HIDE DEF v
  <2>2. RecordOf(branch, p, v.pend) \subseteq Recorded(p, v)
    BY <1>3, <2>1, RecordedCovers DEF OwnDraft, Responds
  <2> QED
    BY <2>2 DEF v
<1>6. CASE ~Server(d)
  <2>1. Follows(branch, v)
    BY <1>1, <1>2, <1>6 DEF SideTrue
  <2>2. branch[p][v.pend].union = Join(v.mineSnap, v.hisSnap)
    BY <1>3, <2>1 DEF Follows, HisDraft
  <2>3. <<p, v.pend>> \in seals
    BY DEF Ledger, SealedOK
  <2>4. Answered(branch, p, v.pend)
    BY <2>3 DEF IInv, SealsOK
  <2> HIDE DEF v, p
  <2>5. PICK q \in Party : \E j \in DOMAIN branch[q] : Twins(branch, p, v.pend, q, j)
    BY <2>4 DEF Answered
  <2>6. PICK j \in DOMAIN branch[q] : Twins(branch, p, v.pend, q, j)
    BY <2>5
  <2>7. q = v.peer /\ j - 1 = v.his /\ j \in Nat
    BY <1>3, <2>6 DEF Twins, OwnDraft, Half
  <2>8. j = v.his + 1
    BY <1>4, <2>7
  <2>9. v.mine = v.pend - 1
    BY <1>3, <2>6, <2>7, <2>8 DEF Twins, HisDraft
  <2>10. RecordOf(branch, p, v.pend) \subseteq Recorded(p, v)
    BY <1>3, <2>2, <2>9, RecordedCovers DEF OwnDraft
  <2> QED
    BY <2>10 DEF v, p
<1> QED
  BY <1>5, <1>6

LEMMA RecordedFinite == ASSUME NEW p, NEW v PROVE IsFiniteSet(Recorded(p, v))
<1> DEFINE S == {v.mineSnap} \cup {v.hisSnap}
<1>1. IsFiniteSet({v.mineSnap}) /\ IsFiniteSet({v.hisSnap}) /\ IsFiniteSet({Join(v.mineSnap, v.hisSnap)})
  BY FS_Singleton
<1>2. IsFiniteSet(S)
  BY <1>1, FS_Union
<1>3. IsFiniteSet(S \cup {Join(v.mineSnap, v.hisSnap)})
  BY <1>1, <1>2, FS_Union
<1>4. Recorded(p, v) \subseteq S \cup {Join(v.mineSnap, v.hisSnap)}
  BY DEF Recorded
<1> QED
  BY <1>3, <1>4, FS_Subset


\* A signed half stands on its branch for good, and so does what it brings.
LEMMA RecordStays ==
  ASSUME IInv, Extends(branch, branch'), NEW x \in seals
  PROVE  RecordOf(branch', x[1], x[2]) = RecordOf(branch, x[1], x[2]) /\ x[1] \in Party
<1>1. PICK p \in Party : \E i \in DOMAIN branch[p] : x = <<p, i>>
  BY DEF IInv, SealsOK
<1>2. PICK i \in DOMAIN branch[p] : x = <<p, i>>
  BY <1>1
<1>3. branch'[p][i] = branch[p][i] /\ x[1] = p /\ x[2] = i
  BY <1>2 DEF Extends
<1> QED
  BY <1>3 DEF RecordOf

\* Dialogue d is signed and not recorded, at the place x.
Holds(d, x) == side[d].st = "SEALED" /\ <<Owner(d[1]), side[d].pend>> = x

\* A half is not lost by a step that leaves caches as full and finds who holds it
\* holding it still, or having recorded it.
LEMMA NotLost ==
  ASSUME IInv, ends' = ends, Extends(branch, branch'), NEW x \in seals,
         cache[x[1]] \subseteq cache'[x[1]],
         \A d \in Sides : Holds(d, x) =>
           (side'[d].st = "SEALED" /\ side'[d].pend = side[d].pend)
             \/ RecordOf(branch, x[1], x[2]) \subseteq cache'[x[1]],
         Lost(x)'
  PROVE  Lost(x)
<1>1. RecordOf(branch', x[1], x[2]) = RecordOf(branch, x[1], x[2])
  BY RecordStays
<1>2. ~(RecordOf(branch, x[1], x[2]) \subseteq cache'[x[1]])
  BY <1>1 DEF Lost
<1>3. \A d \in Sides : Owner(d[1])' = Owner(d[1])
  BY DEF Owner
<1>4. ASSUME NEW d \in Sides, Holds(d, x)
      PROVE  FALSE
  <2>1. side'[d].st = "SEALED" /\ side'[d].pend = side[d].pend
    BY <1>2, <1>4
  <2>2. <<Owner(d[1])', side'[d].pend>> = x
    BY <1>3, <1>4, <2>1 DEF Holds
  <2> QED
    BY <2>1, <2>2 DEF Lost
<1> QED
  BY <1>2, <1>4 DEF Lost, Holds

\* A step loses no half, or takes a fault and loses one.
LEMMA LedgerFrame ==
  ASSUME Ledger, SealedOK', CachesOK', NEW z,
         faults' = faults \/ faults' = faults + 1,
         \A x \in seals' : Lost(x)' => (x \in seals /\ Lost(x)) \/ (faults' = faults + 1 /\ x = z)
  PROVE  Ledger'
<1>1. faults \in Nat /\ faults' \in Nat
  BY DEF Ledger, FewLost
<1>2. \A x \in seals' : Lost(x)' => faults' # 0
  BY <1>1 DEF Ledger, FewLost
<1>3. ASSUME faults' <= 1, NEW x \in seals', NEW y \in seals', Lost(x)', Lost(y)'
      PROVE  x = y
  <2>1. CASE faults' = faults
    <3>1. faults # faults + 1
      BY <1>1
    <3>2. x \in seals /\ Lost(x) /\ y \in seals /\ Lost(y)
      BY <1>3, <2>1, <3>1
    <3> QED
      BY <1>3, <2>1, <3>2 DEF Ledger, FewLost
  <2>2. CASE faults' = faults + 1
    <3>1. faults = 0
      BY <1>1, <1>3, <2>2
    <3>2. \A u \in seals : ~Lost(u)
      BY <3>1 DEF Ledger, FewLost
    <3> QED
      BY <1>3, <3>2
  <2> QED
    BY <2>1, <2>2
<1>4. FewLost'
  BY <1>1, <1>2, <1>3 DEF FewLost
<1> QED
  BY <1>4 DEF Ledger

\* Steps that neither sign nor record.
LEMMA LedgerStays ==
  ASSUME IInv, Ledger, UNCHANGED <<ends, seals, cache>>, Extends(branch, branch'),
         faults' = faults \/ faults' = faults + 1,
         \A d \in Sides : side[d].st = "SEALED" \/ side'[d].st = "SEALED" => side'[d] = side[d]
  PROVE  Ledger'
<1>1. \A d \in Sides : Owner(d[1])' = Owner(d[1])
  BY DEF Owner
<1>2. SealedOK'
  <2>1. \A d \in Sides : side'[d].st = "SEALED" =>
          <<Owner(d[1])', side'[d].pend>> \in seals' /\ side'[d].out = <<>>
    BY <1>1 DEF Ledger, SealedOK
  <2>2. \A d, e \in Sides :
          d[1] = e[1] /\ side'[d].st = "SEALED" /\ side'[e].st = "SEALED" => d = e
    BY DEF Ledger, SealedOK
  <2> QED
    BY <2>1, <2>2 DEF SealedOK
<1>3. CachesOK'
  BY DEF Ledger, CachesOK
<1>4. ASSUME NEW x \in seals', Lost(x)'
      PROVE  x \in seals /\ Lost(x)
  <2>1. \A d \in Sides : Holds(d, x) => side'[d].st = "SEALED" /\ side'[d].pend = side[d].pend
    BY DEF Holds
  <2> QED
    BY <1>4, <2>1, NotLost
<1> QED
  BY <1>2, <1>3, <1>4, LedgerFrame

\* Only a dialogue that is not about to fill the cache is given up.
LEMMA GiveUpLedger ==
  ASSUME IInv, Ledger, NEW d \in Sides, side[d].out # <<>>, GiveUp(d),
         UNCHANGED <<ends, seals, cache, branch>>, faults' = faults \/ faults' = faults + 1
  PROVE  Ledger'
<1>1. PICK st \in {"off", "null"} : side' = [side EXCEPT ![d] = Over(st)]
  BY DEF GiveUp
<1>2. Over(st).st = st /\ Shapes
  BY DEF Over, Blank, IInv
<1>3. side[d].st # "SEALED"
  BY DEF Ledger, SealedOK
<1>4. \A e \in Sides : e # d => side'[e] = side[e]
  BY <1>1, <1>2 DEF Shapes
<1>5. side'[d].st # "SEALED"
  BY <1>1, <1>2 DEF Shapes
<1> QED
  BY <1>3, <1>4, <1>5, LedgerStays, SameBranch

LEMMA SendsLedger ==
  ASSUME IInv, Ledger, NEW d \in Sides, Queued(d) \/ Refused(d) \/ SendLost(d)
  PROVE  Ledger'
<1>1. CASE Queued(d)
  <2>1. /\ UNCHANGED <<ends, seals, cache, branch, faults>> /\ side[d].out # <<>> /\ Shapes
        /\ side' = [side EXCEPT ![d].out = Tail(@), ![d].seq = @ + 1]
    BY <1>1 DEF Queued, world, disk, Undisturbed, IInv
  <2>2. side[d].st # "SEALED"
    BY <2>1 DEF Ledger, SealedOK
  <2>3. \A e \in Sides : e # d => side'[e] = side[e]
    BY <2>1 DEF Shapes
  <2>4. side'[d].st = side[d].st
    <3>1. HasFields(side[d])
      BY DEF IInv, DialoguesOK, DialogueOK
    <3>2. side'[d] = [side[d] EXCEPT !.out = Tail(@), !.seq = @ + 1]
      BY <2>1 DEF Shapes
    <3> QED
      BY <3>1, <3>2 DEF HasFields
  <2> QED
    BY <2>1, <2>2, <2>3, <2>4, LedgerStays, SameBranch
<1>2. CASE Refused(d)
  BY <1>2, GiveUpLedger DEF Refused, world, disk
<1>3. CASE SendLost(d)
  BY <1>3, GiveUpLedger DEF SendLost, Fault, world, disk
<1> QED
  BY <1>1, <1>2, <1>3

LEMMA PollsLedger ==
  ASSUME IInv, Ledger, NEW c \in Proc, Poll(c) \/ PollLost(c)
  PROVE  Ledger'
<1>1. /\ UNCHANGED <<ends, seals, cache, branch>> /\ Drain(c)
      /\ faults' = faults \/ faults' = faults + 1
  BY DEF Poll, PollLost, world, disk, Undisturbed, Fault
<1>2. \A d \in Sides : side'[d] = side[d]
                       \/ (side[d].st \in {"DONE", "FAILED", "null"} /\ side'[d] = Blank)
  BY <1>1 DEF Drain, Swept
<1>3. Blank.st = "none"
  BY DEF Blank
<1> QED
  BY <1>1, <1>2, <1>3, LedgerStays, SameBranch

LEMMA BeginLedger ==
  ASSUME IInv, Talk, Ledger, NEW s \in Session, Begin(s)
  PROVE  Ledger'
<1> DEFINE d == <<Run(s), s>>
           m == TipMessage("OFFER", ends[s][1], Len(branch[ends[s][1]]), SnapshotFor(ends[s][1]))
           v == [Blank EXCEPT !.st = "WAIT_ACCEPT", !.peer = ends[s][2], !.at = clock[ends[s][1]],
                              !.mine = Len(branch[ends[s][1]]), !.mineSnap = SnapshotFor(ends[s][1]),
                              !.out = <<m>>]
<1>1. UNCHANGED <<ends, seals, cache, branch, faults>> /\ s \notin begun
  BY DEF Begin, world, disk
<1>2. d \in Sides /\ d[2] = s /\ Shapes
  BY DEF Sides, IInv
<1>3. side[d].st = "none"
  BY <1>1, <1>2 DEF Talk, SilentTrue
<1>4. v.st = "WAIT_ACCEPT" /\ Over("FAILED").st = "FAILED"
  BY DEF Blank, Over
<1>5. side' = [side EXCEPT ![d] = v] \/ side' = [side EXCEPT ![d] = Over("FAILED")]
  BY DEF Begin
<1> HIDE DEF d, v, m
<1>6. side'[d].st # "SEALED" /\ \A e \in Sides : e # d => side'[e] = side[e]
  BY <1>2, <1>4, <1>5 DEF Shapes
<1> QED
  BY <1>1, <1>3, <1>6, LedgerStays, SameBranch

LEMMA TimeoutLedger ==
  ASSUME IInv, Ledger, NEW s \in Session, Timeout(s)
  PROVE  Ledger'
<1> DEFINE d == <<Run(s), s>>
<1>1. /\ UNCHANGED <<ends, seals, cache, branch, faults>> /\ ~Busy(Run(s))
      /\ side' = [side EXCEPT ![d] = Over("off")]
  BY DEF Timeout, world, disk
<1>2. d \in Sides /\ d[1] = Run(s) /\ Shapes
  BY DEF Sides, IInv
<1>3. side[d].st # "SEALED"
  BY <1>1, <1>2 DEF Busy, Midway
<1>4. Over("off").st = "off"
  BY DEF Blank, Over
<1> HIDE DEF d
<1>5. side'[d].st # "SEALED" /\ \A e \in Sides : e # d => side'[e] = side[e]
  BY <1>1, <1>2, <1>4 DEF Shapes
<1> QED
  BY <1>1, <1>3, <1>5, LedgerStays, SameBranch

LEMMA SnapLedger ==
  ASSUME IInv, Ledger, NEW d \in Sides, Snap(d)
  PROVE  Ledger'
<1>1. /\ UNCHANGED <<ends, seals, cache, branch, faults>> /\ side[d].st = "SNAP" /\ Shapes
      /\ side' = [side EXCEPT ![d].st = "WAIT_DRAFT", ![d].out = Proposal(d)]
  BY DEF Snap, world, Undisturbed, IInv
<1>2. side'[d].st = "WAIT_DRAFT"
  <2>1. HasFields(side[d])
    BY DEF IInv, DialoguesOK, DialogueOK
  <2>2. side'[d] = [side[d] EXCEPT !.st = "WAIT_DRAFT", !.out = Proposal(d)]
    BY <1>1 DEF Shapes
  <2> QED
    BY <2>1, <2>2 DEF HasFields
<1>3. \A e \in Sides : e # d => side'[e] = side[e]
  BY <1>1 DEF Shapes
<1> QED
  BY <1>1, <1>2, <1>3, LedgerStays, SameBranch

LEMMA GrowsLedger ==
  ASSUME IInv, Ledger, NEW p \in Party, Expire(p) \/ Grow(p)
  PROVE  Ledger'
<1>1. /\ UNCHANGED <<ends, seals, cache, side>> /\ Shapes
      /\ branch' = branch \/ branch' = [branch EXCEPT ![p] = Append(@, DataBlock(clock[p]))]
      /\ faults' = faults \/ faults' = faults + 1
  BY DEF Expire, Grow, world, disk, Fault, IInv
<1>2. Extends(branch, branch')
  BY <1>1, SameBranch, GrownBranch
<1> QED
  BY <1>1, <1>2, LedgerStays


\* A process that dies holds one half at most that it has not recorded.
LEMMA DiesLedger ==
  ASSUME IInv, Ledger, NEW c \in Proc, Crash(c) \/ ReadDropped(c)
  PROVE  Ledger'
<1>1. UNCHANGED <<ends, seals, cache, branch>> /\ Die(c)
  BY DEF Crash, ReadDropped, world, disk
<1>2. \A e \in Sides : /\ e[1] # c => side'[e] = side[e]
                       /\ e[1] = c => side'[e].st # "SEALED"
  <2>1. Over("off").st = "off" /\ Blank.st = "none"
    BY DEF Over, Blank
  <2> QED
    BY <1>1, <2>1 DEF Die
<1>3. CASE ReadDropped(c)
  <2>1. faults' = faults /\ ~Busy(c)
    BY <1>3 DEF ReadDropped, Undisturbed
  <2>2. \A e \in Sides : e[1] = c => side[e].st # "SEALED"
    BY <2>1 DEF Busy, Midway
  <2> QED
    BY <1>1, <1>2, <2>1, <2>2, LedgerStays, SameBranch
<1>4. CASE Crash(c)
  <2>1. faults' = faults + 1
    BY <1>4 DEF Crash, Fault
  <2>2. SealedOK' /\ CachesOK'
    <3>1. \A d \in Sides : Owner(d[1])' = Owner(d[1])
      BY <1>1 DEF Owner
    <3>2. \A d \in Sides : side'[d].st = "SEALED" => side'[d] = side[d]
      BY <1>2
    <3> QED
      BY <1>1, <3>1, <3>2 DEF Ledger, SealedOK, CachesOK
  <2>3. PICK z : \A d \in Sides : d[1] = c /\ side[d].st = "SEALED" => z = <<Owner(d[1]), side[d].pend>>
    BY DEF Ledger, SealedOK
  <2>4. ASSUME NEW x \in seals', Lost(x)', x # z
        PROVE  x \in seals /\ Lost(x)
    <3>1. \A d \in Sides : Holds(d, x) => side'[d].st = "SEALED" /\ side'[d].pend = side[d].pend
      BY <1>2, <2>3, <2>4 DEF Holds
    <3> QED
      BY <1>1, <2>4, <3>1, NotLost, SameBranch
  <2> QED
    BY <2>1, <2>2, <2>4, LedgerFrame
<1> QED
  BY <1>3, <1>4

\* A cache takes in what a side recorded.
LEMMA CacheGrows ==
  ASSUME Ledger, NEW p \in Party, NEW v,
         cache' = cache \/ cache' = [cache EXCEPT ![p] = @ \cup Recorded(p, v)]
  PROVE  /\ CachesOK'
         /\ \A q \in Party : cache[q] \subseteq cache'[q]
         /\ cache' # cache => Recorded(p, v) \subseteq cache'[p]
<1>1. cache = [q \in Party |-> cache[q]] /\ \A q \in Party : IsFiniteSet(cache[q])
  BY DEF Ledger, CachesOK
<1>2. cache' = [q \in Party |-> cache'[q]]
  BY <1>1
<1>3. \A q \in Party : cache'[q] = cache[q] \/ (q = p /\ cache'[q] = cache[q] \cup Recorded(p, v))
  BY <1>1
<1>4. \A q \in Party : IsFiniteSet(cache'[q])
  <2>1. \A q \in Party : IsFiniteSet(cache[q] \cup Recorded(p, v))
    BY <1>1, RecordedFinite, FS_Union
  <2> QED
    BY <1>1, <1>3, <2>1
<1>5. cache' # cache => Recorded(p, v) \subseteq cache'[p]
  BY <1>1
<1> QED
  BY <1>2, <1>3, <1>4, <1>5 DEF CachesOK

\* Who is signed records what his half brings in, or a fault keeps him from it.
LEMMA FillCacheLedger ==
  ASSUME IInv, Talk, Ledger, NEW d \in Sides, FillCache(d)
  PROVE  Ledger'
<1> DEFINE p == Owner(d[1])
           v == side[d]
           w == [Over("DONE") EXCEPT !.mine = v.mine, !.pend = v.pend]
<1>1. /\ UNCHANGED <<ends, seals, branch>> /\ v.st = "SEALED" /\ Shapes
      /\ side' = [side EXCEPT ![d] = w]
      /\ \/ cache' = [cache EXCEPT ![p] = @ \cup Recorded(p, v)] /\ faults' = faults
         \/ cache' = cache /\ faults' = faults + 1
  BY DEF FillCache, world, Undisturbed, Fault, IInv
<1>2. w.st = "DONE"
  BY DEF Over, Blank
<1>3. p \in Party
  BY <1>1, SidesAre
<1>4. RecordOf(branch, p, v.pend) \subseteq Recorded(p, v)
  BY <1>1, SideCovers
<1> HIDE DEF w, v
<1>5. side'[d].st = "DONE" /\ \A e \in Sides : e # d => side'[e] = side[e]
  BY <1>1, <1>2 DEF Shapes
<1>6. /\ CachesOK' /\ \A q \in Party : cache[q] \subseteq cache'[q]
      /\ cache' # cache => Recorded(p, v) \subseteq cache'[p]
  BY <1>1, <1>3, CacheGrows
<1>7. SealedOK'
  <2>1. \A e \in Sides : Owner(e[1])' = Owner(e[1])
    BY <1>1 DEF Owner
  <2>2. \A e \in Sides : side'[e].st = "SEALED" => side'[e] = side[e]
    BY <1>5
  <2> QED
    BY <1>1, <2>1, <2>2 DEF Ledger, SealedOK
<1>8. faults' = faults + 1 \/ Recorded(p, v) \subseteq cache'[p]
  <2>1. CASE cache' = [cache EXCEPT ![p] = @ \cup Recorded(p, v)]
    BY <1>3, <2>1 DEF Ledger, CachesOK
  <2> QED
    BY <1>1, <2>1
<1>9. ASSUME NEW x \in seals', Lost(x)'
      PROVE  (x \in seals /\ Lost(x)) \/ (faults' = faults + 1 /\ x = <<p, v.pend>>)
  <2> SUFFICES ASSUME faults' # faults + 1 \/ x # <<p, v.pend>>
               PROVE  x \in seals /\ Lost(x)
    OBVIOUS
  <2>1. x \in seals /\ x[1] \in Party
    BY <1>1, <1>9, RecordStays, SameBranch
  <2>2. \A e \in Sides : Holds(e, x) =>
          (side'[e].st = "SEALED" /\ side'[e].pend = side[e].pend)
            \/ RecordOf(branch, x[1], x[2]) \subseteq cache'[x[1]]
    <3> SUFFICES ASSUME NEW e \in Sides, Holds(e, x)
                 PROVE  (side'[e].st = "SEALED" /\ side'[e].pend = side[e].pend)
                          \/ RecordOf(branch, x[1], x[2]) \subseteq cache'[x[1]]
      OBVIOUS
    <3>1. CASE e # d
      BY <1>5, <3>1 DEF Holds
    <3>2. CASE e = d
      <4>1. x = <<p, v.pend>>
        BY <3>2 DEF Holds, v
      <4>2. x[1] = p /\ x[2] = v.pend
        BY <4>1
      <4> QED
        BY <1>4, <1>8, <4>1, <4>2
    <3> QED
      BY <3>1, <3>2
  <2> QED
    BY <1>1, <1>6, <1>9, <2>1, <2>2, NotLost, SameBranch
<1> QED
  BY <1>1, <1>6, <1>7, <1>9, LedgerFrame

\* Who gets the signature holds it until the cache is filled.
LEMMA ReadLedger ==
  ASSUME IInv, Talk, Ledger, NEW c \in Proc, Read(c), UNCHANGED hand
  PROVE  Ledger'
<1>0. PICK l : l = Head(todo[c])
  OBVIOUS
<1> DEFINE d == <<c, l.s>>
           w == Answer(d, l)
           p == Owner(c)
<1>1. /\ UNCHANGED <<ends, begun, stored, cache, box, slip, papers, faults>>
      /\ Alive(c) /\ ~Busy(c) /\ todo[c] # <<>> /\ todo' = [todo EXCEPT ![c] = Tail(@)]
      /\ Within(Tail(todo[c]), todo[c])
      /\ ReadStep(c, l, w)
      /\ LetterOK(branch, ends, Owner(c), l)
      /\ Mail(l.s, l.from, l.msg) /\ l.s \in begun /\ l.s \in Session /\ l.from \in Party
  BY <1>0, ReadSteps
<1>2. Shapes /\ d[1] = c /\ d[2] = l.s /\ p \in Party
  BY OwnersAre DEF IInv
<1>3. \A e \in Sides : e[1] = c => side[e].st \notin Midway /\ side[e].out = <<>>
  BY <1>1 DEF Busy
<1>4. CASE d \notin Sides
  <2>1. side' = side /\ branch' = branch /\ seals' = seals
    BY <1>1, <1>4 DEF ReadStep
  <2> QED
    BY <1>1, <2>1, LedgerStays, SameBranch
<1>5. CASE d \in Sides
  <2>1. /\ side' = [side EXCEPT ![d] = w]
        /\ branch' = branch \/ branch' = [branch EXCEPT ![p] = Append(@, DraftOf(p, w))]
        /\ seals' = IF w.st = "SEALED" THEN seals \cup {<<p, Opened(d, l).pend>>} ELSE seals
        /\ w.st = "SEALED" => branch' = branch
    BY <1>1, <1>5 DEF ReadStep
  <2>2. Outcome(p, side[d], Opened(d, l), l.msg, w)
    BY <1>1, <1>2, <1>3, <1>5, LetterOutcome
  <2>3. w.st = "SEALED" => /\ SameTalk(side[d], w) /\ w.out = <<>>
                           /\ side[d].st = "WAIT_COSIG" /\ Opened(d, l) = side[d]
    BY <2>2 DEF Outcome, Quiet, Cosigns, Seals, Offered, Accepted, Drafts, Midway, Opened
  <2>4. Extends(branch, branch')
    BY <1>2, <2>1, SameBranch, GrownBranch
  <2> HIDE DEF w, d
  <2>5. side'[d] = w /\ \A e \in Sides : e # d => side'[e] = side[e]
    BY <1>2, <1>5, <2>1 DEF Shapes
  <2>6. CASE w.st # "SEALED"
    <3>1. side[d].st # "SEALED"
      BY <1>2, <1>3, <1>5 DEF Midway
    <3> QED
      BY <1>1, <2>1, <2>4, <2>5, <2>6, <3>1, LedgerStays
  <2>7. CASE w.st = "SEALED"
    <3>0. PICK x0 : x0 = <<p, w.pend>>
      OBVIOUS
    <3>1. seals' = seals \cup {x0} /\ branch' = branch
      BY <2>1, <2>3, <2>7, <3>0 DEF SameTalk
    <3>2. \A e \in Sides : Owner(e[1])' = Owner(e[1])
      BY <1>1 DEF Owner
    <3>3. SealedOK'
      <4>1. \A e \in Sides : side'[e].st = "SEALED" =>
              <<Owner(e[1])', side'[e].pend>> \in seals' /\ side'[e].out = <<>>
        <5> SUFFICES ASSUME NEW e \in Sides, side'[e].st = "SEALED"
                     PROVE  <<Owner(e[1]), side'[e].pend>> \in seals' /\ side'[e].out = <<>>
          BY <3>2
        <5>1. CASE e = d
          BY <1>2, <2>3, <2>5, <2>7, <3>0, <3>1, <5>1
        <5>2. CASE e # d
          BY <2>5, <3>1, <5>2 DEF Ledger, SealedOK
        <5> QED
          BY <5>1, <5>2
      <4>2. \A e, f \in Sides :
              e[1] = f[1] /\ side'[e].st = "SEALED" /\ side'[f].st = "SEALED" => e = f
        BY <1>2, <1>3, <2>5 DEF Ledger, SealedOK, Midway
      <4> QED
        BY <4>1, <4>2 DEF SealedOK
    <3>4. CachesOK'
      BY <1>1 DEF Ledger, CachesOK
    <3>5. ~Lost(x0)'
      <4>1. side'[d].st = "SEALED" /\ <<Owner(d[1])', side'[d].pend>> = x0
        BY <1>2, <1>5, <2>5, <2>7, <3>0, <3>2
      <4> QED
        BY <1>5, <4>1 DEF Lost
    <3>6. ASSUME NEW x \in seals', Lost(x)'
          PROVE  x \in seals /\ Lost(x)
      <4>1. x \in seals
        BY <3>1, <3>5, <3>6
      <4>2. \A e \in Sides : Holds(e, x) => side'[e].st = "SEALED" /\ side'[e].pend = side[e].pend
        BY <1>2, <1>3, <1>5, <2>5 DEF Holds, Midway
      <4> QED
        BY <1>1, <2>4, <3>6, <4>1, <4>2, NotLost
    <3> QED
      BY <1>1, <3>3, <3>4, <3>6, LedgerFrame
  <2> QED
    BY <2>6, <2>7
<1> QED
  BY <1>4, <1>5


\* By hand: `finalize` records the half it seals, or a fault keeps it from that.
LEMMA FinalizeLedger ==
  ASSUME IInv, Talk, Ledger, NEW p \in Party, FinalizeByHand(p), UNCHANGED <<ends, side>>
  PROVE  Ledger'
<1>0. PICK x0 : x0 = <<p, slip[p].pend>>
  OBVIOUS
<1>1. /\ branch' = branch /\ HasSlip(p) /\ seals' = seals \cup {x0}
      /\ \/ cache' = [cache EXCEPT ![p] = @ \cup Recorded(p, slip[p])]
            /\ faults' \in {faults, faults + 1}
         \/ cache' = cache /\ faults' = faults + 1
  BY <1>0 DEF FinalizeByHand, Fault
<1>2. RecordOf(branch, p, slip[p].pend) \subseteq Recorded(p, slip[p])
  BY <1>1, SlipCovers
<1>3. CachesOK' /\ \A q \in Party : cache[q] \subseteq cache'[q]
  BY <1>1, CacheGrows
<1>4. SealedOK'
  <2>1. \A e \in Sides : Owner(e[1])' = Owner(e[1])
    BY DEF Owner
  <2> QED
    BY <1>1, <2>1 DEF Ledger, SealedOK
<1>5. faults' = faults + 1 \/ Recorded(p, slip[p]) \subseteq cache'[p]
  <2>1. CASE cache' = [cache EXCEPT ![p] = @ \cup Recorded(p, slip[p])]
    BY <2>1 DEF Ledger, CachesOK
  <2> QED
    BY <1>1, <2>1
<1>6. ASSUME Lost(x0)'
      PROVE  faults' = faults + 1
  <2>1. x0[1] = p /\ x0[2] = slip[p].pend
    BY <1>0
  <2>2. ~(RecordOf(branch', p, slip[p].pend) \subseteq cache'[p])
    BY <1>6, <2>1 DEF Lost
  <2> QED
    BY <1>1, <1>2, <1>5, <2>2
<1>7. ASSUME NEW x \in seals, Lost(x)'
      PROVE  Lost(x)
  <2>1. x[1] \in Party
    BY <1>1, RecordStays, SameBranch
  <2>2. \A d \in Sides : Holds(d, x) => side'[d].st = "SEALED" /\ side'[d].pend = side[d].pend
    BY DEF Holds
  <2> QED
    BY <1>1, <1>3, <1>7, <2>1, <2>2, NotLost, SameBranch
<1>8. \A x \in seals' : Lost(x)' => (x \in seals /\ Lost(x)) \/ (faults' = faults + 1 /\ x = x0)
  BY <1>1, <1>6, <1>7
<1> QED
  BY <1>1, <1>3, <1>4, <1>8, LedgerFrame

LEMMA HandLedger ==
  ASSUME IInv, Talk, Ledger, NEW p \in Party, ByHand(p)
  PROVE  Ledger'
<1>1. UNCHANGED <<ends, side>> /\ Shapes
  BY DEF ByHand, world, IInv
<1>2. CASE PrepareByHand(p) \/ CosignByHand(p)
  BY <1>1, <1>2, LedgerStays, SameBranch DEF PrepareByHand, CosignByHand, disk
<1>3. CASE FinalizeByHand(p)
  BY <1>1, <1>3, FinalizeLedger
<1>4. ASSUME NEW q \in Party, CreateByHand(p, q)
      PROVE  Ledger'
  <2>1. PICK m : branch' = [branch EXCEPT ![p] = Append(@, DraftOf(p, SlipOf(p, q, m)))]
    BY <1>4, CreateMade
  <2>2. Extends(branch, branch')
    BY <1>1, <2>1, GrownBranch
  <2>3. UNCHANGED <<seals, cache>> /\ (faults' = faults \/ faults' = faults + 1)
    BY <1>4 DEF CreateByHand, Fault
  <2> QED
    BY <1>1, <2>2, <2>3, LedgerStays
<1> QED
  BY <1>2, <1>3, <1>4 DEF ByHand

LEMMA NextLedger ==
  ASSUME IInv, Talk, Ledger, [Next]_vars
  PROVE  Ledger'
<1>1. CASE OverRelay /\ UNCHANGED hand
  <2>1. ASSUME NEW s \in Session, Begin(s) \/ Timeout(s)
        PROVE  Ledger'
    BY <2>1, BeginLedger, TimeoutLedger
  <2>2. ASSUME NEW c \in Proc, Poll(c) \/ Read(c) \/ PollLost(c)
        PROVE  Ledger'
    BY <1>1, <2>2, PollsLedger, ReadLedger
  <2>3. ASSUME NEW c \in Proc, ReadDropped(c) \/ Crash(c)
        PROVE  Ledger'
    BY <2>3, DiesLedger
  <2>4. ASSUME NEW d \in Sides, Queued(d) \/ Refused(d) \/ SendLost(d)
        PROVE  Ledger'
    BY <2>4, SendsLedger
  <2>5. ASSUME NEW d \in Sides, Snap(d) \/ FillCache(d)
        PROVE  Ledger'
    BY <2>5, SnapLedger, FillCacheLedger
  <2>6. ASSUME NEW p \in Party, Expire(p) \/ Grow(p)
        PROVE  Ledger'
    BY <2>6, GrowsLedger
  <2> QED
    BY <1>1, <2>1, <2>2, <2>3, <2>4, <2>5, <2>6 DEF OverRelay, Work
<1>2. ASSUME NEW p \in Party, ByHand(p)
      PROVE  Ledger'
  BY <1>2, HandLedger
<1>3. CASE UNCHANGED vars
  <2>1. UNCHANGED <<ends, seals, cache, branch, side, faults>>
    BY <1>3 DEF vars, world, disk
  <2> QED
    BY <2>1, LedgerStays, SameBranch
<1> QED
  BY <1>1, <1>2, <1>3 DEF Next

\* At first nothing is said, signed or recorded.
LEMMA InitTalks == Init => Talk /\ Ledger
<1> SUFFICES ASSUME Init PROVE Talk /\ Ledger
  OBVIOUS
<1>1. \A p \in Party : \A i \in DOMAIN branch[p] : branch[p][i].kind # "merge"
  <2> SUFFICES ASSUME NEW p \in Party PROVE \A i \in DOMAIN branch[p] : branch[p][i].kind # "merge"
    OBVIOUS
  <2>1. branch[p] = <<>> \/ branch[p] = <<DataBlock(0)>>
    BY DEF Init
  <2>2. DataBlock(0).kind # "merge"
    BY DEF DataBlock
  <2> QED
    BY <2>1, <2>2, EmptySeq, SingleSeq
<1>2. /\ side = [d \in Sides |-> Blank] /\ slip = [p \in Party |-> Blank] /\ papers = {}
      /\ box = [p \in Party |-> <<>>] /\ todo = [c \in Proc |-> <<>>] /\ seals = {}
      /\ cache = [p \in Party |-> {}] /\ faults \in 0..MaxFaults
  BY DEF Init
<1>3. Blank.st = "none" /\ Blank.out = <<>> /\ Blank.pend = 0
  BY DEF Blank
<1>4. \A s \in Session, p \in Party : \A m : ~Mail(s, p, m)
  <2>1. \A q \in Party : box[q] = <<>>
    BY <1>2
  <2>2. \A c \in Proc : todo[c] = <<>>
    BY <1>2
  <2>3. \A d \in Sides : side[d].out = <<>>
    BY <1>2, <1>3
  <2> QED
    BY <2>1, <2>2, <2>3, EmptySeq DEF Mail, InBox
<1>5. \A d \in Sides : side[d].st = "none" /\ side[d].st \notin Running /\ side[d].st # "SEALED"
  BY <1>2, <1>3 DEF Running, Drafted
<1>6. HalvesMade /\ MailTrue /\ PapersTrue
  BY <1>1, <1>2, <1>4 DEF HalvesMade, MailTrue, PapersTrue
<1>7. SidesTrue /\ SlipsTrue /\ SilentTrue
  BY <1>2, <1>3, <1>4, <1>5, EndedTrue DEF SidesTrue, SlipsTrue, SilentTrue
<1>8. SealedOK /\ FewLost
  BY <1>2, <1>5, MergeAssumption DEF SealedOK, FewLost
<1>9. CachesOK
  BY <1>2, FS_EmptySet DEF CachesOK
<1> QED
  BY <1>6, <1>7, <1>8, <1>9 DEF Talk, Ledger

\* What letters, papers and dialogues tell is so, and who has recorded his half
\* is known but for as many halves as there were faults.
THEOREM LedgerKept == Spec => [](IInv /\ Talk /\ Ledger)
<1>1. IInv /\ Talk /\ Ledger /\ [Next]_vars => Talk' /\ Ledger'
  BY NextTalks, NextLedger
<1> QED
  BY <1>1, InitTalks, Invariance, PTL DEF Spec


-----------------------------------------------------------------------------
(* From a union down to its leaves.                                        *)

\* f is what the walk of Below has reached after so many steps.
Reaches(f, m, root, known) ==
  f = [n \in 0..m |-> IF n = 0 THEN {root}
                      ELSE f[n - 1] \cup UNION {r.kids : r \in f[n - 1] \cap known}]

LEMMA ReachExists ==
  ASSUME NEW m \in Nat, NEW root, NEW known
  PROVE  \E f : Reaches(f, m, root, known)
<1> DEFINE Good == {n \in 0..m : \E f : Reaches(f, n, root, known)}
<1>1. 0 \in Good
  <2> DEFINE f == [n \in 0..0 |-> {root}]
  <2>1. Reaches(f, 0, root, known)
    BY DEF Reaches
  <2> HIDE DEF f
  <2> QED
    BY <2>1
<1>2. ASSUME NEW n \in 0..m - 1, n \in Good
      PROVE  n + 1 \in Good
  <2>1. PICK f : Reaches(f, n, root, known)
    BY <1>2
  <2> DEFINE step == f[n] \cup UNION {r.kids : r \in f[n] \cap known}
             g == [i \in 0..n + 1 |-> IF i <= n THEN f[i] ELSE step]
  <2>2. ASSUME NEW i \in 0..n + 1
        PROVE  g[i] = IF i = 0 THEN {root}
                      ELSE g[i - 1] \cup UNION {r.kids : r \in g[i - 1] \cap known}
    <3>1. CASE i \in 0..n
      <4>1. f[i] = IF i = 0 THEN {root} ELSE f[i - 1] \cup UNION {r.kids : r \in f[i - 1] \cap known}
        BY <2>1, <3>1 DEF Reaches
      <4>2. g[i] = f[i] /\ (i # 0 => g[i - 1] = f[i - 1])
        BY <3>1
      <4> QED
        BY <4>1, <4>2
    <3>2. CASE i = n + 1
      <4>1. i # 0 /\ i - 1 = n /\ g[n] = f[n] /\ g[i] = step
        BY <3>2
      <4> HIDE DEF g
      <4> QED
        BY <4>1
    <3> QED
      BY <2>2, <3>1, <3>2
  <2>3. g = [i \in 0..n + 1 |-> g[i]]
    OBVIOUS
  <2> HIDE DEF g
  <2>4. Reaches(g, n + 1, root, known)
    BY <2>2, <2>3 DEF Reaches
  <2> QED
    BY <2>4
<1>3. \A n \in 0..m : n \in Good
  <2> HIDE DEF Good
  <2>1. \A i \in 0..m - 1 : i \in Good => i + 1 \in Good
    BY <1>2
  <2> QED
    BY <1>1, <2>1, UpTo
<1>4. m \in Good
  <2> HIDE DEF Good
  <2> QED
    BY <1>3
<1> QED
  BY <1>4

LEMMA BelowIs ==
  ASSUME NEW root, NEW known, IsFiniteSet(known)
  PROVE  /\ Cardinality(known) \in Nat
         /\ \E f : Reaches(f, Cardinality(known), root, known)
                   /\ Below(root, known) = f[Cardinality(known)]
<1>1. Cardinality(known) \in Nat
  BY FS_CardinalityType
<1>2. PICK f : Reaches(f, Cardinality(known), root, known)
  BY <1>1, ReachExists
<1> DEFINE g == CHOOSE h : Reaches(h, Cardinality(known), root, known)
<1>3. Reaches(g, Cardinality(known), root, known)
  BY <1>2
<1>4. Below(root, known) = g[Cardinality(known)]
  BY DEF Below, Reaches
<1> QED
  BY <1>1, <1>3, <1>4

LEMMA ReachSteps ==
  ASSUME NEW m \in Nat, NEW root, NEW known, NEW f, Reaches(f, m, root, known)
  PROVE  /\ f[0] = {root}
         /\ \A n \in 0..m - 1 : f[n + 1] = f[n] \cup UNION {r.kids : r \in f[n] \cap known}
<1>1. f[0] = {root}
  BY DEF Reaches
<1>2. ASSUME NEW n \in 0..m - 1
      PROVE  f[n + 1] = f[n] \cup UNION {r.kids : r \in f[n] \cap known}
  <2>1. n + 1 \in 0..m /\ n + 1 # 0 /\ (n + 1) - 1 = n
    OBVIOUS
  <2> QED
    BY <2>1 DEF Reaches
<1> QED
  BY <1>1, <1>2

\* A walk that starts in a set that the content of its members does not leave
\* stays in it.
LEMMA WalkStays ==
  ASSUME NEW m \in Nat, NEW root, NEW known, NEW f, Reaches(f, m, root, known),
         NEW S, root \in S, \A r \in S : r.kids \subseteq S
  PROVE  \A n \in 0..m : f[n] \subseteq S
<1> DEFINE Good == {n \in 0..m : f[n] \subseteq S}
<1>1. 0 \in Good
  BY ReachSteps
<1>2. \A n \in 0..m - 1 : n \in Good => n + 1 \in Good
  <2> SUFFICES ASSUME NEW n \in 0..m - 1, f[n] \subseteq S PROVE f[n + 1] \subseteq S
    OBVIOUS
  <2>1. f[n + 1] = f[n] \cup UNION {r.kids : r \in f[n] \cap known}
    BY ReachSteps
  <2> QED
    BY <2>1
<1>3. \A n \in 0..m : n \in Good
  <2> HIDE DEF Good
  <2> QED
    BY <1>1, <1>2, UpTo
<1> QED
  BY <1>3

\* Who knows less reaches no more, in as many steps or more.
LEMMA WalkGrows ==
  ASSUME NEW m \in Nat, NEW k \in 0..m, NEW root, NEW known, NEW less, less \subseteq known,
         NEW f, Reaches(f, m, root, known), NEW g, Reaches(g, k, root, less)
  PROVE  g[k] \subseteq f[m]
<1>0. /\ f[0] = {root} /\ g[0] = {root}
      /\ \A n \in 0..m - 1 : f[n + 1] = f[n] \cup UNION {r.kids : r \in f[n] \cap known}
      /\ \A n \in 0..k - 1 : g[n + 1] = g[n] \cup UNION {r.kids : r \in g[n] \cap less}
  BY ReachSteps
<1>1. g[k] \subseteq f[k]
  <2> DEFINE Good == {n \in 0..k : g[n] \subseteq f[n]}
  <2>1. 0 \in Good
    BY <1>0
  <2>2. \A n \in 0..k - 1 : n \in Good => n + 1 \in Good
    <3> SUFFICES ASSUME NEW n \in 0..k - 1, g[n] \subseteq f[n] PROVE g[n + 1] \subseteq f[n + 1]
      OBVIOUS
    <3>1. /\ f[n + 1] = f[n] \cup UNION {r.kids : r \in f[n] \cap known}
          /\ g[n + 1] = g[n] \cup UNION {r.kids : r \in g[n] \cap less}
      BY <1>0
    <3> QED
      BY <3>1
  <2>3. \A n \in 0..k : n \in Good
    <3> HIDE DEF Good
    <3> QED
      BY <2>1, <2>2, UpTo
  <2> QED
    BY <2>3
<1>2. f[k] \subseteq f[m]
  <2> DEFINE Good == {i \in 0..m - k : f[k] \subseteq f[k + i]}
  <2>1. 0 \in Good
    OBVIOUS
  <2>2. \A i \in 0..(m - k) - 1 : i \in Good => i + 1 \in Good
    <3> SUFFICES ASSUME NEW i \in 0..(m - k) - 1, f[k] \subseteq f[k + i]
                 PROVE  f[k] \subseteq f[k + (i + 1)]
      OBVIOUS
    <3>1. k + i \in 0..m - 1 /\ k + (i + 1) = (k + i) + 1
      OBVIOUS
    <3>2. f[(k + i) + 1] = f[k + i] \cup UNION {r.kids : r \in f[k + i] \cap known}
      BY <1>0, <3>1
    <3> QED
      BY <3>1, <3>2
  <2>3. \A i \in 0..m - k : i \in Good
    <3>1. m - k \in Nat
      OBVIOUS
    <3> HIDE DEF Good
    <3> QED
      BY <2>1, <2>2, <3>1, UpTo
  <2>4. m - k \in Good /\ k + (m - k) = m
    <3> HIDE DEF Good
    <3> QED
      BY <2>3
  <2> QED
    BY <2>4
<1> QED
  BY <1>1, <1>2

\* Who knows a set of roots whose content is in the set can complete a cache
\* for each of them, and prove from it.
LEMMA ClosedProves ==
  ASSUME NEW known, IsFiniteSet(known), NEW S, S \subseteq known,
         \A r \in S : r.kids \subseteq S, NEW root \in S
  PROVE  Provable(root, Completed({}, known, root))
<1> DEFINE all == {} \cup known
           less == {} \cup (Below(root, all) \cap known)
<1>1. all = known /\ less = Below(root, known) \cap known
  OBVIOUS
<1>2. IsFiniteSet(less) /\ Cardinality(less) <= Cardinality(known) /\ less \subseteq known
  <2>1. less \in SUBSET known
    BY <1>1
  <2> HIDE DEF less
  <2> QED
    BY <2>1, FS_Subset
<1> DEFINE m == Cardinality(known)
           k == Cardinality(less)
<1>3. m \in Nat /\ \E f : Reaches(f, m, root, known) /\ Below(root, known) = f[m]
  BY BelowIs
<1>4. k \in Nat /\ \E g : Reaches(g, k, root, less) /\ Below(root, less) = g[k]
  BY <1>2, BelowIs
<1>5. PICK f : Reaches(f, m, root, known) /\ Below(root, known) = f[m]
  BY <1>3
<1>6. PICK g : Reaches(g, k, root, less) /\ Below(root, less) = g[k]
  BY <1>4
<1> HIDE DEF less
<1>7. f[m] \subseteq S
  <2> HIDE DEF m
  <2>1. \A n \in 0..m : f[n] \subseteq S
    BY <1>3, <1>5, WalkStays
  <2> QED
    BY <1>3, <2>1
<1>8. g[k] \subseteq f[m]
  <2> HIDE DEF m, k
  <2>1. k \in 0..m
    BY <1>2, <1>3, <1>4 DEF m, k
  <2> QED
    BY <1>2, <1>3, <1>5, <1>6, <2>1, WalkGrows
<1>9. Below(root, less) \subseteq less
  BY <1>1, <1>5, <1>6, <1>7, <1>8
<1> QED
  BY <1>9 DEF Provable, Completed, less


-----------------------------------------------------------------------------
(* Every union can be shown.                                               *)

LEMMA PublishedFinite ==
  ASSUME CachesOK
  PROVE  IsFiniteSet(Published)
<1> DEFINE T == {cache[p] : p \in Party}
           f == [p \in Party |-> cache[p]]
<1>1. f \in Surjection(Party, T)
  BY DEF Surjection
<1>2. IsFiniteSet(T)
  <2> HIDE DEF f, T
  <2> QED
    BY <1>1, MergeAssumption, FS_Surjection
<1>3. \A t \in T : IsFiniteSet(t)
  BY DEF CachesOK
<1> HIDE DEF T
<1>4. IsFiniteSet(UNION T)
  BY <1>2, <1>3, FS_UNION
<1> QED
  BY <1>4 DEF T, Published

\* The two halves of a merge bring the same into the caches.
LEMMA TwinsRecordOne ==
  ASSUME NEW p, NEW i, NEW q, NEW j, Twins(branch, p, i, q, j)
  PROVE  RecordOf(branch, p, i) = RecordOf(branch, q, j)
<1>1. NewLeaves(p, i, branch[p][i].takes) = NewLeaves(q, j, branch[q][j].takes)
  BY DEF NewLeaves, Twins
<1> QED
  BY <1>1 DEF RecordOf, Twins

\* What one owner could not record his partner has recorded, when a fault kept
\* one of them from it and no more.
LEMMA RecordedByOne ==
  ASSUME IInv, Ledger, faults <= 1,
         \A h \in Halves : h.at \in seals, \A d \in Sides : side[d].st # "SEALED",
         NEW p \in Party, NEW i \in DOMAIN branch[p], branch[p][i].kind = "merge"
  PROVE  RecordOf(branch, p, i) \subseteq Published
<1>1. ASSUME NEW q \in Party, NEW j \in DOMAIN branch[q], branch[q][j].kind = "merge"
      PROVE  <<q, j>> \in seals
  <2>1. HalfOf(branch, q, j) \in Halves
    BY <1>1, HalvesAre DEF IsHalf
  <2>2. HalfOf(branch, q, j).at = <<q, j>>
    BY HalfFields
  <2>3. HalfOf(branch, q, j).at \in seals
    BY <2>1
  <2> QED
    BY <2>2, <2>3
<1>2. ASSUME NEW q \in Party, NEW j, ~Lost(<<q, j>>)
      PROVE  RecordOf(branch, q, j) \subseteq Published
  <2>1. RecordOf(branch, q, j) \subseteq cache[q]
    BY <1>2 DEF Lost
  <2> QED
    BY <2>1 DEF Published
<1>3. Answered(branch, p, i)
  BY <1>1 DEF IInv, SealsOK
<1>4. PICK q \in Party : \E j \in DOMAIN branch[q] : Twins(branch, p, i, q, j)
  BY <1>3 DEF Answered
<1>5. PICK j \in DOMAIN branch[q] : Twins(branch, p, i, q, j)
  BY <1>4
<1>6. <<p, i>> \in seals /\ <<q, j>> \in seals /\ <<p, i>> # <<q, j>>
  BY <1>1, <1>5 DEF Twins, Half
<1>7. ~Lost(<<p, i>>) \/ ~Lost(<<q, j>>)
  BY <1>6 DEF Ledger, FewLost
<1> QED
  BY <1>2, <1>5, <1>7, TwinsRecordOne

LEMMA TalkProves ==
  ASSUME IInv, Talk, Ledger
  PROVE  UnionsAreProvable
<1> SUFFICES ASSUME faults <= 1, \A h \in Halves : h.at \in seals,
                    \A d \in Sides : side[d].st # "SEALED", NEW h \in Halves
             PROVE  Provable(h.union, Completed({}, Published, h.union))
  BY DEF UnionsAreProvable
<1> DEFINE InRecord(r) == \E p \in Party : \E i \in DOMAIN branch[p] :
                            branch[p][i].kind = "merge" /\ r \in RecordOf(branch, p, i)
           S == {r \in Published : InRecord(r)}
<1>1. \A r : InRecord(r) => r \in S
  BY RecordedByOne
<1>2. ASSUME NEW r, IsUnion(branch, r)
      PROVE  InRecord(r)
  BY <1>2 DEF IsUnion, RecordOf
<1>3. ASSUME NEW r, InRecord(r), NEW k \in r.kids
      PROVE  InRecord(k)
  <2>1. PICK p \in Party : \E i \in DOMAIN branch[p] :
               branch[p][i].kind = "merge" /\ r \in RecordOf(branch, p, i)
    BY <1>3
  <2>2. PICK i \in DOMAIN branch[p] :
               branch[p][i].kind = "merge" /\ r \in RecordOf(branch, p, i)
    BY <2>1
  <2>3. CASE r = branch[p][i].union
    <3>1. k \in NewLeaves(p, i, branch[p][i].takes) \/ IsUnion(branch, k)
      BY <1>3, <2>2, <2>3 DEF Talk, HalvesMade, Made
    <3>2. k \in NewLeaves(p, i, branch[p][i].takes) => k \in RecordOf(branch, p, i)
      BY <1>3, <2>3 DEF RecordOf
    <3> QED
      BY <1>2, <2>2, <3>1, <3>2
  <2>4. CASE r \in NewLeaves(p, i, branch[p][i].takes)
    BY <1>3, <2>4 DEF NewLeaves, Leaf
  <2> QED
    BY <2>2, <2>3, <2>4 DEF RecordOf
<1>4. h.union \in S
  <2>1. IsUnion(branch, h.union)
    <3>1. IsHalf(branch, h)
      BY HalvesAre
    <3> QED
      BY <3>1, HalfFields DEF IsHalf, IsUnion
  <2> HIDE DEF S, InRecord
  <2> QED
    BY <1>1, <1>2, <2>1
<1>5. S \subseteq Published /\ \A r \in S : r.kids \subseteq S
  <2>1. \A r \in S : InRecord(r)
    OBVIOUS
  <2>2. S \subseteq Published
    OBVIOUS
  <2> HIDE DEF S, InRecord
  <2> QED
    BY <1>1, <1>3, <2>1, <2>2
<1>6. IsFiniteSet(Published)
  BY PublishedFinite DEF Ledger
<1> HIDE DEF S
<1> QED
  BY <1>4, <1>5, <1>6, ClosedProves

\* Once every half is signed and no one is between his signature and his cache,
\* whoever completes a cache from what the owners publish can show every leaf
\* under every union, for any number of merges, over the relay or by hand: each
\* side writes only its first leaf and the union (record_merge), and one owner
\* who could not (fill_cache is "best-effort") is made up for by his partner.
THEOREM UnionsProvable == Spec => []UnionsAreProvable
<1>1. IInv /\ Talk /\ Ledger => UnionsAreProvable
  BY TalkProves
<1> QED
  BY <1>1, LedgerKept, PTL

=============================================================================
