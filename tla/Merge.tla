------------------------------- MODULE Merge -------------------------------
(***************************************************************************)
(* Two owners merge their branches over the relay of an aggregator:        *)
(* `bc merge run` (the initiator) and `bc merge serve` (the responder),    *)
(* MergeDialogue and MergeSession behind them, DialoguePump and the relay  *)
(* mailboxes between them; or by hand, `bc merge prepare`, `create`,       *)
(* `cosign` and `finalize`, passing each other what these print.  Letters  *)
(* are lost, mailboxes fill, processes die between two writes to the disk, *)
(* clocks differ, the branch grows under a dialogue, and two processes of  *)
(* one owner share one mailbox.                                            *)
(*                                                                         *)
(* A block is its place in its branch: branches only grow, so hashes and   *)
(* places agree.  The root of a snapshot is the tree it is the hash of.    *)
(***************************************************************************)
EXTENDS Integers, Sequences, FiniteSets

CONSTANTS
  Party,     \* owners, each with one branch
  Session,   \* runs of `bc merge run`, each with a session id of its own
  Times,     \* clock readings
  Slack,     \* kClockSlack
  Cap,       \* kMailboxCap
  MaxFaults, \* bound: losses and crashes in all
  MaxGrow,   \* bound: blocks appended by other commands
  MaxByHand  \* bound: drafts made by hand

ASSUME MergeAssumption ==
  /\ IsFiniteSet(Party) /\ IsFiniteSet(Session)
  /\ Times \subseteq Int
  /\ Slack \in Nat /\ Cap \in Nat 
  /\ MaxFaults \in Nat /\ MaxGrow \in Nat /\ MaxByHand \in Nat

VARIABLES
  ends,    \* who merges with whom in a session: <<initiator, responder>>
  serves,  \* owners who run `bc merge serve`
  clock,   \* an owner's clock
  key,     \* the key an owner signs with: the one in its node, or a rotated one
  branch,  \* an owner's branch on its disk
  stored,  \* the snapshot stored for the branch
  seals,   \* places of own halves with the partner's signature on the disk
  cache,   \* an owner's participant cache: roots whose content it can show
  box,     \* mailboxes of the relay
  todo,    \* letters a process has fetched and not read yet
  side,    \* dialogues of a process, by session
  begun,   \* sessions begun
  slip,    \* the state file of a merge by hand
  papers,  \* what merges by hand have printed, and by whom
  calm,    \* history: sessions nothing outside the protocol disturbed
  faults, grown, byHand  \* bounds used up

world == <<ends, serves, clock, key>>
disk  == <<branch, stored, seals, cache>>
hand  == <<slip, papers, byHand>>
vars  == <<world, disk, hand, box, todo, side, begun, calm, faults, grown>>

-----------------------------------------------------------------------------
(* Data.                                                                   *)

Leaf(at)   == [leaf |-> {at}, kids |-> {}]
Join(r, q) == [leaf |-> {}, kids |-> {r, q}]   \* the same in either order
NoRoot     == [leaf |-> {}, kids |-> {}]

DataBlock(t) == [kind |-> "data", time |-> t, takes |-> <<>>, union |-> NoRoot]

Run(s)   == <<"run", s>>
Serve(p) == <<"serve", p>>
Proc     == {Run(s) : s \in Session} \cup {Serve(p) : p \in Party}
Owner(c) == IF c[1] = "run" THEN ends[c[2]][1] ELSE c[2]

\* The dialogues a process can hold: a run its own, a server any.
Sides == {<<Run(s), s>> : s \in Session} \cup ({Serve(p) : p \in Party} \X Session)

Blank == [st |-> "none", peer |-> "none", out |-> <<>>, seq |-> 0, nextIn |-> 0,
          at |-> 0, mine |-> 0, mineSnap |-> NoRoot,
          his |-> 0, hisSnap |-> NoRoot, pend |-> 0]

\* A dialogue that ended holds nothing any more.
Over(st) == [Blank EXCEPT !.st = st]

Waiting == {"WAIT_ACCEPT", "WAIT_DRAFT", "WAIT_COSIG"}
Midway  == {"SNAP", "SEALED"}   \* between two writes to the disk
Ended   == {"DONE", "FAILED", "off"}

-----------------------------------------------------------------------------
(* MergeSession.                                                           *)

TipTime(p, i) == IF i = 0 THEN 0 ELSE branch[p][i].time

\* snapshot_for: the stored one, or one leaf over the tip.
SnapshotFor(p) ==
  IF stored[p] # NoRoot THEN stored[p] ELSE Leaf(<<p, Len(branch[p])>>)

HasSnapshot(p) == stored[p] # NoRoot \/ Len(branch[p]) > 0

\* check_partner_time: no merging with a tip from the future.
TipIsNow(time, now) == time <= now + Slack

\* Mutant: the draft may stand anywhere on the partner's branch.
DraftOKAnywhere(p, v, m) ==
  /\ m.block.takes = <<p, v.mine>>
  /\ m.block.time - v.at \in (-Slack)..Slack
  /\ m.block.union = branch[p][v.pend].union

\* check_partner_draft: the block right after the partner's tip, taking our
\* tip, dated now by our clock, over the union our own draft commits to.
DraftOK(p, v, m) ==
  /\ m.at = <<v.peer, v.his + 1>>
  /\ m.block.takes = <<p, v.mine>>
  /\ m.block.time - v.at \in (-Slack)..Slack
  /\ m.block.union = branch[p][v.pend].union

\* finalize: the signature is on our draft, by the key in the partner's node.
CosigOK(p, v, m) == m.of = <<p, v.pend>> /\ m.key = "node"

-----------------------------------------------------------------------------
(* A process works on one letter at a time.                                *)

Busy(c) ==
  \E d \in Sides : d[1] = c /\ (side[d].out # <<>> \/ side[d].st \in Midway)

Alive(c) == IF c[1] = "run" THEN side[<<c, c[2]>>].st \in Waiting \cup Midway ELSE c[2] \in serves

Fault == faults < MaxFaults /\ faults' = faults + 1

\* Something outside the protocol got in the way of every open session.
Disturb == calm' = {}

Undisturbed == UNCHANGED <<calm, faults>>

\* The process gives the dialogue up: a run exits, a server forgets it at the
\* end of the batch and holds a null pointer until then.
GiveUp(d) ==
  IF d[1][1] = "run"
  THEN /\ side' = [side EXCEPT ![d] = Over("off")]
       /\ todo' = [todo EXCEPT ![d[1]] = <<>>]
  ELSE /\ side' = [side EXCEPT ![d] = Over("null")]
       /\ UNCHANGED todo

\* The process dies; a server comes back with no dialogues.
Die(c) ==
  /\ side' = [d \in Sides |->
       IF d[1] # c THEN side[d]
       ELSE IF c[1] = "run" THEN Over("off") ELSE Blank]
  /\ todo' = [todo EXCEPT ![c] = <<>>]

-----------------------------------------------------------------------------
(* cmd_merge_run, MergeDialogue::start.                                    *)

\* encode_tip_snapshot: the tip and the snapshot a dialogue captured.
TipMessage(t, p, i, snap) == [t |-> t, tip |-> i, time |-> TipTime(p, i), snap |-> snap]

CanBeCalm(s) ==
  LET p == ends[s][1]  q == ends[s][2] IN
  /\ q \in serves /\ p \notin serves
  /\ \A r \in begun : ~Alive(Run(r))
  /\ clock[p] - clock[q] \in (-Slack)..Slack
  /\ key[p] = "node" /\ key[q] = "node"
  /\ Len(branch[p]) > 0 /\ Len(branch[q]) > 0

Begin(s) ==
  LET p == ends[s][1] IN
  /\ s \notin begun
  /\ begun' = begun \cup {s}
  /\ calm' = IF CanBeCalm(s) THEN {s} ELSE {}
  /\ side' = [side EXCEPT ![<<Run(s), s>>] =
       IF HasSnapshot(p)
       THEN [Blank EXCEPT !.st = "WAIT_ACCEPT", !.peer = ends[s][2], !.at = clock[p],
                          !.mine = Len(branch[p]), !.mineSnap = SnapshotFor(p),
                          !.out = <<TipMessage("OFFER", p, Len(branch[p]), SnapshotFor(p))>>]
       ELSE Over("FAILED")]
  /\ UNCHANGED <<world, disk, box, todo, faults, grown>>

-----------------------------------------------------------------------------
(* DialoguePump::ship, HttpDialogueChannel::send, POST /dialogue/:uid.     *)

Letter(d) == [s |-> d[2], from |-> Owner(d[1]), seq |-> side[d].seq, msg |-> Head(side[d].out)]

Queued(d) ==
  /\ side[d].out # <<>>
  /\ Len(box[side[d].peer]) < Cap
  /\ box' = [box EXCEPT ![side[d].peer] = Append(@, Letter(d))]
  /\ side' = [side EXCEPT ![d].out = Tail(@), ![d].seq = @ + 1]
  /\ Undisturbed
  /\ UNCHANGED <<world, disk, todo, begun, grown>>

\* 429: the mailbox is full, and the sender learns it.
Refused(d) ==
  /\ side[d].out # <<>>
  /\ Len(box[side[d].peer]) >= Cap
  /\ GiveUp(d)
  /\ Disturb
  /\ UNCHANGED <<world, disk, box, begun, faults, grown>>

\* No answer to the POST: the letter may have been queued all the same.
SendLost(d) ==
  /\ side[d].out # <<>>
  /\ Fault /\ Disturb
  /\ GiveUp(d)
  /\ \/ UNCHANGED box
     \/ Len(box[side[d].peer]) < Cap
        /\ box' = [box EXCEPT ![side[d].peer] = Append(@, Letter(d))]
  /\ UNCHANGED <<world, disk, begun, grown>>

-----------------------------------------------------------------------------
(* GET /dialogue/:uid/inbox: the mailbox is emptied before the answer goes *)
(* out.  A server first erases the dialogues that ended in the last batch. *)

Swept(c) ==
  [d \in Sides |-> IF d[1] = c /\ c[1] = "serve" /\ side[d].st \in {"DONE", "FAILED", "null"}
                   THEN Blank ELSE side[d]]

Drain(c) ==
  /\ Alive(c) /\ ~Busy(c) /\ todo[c] = <<>>
  /\ box[Owner(c)] # <<>>
  /\ box' = [box EXCEPT ![Owner(c)] = <<>>]
  /\ side' = Swept(c)

Poll(c) ==
  /\ Drain(c)
  /\ todo' = [todo EXCEPT ![c] = box[Owner(c)]]
  /\ Undisturbed
  /\ UNCHANGED <<world, disk, begun, grown>>

PollLost(c) ==
  /\ Drain(c)
  /\ Fault /\ Disturb
  /\ UNCHANGED <<world, disk, todo, begun, grown>>

\* A letter older than the relay keeps: the oldest lies first.
Expire(p) ==
  /\ box[p] # <<>>
  /\ box' = [box EXCEPT ![p] = Tail(@)]
  /\ Fault /\ Disturb
  /\ UNCHANGED <<world, disk, todo, side, begun, grown>>

-----------------------------------------------------------------------------
(* MergeDialogue::on_message.                                              *)

\* create_pending: what the own draft will be, and where.
DraftOf(p, v) ==
  [kind |-> "merge", time |-> v.at, takes |-> <<v.peer, v.his>>,
   union |-> Join(SnapshotFor(p), v.hisSnap)]

\* accept_partner and create_pending: the partner's tip and snapshot as they
\* were sent, no tip from the future, nobody's branch empty.
Met(d, v, m) ==
  LET p == Owner(d[1]) IN
  IF TipIsNow(m.time, v.at) /\ branch[p] # <<>> /\ m.tip # 0
  THEN [v EXCEPT !.his = m.tip, !.hisSnap = m.snap, !.pend = Len(branch[p]) + 1, !.st = "SNAP"]
  ELSE Over("FAILED")

\* prepare_own_side first: what the partner is told is what was there before.
HandleOffer(d, v, m) ==
  LET p == Owner(d[1]) IN
  IF HasSnapshot(p)
  THEN Met(d, [v EXCEPT !.mine = Len(branch[p]), !.mineSnap = SnapshotFor(p)], m)
  ELSE Over("FAILED")

HandleAccept(d, v, m) == Met(d, v, m)

HandleDraft(d, v, m) ==
  IF DraftOK(Owner(d[1]), v, m)
  THEN [v EXCEPT !.st = "WAIT_COSIG",
                 !.out = <<[t |-> "COSIG", of |-> m.at, key |-> key[Owner(d[1])]]>>]
  ELSE Over("FAILED")

HandleCosig(d, v, m) ==
  IF CosigOK(Owner(d[1]), v, m) THEN [v EXCEPT !.st = "SEALED"] ELSE Over("FAILED")

OnMessage(d, v, m) ==
  CASE v.st = "IDLE" /\ m.t = "OFFER"         -> HandleOffer(d, v, m)
    [] v.st = "WAIT_ACCEPT" /\ m.t = "ACCEPT" -> HandleAccept(d, v, m)
    [] v.st = "WAIT_DRAFT" /\ m.t = "DRAFT"   -> HandleDraft(d, v, m)
    [] v.st = "WAIT_COSIG" /\ m.t = "COSIG"   -> HandleCosig(d, v, m)
    [] OTHER                                  -> Over("FAILED")

\* Mutant: the union is written for a branch's first merge only.
RecordedFirst(p, v) ==
  LET first == {r \in {v.mineSnap, v.hisSnap} :
                  r \in {Leaf(<<p, v.mine>>), Leaf(<<v.peer, v.his>>)}}
  IN first \cup {Join(v.mineSnap, v.hisSnap) : r \in first}

\* fill_cache, record_merge: a leaf that is a whole snapshot, and the union.
Recorded(p, v) ==
  {r \in {v.mineSnap, v.hisSnap} : r \in {Leaf(<<p, v.mine>>), Leaf(<<v.peer, v.his>>)}}
    \cup {Join(v.mineSnap, v.hisSnap)}

\* The dialogue the letter belongs to: a server opens one for a letter of a
\* session it does not know, whatever the letter is.
Opened(d, l) ==
  IF side[d].st # "none" THEN side[d]
  ELSE [Blank EXCEPT !.st = "IDLE", !.peer = l.from, !.at = clock[Owner(d[1])]]

\* DialoguePump::feed: letters of another session or sender are passed over, a
\* letter behind a gap is kept and never comes to its turn, for nothing is sent
\* twice; a dialogue that ended takes nothing.
Turn(d, l) ==
  LET v == Opened(d, l) IN
  /\ l.from = v.peer /\ l.seq = v.nextIn
  /\ v.st \in Waiting \cup {"IDLE"}

Read(c) ==
  LET l == Head(todo[c])
      d == <<c, l.s>>
      v == Opened(d, l)
      w == IF Turn(d, l)
           THEN [OnMessage(d, v, l.msg) EXCEPT !.nextIn = @ + 1] ELSE v
      sealing == d \in Sides /\ w.st = "SEALED"
      drafting == d \in Sides /\ w.st = "SNAP"
  IN
  /\ Alive(c) /\ ~Busy(c) /\ todo[c] # <<>>
  /\ d \in Sides => side[d].st # "null"
  /\ todo' = [todo EXCEPT ![c] = Tail(@)]
  /\ side' = IF d \in Sides THEN [side EXCEPT ![d] = w] ELSE side
  /\ branch' = IF drafting THEN [branch EXCEPT ![Owner(c)] = Append(@, DraftOf(Owner(c), w))] ELSE branch
  /\ seals' = IF sealing THEN seals \cup {<<Owner(c), v.pend>>} ELSE seals
  /\ Undisturbed
  /\ UNCHANGED <<world, stored, cache, box, begun, grown>>

\* A letter for a dialogue dropped earlier in the same batch: its entry is
\* found and its null pointer followed.
ReadDropped(c) ==
  /\ Alive(c) /\ ~Busy(c) /\ todo[c] # <<>>
  /\ c[1] = "serve" /\ side[<<c, Head(todo[c]).s>>].st = "null"
  /\ Die(c)
  /\ Undisturbed
  /\ UNCHANGED <<world, disk, box, begun, grown>>

-----------------------------------------------------------------------------
(* MergeSession::create_pending: the draft is on the disk, the grown       *)
(* snapshot follows in a transaction of its own; then the messages go out. *)

\* Mutant: the draft goes out before the tip it is judged by.
ProposalDraftFirst(d) ==
  LET v == side[d]
      draft == [t |-> "DRAFT", at |-> <<Owner(d[1]), v.pend>>, block |-> branch[Owner(d[1])][v.pend]]
  IN IF v.seq = 0 THEN <<draft, TipMessage("ACCEPT", Owner(d[1]), v.mine, v.mineSnap)>> ELSE <<draft>>

\* The responder answers with its tip and its draft, the initiator has sent a tip.
Proposal(d) ==
  LET v == side[d]
      draft == [t |-> "DRAFT", at |-> <<Owner(d[1]), v.pend>>, block |-> branch[Owner(d[1])][v.pend]]
  IN IF v.seq = 0 THEN <<TipMessage("ACCEPT", Owner(d[1]), v.mine, v.mineSnap), draft>> ELSE <<draft>>

\* Mutant: the union is worked out anew for the snapshot.
KeptRecomputed(d) == Join(SnapshotFor(Owner(d[1])), side[d].hisSnap)

\* put_snapshot: the union the draft was made with.
Kept(d) == branch[Owner(d[1])][side[d].pend].union

Snap(d) ==
  /\ side[d].st = "SNAP"
  /\ stored' = [stored EXCEPT ![Owner(d[1])] = Kept(d)]
  /\ side' = [side EXCEPT ![d].st = "WAIT_DRAFT", ![d].out = Proposal(d)]
  /\ Undisturbed
  /\ UNCHANGED <<world, branch, seals, cache, box, todo, begun, grown>>

\* handle_cosig after finalize: fill_cache, the best it can.
FillCache(d) ==
  LET v == side[d] IN
  /\ v.st = "SEALED"
  /\ side' = [side EXCEPT ![d] = [Over("DONE") EXCEPT !.mine = v.mine, !.pend = v.pend]]
  /\ \/ /\ cache' = [cache EXCEPT ![Owner(d[1])] = @ \cup Recorded(Owner(d[1]), v)]
        /\ Undisturbed
     \/ Fault /\ UNCHANGED <<cache, calm>>
  /\ UNCHANGED <<world, branch, stored, seals, box, todo, begun, grown>>

-----------------------------------------------------------------------------
(* The same session by hand: what one owner's command prints is an         *)
(* argument of the other's.  Between the commands there is a file.         *)

HasSlip(p) == slip[p].pend # 0

PrintSlip(p, m) == papers' = papers \cup {[by |-> p, msg |-> m]}

Printed(q, t) == {x.msg : x \in {y \in papers : y.by = q /\ y.msg.t = t}}

\* bc merge prepare.
PrepareByHand(p) ==
  /\ byHand < MaxByHand
  /\ branch[p] # <<>>
  /\ PrintSlip(p, TipMessage("TIP", p, Len(branch[p]), SnapshotFor(p)))
  /\ UNCHANGED <<slip, byHand, disk, faults>>

\* What a draft by hand is made from, and the file written beside it.
SlipOf(p, q, m) ==
  [Blank EXCEPT !.peer = q, !.at = clock[p], !.pend = Len(branch[p]) + 1,
                !.mine = Len(branch[p]), !.mineSnap = SnapshotFor(p),
                !.his = m.tip, !.hisSnap = m.snap]

\* bc merge create: the draft, the grown snapshot, the file, and the draft is
\* printed; or the command dies after the first done of these.
CreateByHand(p, q) ==
  /\ byHand < MaxByHand /\ byHand' = byHand + 1
  /\ branch[p] # <<>>
  /\ \E m \in Printed(q, "TIP"), done \in 1..4 :
       LET at == Len(branch[p]) + 1
           v  == SlipOf(p, q, m)
           draft == DraftOf(p, v)
       IN
       /\ TipIsNow(m.time, clock[p])
       /\ branch' = [branch EXCEPT ![p] = Append(@, draft)]
       /\ stored' = IF done > 1 THEN [stored EXCEPT ![p] = draft.union] ELSE stored
       /\ slip' = IF done > 2 THEN [slip EXCEPT ![p] = v] ELSE slip
       /\ IF done = 4
          THEN PrintSlip(p, [t |-> "DRAFT", at |-> <<p, at>>, block |-> draft]) /\ UNCHANGED faults
          ELSE Fault /\ UNCHANGED papers
  /\ UNCHANGED <<seals, cache>>

\* bc merge cosign: the draft is read against the file, by the clock of now.
CosignByHand(p) ==
  /\ HasSlip(p)
  /\ \E m \in Printed(slip[p].peer, "DRAFT") :
       /\ DraftOK(p, [slip[p] EXCEPT !.at = clock[p]], m)
       /\ PrintSlip(p, [t |-> "COSIG", of |-> m.at, key |-> key[p]])
  /\ UNCHANGED <<slip, byHand, disk, faults>>

\* bc merge finalize: the seal, the cache, the file is removed.
FinalizeByHand(p) ==
  /\ HasSlip(p)
  /\ \E m \in Printed(slip[p].peer, "COSIG"), done \in 1..3 :
       /\ CosigOK(p, slip[p], m)
       /\ seals' = seals \cup {<<p, slip[p].pend>>}
       /\ cache' = IF done > 1 THEN [cache EXCEPT ![p] = @ \cup Recorded(p, slip[p])] ELSE cache
       /\ IF done = 3 THEN slip' = [slip EXCEPT ![p] = Blank] /\ UNCHANGED faults
                      ELSE Fault /\ UNCHANGED slip
  /\ UNCHANGED <<papers, byHand, branch, stored>>

ByHand(p) ==
  /\ PrepareByHand(p) \/ CosignByHand(p) \/ FinalizeByHand(p)
       \/ \E q \in Party \ {p} : CreateByHand(p, q)
  /\ Disturb
  /\ UNCHANGED <<world, box, todo, side, begun, grown>>

-----------------------------------------------------------------------------
(* Participant caches and the warehouse of the aggregator.                 *)

\* merkle_path walks down from a root as far as compositions are known.
Below(root, known) ==
  LET reach[n \in 0..Cardinality(known)] ==
        IF n = 0 THEN {root}
        ELSE reach[n - 1] \cup UNION {r.kids : r \in reach[n - 1] \cap known}
  IN reach[Cardinality(known)]

\* complete_cache: from the root down, what is in the cache or the warehouse.
Completed(mine, warehouse, root) ==
  mine \cup (Below(root, mine \cup warehouse) \cap warehouse)

\* build_proof finds a way from the root down to every leaf.
Provable(root, known) == Below(root, known) \subseteq known

-----------------------------------------------------------------------------
(* Around the dialogue.                                                    *)

\* Something of session s is still on its way to a process that will read it.
UnderWay(s) ==
  \/ \E c \in Proc : Alive(c) /\
       (\/ \E i \in DOMAIN todo[c] : todo[c][i].s = s
        \/ \E i \in DOMAIN box[Owner(c)] : box[Owner(c)][i].s = s)
  \/ \E p \in Party : Busy(Serve(p))

\* --timeout of merge run, looked at between batches.
Timeout(s) ==
  LET c == Run(s) IN
  /\ Alive(c) /\ ~Busy(c) /\ todo[c] = <<>>
  /\ side' = [side EXCEPT ![<<c, s>>] = Over("off")]
  /\ IF UnderWay(s) THEN Disturb ELSE UNCHANGED calm
  /\ UNCHANGED <<world, disk, box, todo, begun, faults, grown>>

Crash(c) ==
  /\ Alive(c) \/ Busy(c)
  /\ c[1] = "serve" => \E d \in Sides : d[1] = c /\ side[d].st # "none"
  /\ Fault /\ Disturb
  /\ Die(c)
  /\ UNCHANGED <<world, disk, box, begun, grown>>

\* Any other command of the owner that appends to the branch.
Grow(p) ==
  /\ grown < MaxGrow /\ grown' = grown + 1
  /\ branch' = [branch EXCEPT ![p] = Append(@, DataBlock(clock[p]))]
  /\ Disturb
  /\ UNCHANGED <<world, stored, seals, cache, box, todo, side, begun, faults>>

-----------------------------------------------------------------------------
Init ==
  /\ ends \in {e \in [Session -> Party \X Party] : \A s \in Session : e[s][1] # e[s][2]}
  /\ serves \in SUBSET Party
  /\ clock \in [Party -> Times]
  /\ key \in [Party -> {"node", "rotated"}]
  /\ branch \in [Party -> {<<>>, <<DataBlock(0)>>}]   \* an old block, if any
  /\ stored = [p \in Party |-> NoRoot]
  /\ seals = {}
  /\ cache = [p \in Party |-> {}]
  /\ box = [p \in Party |-> <<>>]
  /\ todo = [c \in Proc |-> <<>>]
  /\ side = [d \in Sides |-> Blank]
  /\ calm = {}
  /\ begun \in SUBSET Session   \* these never begin
  /\ slip = [p \in Party |-> Blank]
  /\ papers = {}
  /\ faults \in 0..MaxFaults /\ grown \in 0..MaxGrow
  /\ byHand \in 0..MaxByHand              \* so much is used up

\* What a process does when nothing goes wrong.
Work(c) ==
  \/ Poll(c) \/ Read(c)
  \/ \E d \in Sides : d[1] = c /\ (Queued(d) \/ Snap(d) \/ FillCache(d))

OverRelay ==
  \/ \E s \in Session : Begin(s) \/ Timeout(s)
  \/ \E c \in Proc : Work(c) \/ ReadDropped(c) \/ PollLost(c) \/ Crash(c)
  \/ \E d \in Sides : Refused(d) \/ SendLost(d)
  \/ \E p \in Party : Expire(p) \/ Grow(p)

Next == (OverRelay /\ UNCHANGED hand) \/ \E p \in Party : ByHand(p)

Spec == Init /\ [][Next]_vars

\* All processes keep running, and what they do comes to an end by itself: being
\* fair to all of them together is being fair to each.
Progress == ((\E c \in Proc : Work(c)) \/ (\E s \in Session : Timeout(s))) /\ UNCHANGED hand

FairSpec == Spec /\ WF_vars(Progress)

-----------------------------------------------------------------------------
(* What a merge promises.                                                  *)

\* Where the merge blocks of all branches stand.
Places ==
  UNION {{p} \X {i \in DOMAIN branch[p] : branch[p][i].kind = "merge"} : p \in Party}

HalfAt(x) ==
  [at |-> x, prev |-> <<x[1], x[2] - 1>>,
   takes |-> branch[x[1]][x[2]].takes, union |-> branch[x[1]][x[2]].union]

Halves == {HalfAt(x) : x \in Places}

Pact == INSTANCE MergePact WITH
  halves <- Halves,
  sealed <- {h \in Halves : h.at \in seals}

\* The dialogue, the relay and the disks together keep the pact: whatever is
\* lost, dies or gets in between, an owner holds the partner's signature on a
\* half only when the partner's half of the same merge is on the partner's disk.
ImplementsPact == Pact!Spec

\* The draft and the grown snapshot are two transactions (create_pending), and
\* a process may die between them or give the merge up after them. The stored
\* snapshot, from which the next merge starts, is always one that some block of
\* the branch commits to.
SnapshotIsCommitted ==
  \A p \in Party : stored[p] # NoRoot =>
    \E i \in DOMAIN branch[p] : branch[p][i].kind = "merge" /\ branch[p][i].union = stored[p]

\* What the owners publish of their caches, all of them together.
Published == UNION {cache[p] : p \in Party}

\* When no half was left without a signature and nobody is between his signature
\* and his cache, whoever completes a cache from what the owners publish can
\* show every leaf under every union of theirs: record_merge writes a leaf only
\* in a side's first merge, and it is enough, even when an owner once could not
\* write his cache or died before it (fill_cache is "best-effort").
UnionsAreProvable ==
  /\ faults <= 1
  /\ \A h \in Halves : h.at \in seals
  /\ \A d \in Sides : side[d].st # "SEALED"
  =>
    \A h \in Halves : Provable(h.union, Completed({}, Published, h.union))
=============================================================================
