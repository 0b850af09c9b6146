----------------------------- MODULE OwnerChain -----------------------------
(***************************************************************************)
(* Keys and revocations on the owner's own storage (blockchain.md 6.6,     *)
(* 6.7): the owner writes, rotates, revokes and creates nodes with the     *)
(* keys in his key files; a thief who copied some of them writes past the  *)
(* facade (Blockchain).  Which key a branch is written with is decided by  *)
(* the revocations its ancestors hold.                                     *)
(*                                                                         *)
(* The tree is looked at along one path, root to Leaf: node n's parent is  *)
(* n - 1 and its ancestors are the nodes below n, which is all is_ancestor *)
(* and node_depth say of nodes of one path.  Keys are numbered in the order*)
(* they are generated.                                                     *)
(***************************************************************************)
EXTENDS Integers, Sequences, FiniteSetsExt

CONSTANTS
  Leaf,       \* the deepest node of the path
  Grown,      \* how far the path exists when the identity is created
  Stolen,     \* nodes whose first key a thief holds
  MaxTime,    \* bound: the last date of a block
  MaxBlocks,  \* bound: blocks in all branches
  MaxKeys,    \* bound: keys generated in all
  Rotations,  \* whether keys are rotated
  Crashes     \* whether a command may stop half-way

Nodes == 0..Leaf

ASSUME ChainAssumption ==
  /\ Leaf \in Nat /\ Grown \in Nodes
  /\ MaxTime \in Nat /\ MaxBlocks \in Nat /\ MaxKeys \in Nat
  /\ Grown < MaxKeys
  /\ Stolen \subseteq Nodes
  /\ Rotations \in BOOLEAN /\ Crashes \in BOOLEAN

NoKey  == -1
NoNode == -1

Keys  == 0..MaxKeys - 1
Times == 0..MaxTime

VARIABLES
  now,     \* the clock the owner dates his blocks by
  tree,    \* the nodes in storage
  branch,  \* the blocks of each node's branch
  file,    \* the key in each key file
  minted   \* keys generated so far

vars == <<now, tree, branch, file, minted>>

\* The only element of a set, evaluated once.
The(S) == CHOOSE x \in S : TRUE

\* `by` is the key a node is signed with; created_at is always written as 0.
Node(key, by) == [key |-> key, by |-> by, created |-> 0]

\* `key` is the key a rotation or a revocation names.
Block(kind, time, signer, key, target, since) ==
  [kind |-> kind, time |-> time, signer |-> signer, key |-> key,
   target |-> target, since |-> since]

Exists(n) == n \in DOMAIN tree

Blocks == UNION {{<<n, i>> : i \in 1..Len(branch[n])} : n \in Nodes}

At(r) == branch[r[1]][r[2]]

-----------------------------------------------------------------------------
(* Validator: what the revocations a reader has say of a node.             *)

\* Mutant of Counts: the author's own revocation is not looked at.
CountsAlways(b, author) == TRUE

\* A record of an author who was himself under revocation when it was dated
\* does not count, unless his replacement signed it.  `author` is his state: a
\* set of at most one.
Counts(b, author) ==
  \A e \in author : \/ e.replacement # NoKey /\ b.signer = e.replacement
                    \/ b.time <= e.since

\* Mutant of Winner: the author next to the node decides.
WinnerIsNearest(counted) == Max({r[1] : r \in counted})

\* The author nearest the root decides.
Winner(counted) == Min({r[1] : r \in counted})

\* Mutant of Compromise: the latest record moves the compromise, later too.
CompromiseIsLast(own) == At(CHOOSE r \in own : \A q \in own : q[2] <= r[2]).since

\* Within one author the earliest compromise holds.
Compromise(own) == Min({At(r).since : r \in own})

\* effective_revocation for every node: the empty set, or the one state that
\* the counted records of the winning author add up to - the earliest
\* compromise, the latest replacement.
Effective(seen) ==
  LET Records(n) == {r \in seen : /\ r[1] < n
                                  /\ At(r).kind = "revocation" /\ At(r).target = n}
      Sum(own) == [author      |-> Winner(own),
                   since       |-> Compromise(own),
                   replacement |-> At(CHOOSE r \in own : \A q \in own : q[2] <= r[2]).key]
      Decided(counted) == IF counted = {} THEN {}
                          ELSE {Sum(own) : own \in
                                  {{r \in counted : r[1] = Winner(counted)}}}
      \* The states of nodes 0..n, node m's at m + 1.
      Down[n \in Nodes] ==
        IF n = 0 THEN << {} >>
        ELSE The({Append(above, Decided({r \in Records(n) :
                                           Counts(At(r), above[r[1] + 1])})) :
                    above \in {Down[n - 1]}})
  IN  The({[n \in Nodes |-> all[n + 1]] : all \in {Down[Leaf]}})

Replacement(state) == IF \E e \in state : e.replacement # NoKey
                      THEN The(state).replacement ELSE NoKey

Frozen(state) == \E e \in state : e.replacement = NoKey

\* The key in force after block b was signed with `key`.
After(b, key) == IF b.kind = "rotation" THEN b.key ELSE key

Zone(b, state) ==
  IF \E e \in state : b.time > e.since THEN "suspect" ELSE "clean"

\* One block of branch_revocation_status.  `lineage` is the branch's own line of
\* keys; `current` the replacement's line, NoKey before its first use; `broken`
\* stands for the SignatureError.
Classify(st, b, state) ==
  LET switched == st.current # NoKey
  IN  IF st.broken THEN st
      ELSE CASE ~switched /\ b.signer = st.lineage ->
                  [st EXCEPT !.lineage = After(b, @), !.marks = Append(@, Zone(b, state))]
             [] ~switched /\ b.signer # st.lineage /\ b.signer = Replacement(state) ->
                  [st EXCEPT !.current = After(b, b.signer), !.marks = Append(@, "clean")]
             [] switched /\ b.signer = st.current ->
                  [st EXCEPT !.current = After(b, @), !.marks = Append(@, "clean")]
             [] switched /\ b.signer # st.current /\ b.signer = st.lineage ->
                  [st EXCEPT !.marks = Append(@, "invalid")]
             [] OTHER -> [st EXCEPT !.broken = TRUE]

\* branch_revocation_status.
Status(n, state) ==
  LET Upto[i \in 0..Len(branch[n])] ==
        IF i = 0
        THEN [lineage |-> tree[n].key, current |-> NoKey, marks |-> <<>>,
              broken |-> FALSE]
        ELSE The({Classify(st, branch[n][i], state) : st \in {Upto[i - 1]}})
  IN  Upto[Len(branch[n])]

\* The key the branch is to be written with next; NoKey when it is frozen.
NextKey(st, state) ==
  IF state = {} THEN st.lineage
  ELSE IF Frozen(state) \/ st.current = NoKey THEN Replacement(state)
  ELSE st.current

\* Mutant of Follow: the replacement takes over, the key in force stays.
FollowKeepsKey(st, b, state) ==
  LET takesOver == ~st.switched /\ b.signer # st.key /\ b.signer = Replacement(state)
  IN  IF st.ok /\ b.time >= st.time /\ (b.signer = st.key \/ takesOver)
      THEN [key |-> After(b, st.key), switched |-> st.switched \/ takesOver,
            time |-> b.time, ok |-> TRUE]
      ELSE [st EXCEPT !.ok = FALSE]

\* One block of validate_branch: signed by the key in force, or by the
\* replacement for the first time; not older than the block before.
Follow(st, b, state) ==
  LET takesOver == ~st.switched /\ b.signer # st.key /\ b.signer = Replacement(state)
  IN  IF st.ok /\ b.time >= st.time /\ (b.signer = st.key \/ takesOver)
      THEN [key |-> After(b, b.signer), switched |-> st.switched \/ takesOver,
            time |-> b.time, ok |-> TRUE]
      ELSE [st EXCEPT !.ok = FALSE]

\* validate_branch passes.
Validates(n, state) ==
  LET Upto[i \in 0..Len(branch[n])] ==
        IF i = 0
        THEN [key |-> tree[n].key, switched |-> FALSE, time |-> 0, ok |-> TRUE]
        ELSE The({Follow(st, branch[n][i], state) : st \in {Upto[i - 1]}})
  IN  Upto[Len(branch[n])].ok

\* validate_path passes: every node signed by its parent's key.
PathValid(n) == \A m \in 1..n : tree[m].by = tree[m - 1].key

\* node_invalidated_by_revocation (rule 6).
Invalidated(n, eff) ==
  \E m \in 1..n : \E e \in eff[m - 1] : tree[m].created > e.since

\* RevocationCert::verify on the certificate built from record r.
CertVerifies(r) == PathValid(r[1]) /\ At(r).signer = tree[r[1]].key

\* Mutant of TipAccepted: any tip of a replaced branch does.
TipAcceptedUnsigned(n, eff) ==
  ~Invalidated(n, eff) /\ \A e \in eff[n] : e.replacement # NoKey

\* check_tip_against_revocations: what a reader with that state of the owner's
\* nodes says to the tip of branch n.
TipAccepted(n, eff) ==
  /\ ~Invalidated(n, eff)
  /\ \A e \in eff[n] :
       /\ e.replacement # NoKey
       /\ branch[n] # <<>> => branch[n][Len(branch[n])].signer = e.replacement

-----------------------------------------------------------------------------
(* The owner's commands.                                                   *)

Written == Cardinality(Blocks)

\* Mutant of Writable: the replacement assigned is not asked for.
WritableWithAnyKey(n, key, state) == ~Frozen(state)

\* ensure_branch_writable: without a revocation there is nothing to enforce.
Writable(n, key, state) ==
  state # {} =>
    /\ ~Frozen(state)
    /\ \E st \in {Status(n, state)} : ~st.broken /\ key = NextKey(st, state)

Put(n, b) ==
  /\ Written < MaxBlocks
  /\ branch' = [branch EXCEPT ![n] = Append(@, b)]
  /\ now' = b.time

Dates == now..MaxTime

\* Mutant of AppendData: whether the node exists is not asked.
AppendAnywhere(n, t) ==
  /\ file[n] # NoKey
  /\ \E eff \in {Effective(Blocks)} : eff[n] = {} \/ Writable(n, file[n], eff[n])
  /\ Put(n, Block("data", t, file[n], NoKey, NoNode, 0))
  /\ UNCHANGED <<tree, file, minted>>

\* append_data_block with the key in the key file.
AppendData(n, t) ==
  /\ Exists(n) /\ file[n] # NoKey
  /\ \E eff \in {Effective(Blocks)} : Writable(n, file[n], eff[n])
  /\ Put(n, Block("data", t, file[n], NoKey, NoNode, 0))
  /\ UNCHANGED <<tree, file, minted>>

\* rotate_key; the new pair becomes the one in the file.  The root's file names
\* the identity, so it stays.
Rotate(n, t) ==
  /\ Rotations
  /\ n # 0 /\ Exists(n) /\ file[n] # NoKey /\ minted < MaxKeys
  /\ \E eff \in {Effective(Blocks)} : Writable(n, file[n], eff[n])
  /\ Put(n, Block("rotation", t, file[n], minted, NoNode, 0))
  /\ file' = [file EXCEPT ![n] = minted]
  /\ minted' = minted + 1
  /\ UNCHANGED tree

\* revoke_node's own checks: both branches can be read, and the author's may be
\* written with this key.
MayRevoke(a, n) ==
  /\ a < n /\ Exists(n) /\ file[a] # NoKey
  /\ \E eff \in {Effective(Blocks)} :
       /\ ~Status(n, eff[n]).broken
       /\ \E st \in {Status(a, eff[a])} :
            /\ ~st.broken /\ ~Frozen(eff[a])
            /\ file[a] = NextKey(st, eff[a])

\* bc revoke create without --replace: the emergency stop.
Stop(a, n, t, since) ==
  /\ MayRevoke(a, n)
  /\ Put(a, Block("revocation", t, file[a], NoKey, n, since))
  /\ UNCHANGED <<tree, file, minted>>

\* bc revoke create --replace: the record, then the old key file steps aside,
\* then the new key is saved; the command may stop after each of the three.
Replace(a, n, t, since, end) ==
  /\ minted < MaxKeys
  /\ MayRevoke(a, n)
  /\ Put(a, Block("revocation", t, file[a], minted, n, since))
  /\ minted' = minted + 1
  /\ file' = CASE end = "signed" -> file
               [] end = "moved"  -> [file EXCEPT ![n] = NoKey]
               [] end = "saved"  -> [file EXCEPT ![n] = minted]
  /\ UNCHANGED tree

\* bc branch init: fresh keys for the nodes of the path that have no key file,
\* then the nodes that are not there yet, each signed with its parent's file.
\* Stopped half-way, it saved `keys` of the keys and made `nodes` of the nodes.
BranchInit(n, keys, nodes) ==
  LET lacking == {m \in 0..n : file[m] = NoKey}
      serial(m) == minted + Cardinality({k \in lacking : k < m})
      missing == {m \in 0..n : ~Exists(m)}
      done == DOMAIN tree \cup {m \in missing : m < Min(missing) + nodes}
  IN  /\ file[n] = NoKey
      /\ keys \in 1..Cardinality(lacking) /\ minted + keys <= MaxKeys
      /\ nodes \in 0..Cardinality(missing)
      /\ nodes > 0 => keys = Cardinality(lacking)
      /\ ~Crashes => keys = Cardinality(lacking) /\ nodes = Cardinality(missing)
      /\ file' = [m \in Nodes |-> IF m \in lacking /\ serial(m) < minted + keys
                                  THEN serial(m) ELSE file[m]]
      /\ minted' = minted + keys
      /\ tree' = [m \in done |-> IF Exists(m) THEN tree[m]
                                 ELSE Node(file'[m], file'[m - 1])]
      /\ UNCHANGED <<now, branch>>

\* A thief writes with a stolen first key, past the facade (as the tests of
\* the revocation rules do): a block, or a revocation naming his own key, dated
\* as he likes.
Steal(n, b) ==
  /\ n \in Stolen /\ Exists(n)
  /\ Written < MaxBlocks
  /\ b.signer = tree[n].key
  /\ b.kind = "revocation" => minted < MaxKeys
  /\ branch' = [branch EXCEPT ![n] = Append(@, b)]
  /\ minted' = IF b.kind = "revocation" THEN minted + 1 ELSE minted
  /\ UNCHANGED <<now, tree, file>>

StolenBlocks(n) ==
  {Block("data", t, tree[n].key, NoKey, NoNode, 0) : t \in 0..now}
  \cup {Block("revocation", t, tree[n].key, minted, m, since) :
          t \in 0..now, m \in (n + 1)..Leaf, since \in 0..now}

Init ==
  /\ now = 0
  /\ tree = [m \in 0..Grown |-> Node(m, IF m = 0 THEN 0 ELSE m - 1)]
  /\ branch = [n \in Nodes |-> <<>>]
  /\ file = [n \in Nodes |-> IF n <= Grown THEN n ELSE NoKey]
  /\ minted = Grown + 1

Ends == IF Crashes THEN {"signed", "moved", "saved"} ELSE {"saved"}

Writes == \E n \in Nodes, t \in Dates : AppendData(n, t) \/ Rotate(n, t)

Revokes ==
  \E a, n \in Nodes, t \in Dates, since \in Times :
    \/ Stop(a, n, t, since)
    \/ \E end \in Ends : Replace(a, n, t, since, end)

Grows ==
  \E n \in Nodes, keys, nodes \in 0..Leaf + 1 : BranchInit(n, keys, nodes)

Steals == \E n \in DOMAIN tree : \E b \in StolenBlocks(n) : Steal(n, b)

Next == Writes \/ Revokes \/ Grows \/ Steals

Spec == Init /\ [][Next]_vars

-----------------------------------------------------------------------------
BlockType ==
  [kind : {"data", "rotation", "revocation"}, time : Times, signer : Keys,
   key : Keys \cup {NoKey}, target : Nodes \cup {NoNode}, since : Times]

NodeType == [key : Keys, by : Keys, created : {0}]

TypeOK ==
  /\ now \in Times
  /\ \E deepest \in Nodes : tree \in [0..deepest -> NodeType]
  /\ branch \in [Nodes -> Seq(BlockType)]
  /\ \A n \in Nodes : branch[n] # <<>> => Exists(n)
  /\ file \in [Nodes -> Keys \cup {NoKey}]
  /\ minted \in 0..MaxKeys

Eff == Effective(Blocks)

Sound(n, eff) == ~Status(n, eff[n]).broken

Dated(n) ==
  \A i, j \in 1..Len(branch[n]) : i < j => branch[n][i].time <= branch[n][j].time

\* Two walks of one branch, written twice: validate_branch passes exactly the
\* branches whose dates grow and whose blocks branch_revocation_status can all
\* place, none of them the old key resurfacing (validator.cpp 62-101 against
\* 103-170).
WalksAgree ==
  \A eff \in {Eff} : \A n \in DOMAIN tree : \A st \in {Status(n, eff[n])} :
    Validates(n, eff[n]) <=>
      /\ ~st.broken /\ Dated(n)
      /\ \A i \in DOMAIN st.marks : st.marks[i] # "invalid"

\* While the word about a revoked branch stays the same, the branch stays
\* readable, whatever keys crashes and earlier commands left in the key files
\* (a branch no thief writes to; blockchain.cpp 122-135, 222-236).
RevokedStaysSound ==
  [][\A was \in {Eff}, is \in {Eff'} : \A n \in DOMAIN tree \ Stolen :
       was[n] # {} /\ is[n] = was[n] /\ Sound(n, was) => Sound(n, is)']_vars

\* A stolen key is powerless once its branch is revoked: what the thief dates
\* after the compromise changes nothing for any node (rule 10: "closes the
\* hijacking of a branch by a revocation under an ancestor's stolen key").
HijackFails ==
  [][\A was \in {Eff} : \A n \in DOMAIN tree :
       /\ branch'[n] # branch[n]
       /\ \E e \in was[n], b \in {branch'[n][Len(branch'[n])]} :
            b.signer = tree[n].key /\ b.time > e.since
       => Eff' = was]_branch

\* The key nearest the root decides (4.4): once the root spoke of a node, it
\* stays revoked, the compromise moves only to an earlier moment, and nothing
\* but the root's next record changes the word - no lower author, no revocation
\* of one, no thief.
RootWordStands ==
  [][\A was \in {Eff}, is \in {Eff'} : \A n \in DOMAIN tree :
       \A e \in was[n] : e.author = 0 =>
         \E f \in is[n] : /\ f.author = 0 /\ f.since <= e.since
                          /\ branch'[0] = branch[0] => f = e]_vars

\* While one author who is not revoked himself decides about a branch, a block
\* under suspicion is never cleared (rules 4, 5).
SuspicionStays ==
  [][\A was \in {Eff}, is \in {Eff'} : \A n \in DOMAIN tree :
       (\E e \in was[n], f \in is[n] :
          e.author = f.author /\ was[e.author] = {} /\ is[e.author] = {}) =>
         \A st \in {Status(n, was[n])}, new \in {Status(n, is[n])'} :
           ~st.broken /\ ~new.broken =>
             \A i \in DOMAIN st.marks :
               st.marks[i] # "clean" => new.marks[i] # "clean"]_vars

\* A partner who heard the revocations takes the tip of a revoked branch only if
\* the owner's own storage calls that block clean (validator.cpp 305-329 against
\* 103-170).
TipSpeaksForBranch ==
  \A eff \in {Eff} : \A n \in DOMAIN tree :
    eff[n] # {} /\ branch[n] # <<>> /\ TipAccepted(n, eff) =>
      \A st \in {Status(n, eff[n])} :
        ~st.broken => st.marks[Len(branch[n])] = "clean"

\* "stop -> replace -> the replacement key itself gets compromised"
\* (test_blockchain.cpp 460, validator.cpp 256-258): a branch only the root
\* speaks of can be revoked again and read afterwards.
RevocableAgain ==
  \A eff \in {Eff} : \A n \in DOMAIN tree :
    (\A r \in Blocks : At(r).kind = "revocation" => r[1] = 0) => Sound(n, eff)

\* "Post-replacement records (signed by the author's replacement key) count"
\* (validator.cpp 212-213), and the certificate carries what counts to others
\* (rule 8).
CountedRecordTravels ==
  \A eff \in {Eff} : \A r \in Blocks :
    At(r).kind = "revocation" /\ Counts(At(r), eff[r[1]]) => CertVerifies(r)
=============================================================================
