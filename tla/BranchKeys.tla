----------------------------- MODULE BranchKeys -----------------------------
(***************************************************************************)
(* What an aggregator knows of the keys of one branch (BranchKeys), fed by *)
(* concurrent HTTP handlers and by the exchange with peers, kept on disk   *)
(* piece by piece and rebuilt from there at every start.                   *)
(*                                                                         *)
(* A key signs or it does not: a block carries the key that signed it.     *)
(* Bytes that do not check (KeyPathCert::verify of the nodes,              *)
(* RevocationCert::verify) teach nothing and are left out; the checks of   *)
(* the key changes in a path are in.  The table is a map per branch, so    *)
(* one branch stands for all.                                              *)
(***************************************************************************)
EXTENDS Integers, Sequences, FiniteSets

CONSTANTS
  Keys,        \* public keys
  NoKey,       \* no new key (a block that is no key change), no replacement
  Blocks,      \* signed blocks of the branch somebody may send
  Certs,       \* revocation certificates of the branch that check
  Paths,       \* key paths of the branch whose nodes check
  OwnBlocks,   \* those of them the owner made
  OwnPaths,    \* likewise
  NoPath, NoRev, Nothing,
  Threads,     \* bound: requests in progress at a time
  MaxRestarts  \* bound: restarts of the aggregator

AllBlocks == [index : Nat, time : Nat, signer : Keys, next : Keys \cup {NoKey}]
AllCerts  == [depth : Nat, block : Nat, since : Nat,
              replacement : Keys \cup {NoKey}]
AllPaths  == [node : Keys, rotations : Seq(AllBlocks)]
AllRevs   == [depth : Nat, block : Nat, since : Nat,
              replacement : Keys \cup {NoKey}, line : Seq(Keys)]

ASSUME KeysAssumption   == NoKey \notin Keys
ASSUME BlocksAssumption == Blocks \subseteq AllBlocks
ASSUME CertsAssumption  == Certs \subseteq AllCerts
ASSUME PathsAssumption  == Paths \subseteq AllPaths
ASSUME RestartsAssumption == MaxRestarts \in Nat
ASSUME NothingAssumption == NoPath \notin AllPaths /\ NoRev \notin AllRevs

VARIABLES
  path,      \* branches_: the branch's path with its key changes
  rev,       \* revocations_: the revocation that decides, with its line of keys
  paths,     \* disk: key paths
  certs,     \* disk: revocation certificates
  blocks,    \* disk: blocks by address
  hashes,    \* disk: the index of block hashes
  posting,   \* handlers: paths learnt and not yet put on disk
  checked,   \* handlers: blocks past check() and not yet added
  added,     \* handlers: key changes added and not yet learnt
  todo,      \* the rest of load(), after a start
  before,    \* history: what was known when the aggregator last stopped
  restarts   \* restarts so far

memory   == <<path, rev>>
disk     == <<paths, certs, blocks, hashes>>
handlers == <<posting, checked, added>>
process  == <<todo, before, restarts>>
vars     == <<memory, disk, handlers, process>>

-----------------------------------------------------------------------------
(* The table                                                               *)

LastOf(s) == s[Len(s)]
Members(s) == {s[i] : i \in 1..Len(s)}

IsRotation(b) == b.next # NoKey

\* The branch's own keys: the node key, then each change.
OwnLine(kp) ==
  <<kp.node>> \o [i \in 1..Len(kp.rotations) |-> kp.rotations[i].next]

KeysFor(p, r, at) ==
  IF r # NoRev /\ at > r.since THEN Members(r.line)
  ELSE (IF p = NoPath THEN {} ELSE Members(OwnLine(p)))
         \cup (IF r = NoRev THEN {} ELSE Members(r.line))

\* check() answers signed_by_branch; an unknown branch has no keys.
Accepts(p, r, b) == b.signer \in KeysFor(p, r, b.time)

\* Every key change of a path is signed by the key before it, in order.
PathChecks(kp) ==
  \A i \in 1..Len(kp.rotations) :
    /\ IsRotation(kp.rotations[i])
    /\ kp.rotations[i].signer = OwnLine(kp)[i]
    /\ i > 1 => kp.rotations[i].index > kp.rotations[i - 1].index

\* The same node, and the known key changes and more.
CarriesOn(known, kp) ==
  /\ kp.node = known.node
  /\ Len(known.rotations) <= Len(kp.rotations)
  /\ \A i \in 1..Len(known.rotations) : kp.rotations[i] = known.rotations[i]

\* Mutant: any path of this node replaces the known one.
PathAfterAny(known, kp) ==
  IF PathChecks(kp) /\ (known = NoPath \/ kp.node = known.node)
  THEN kp ELSE known

\* learn_path.
PathAfter(known, kp) ==
  IF PathChecks(kp) /\ (known = NoPath \/ CarriesOn(known, kp))
  THEN kp ELSE known

\* The line of a replacement starts with it.
WithLine(r) ==
  IF r.line = <<>> /\ r.replacement # NoKey
  THEN [r EXCEPT !.line = <<r.replacement>>] ELSE r

Earlier(s, t) == IF s < t THEN s ELSE t

\* Mutant: the old line is kept when a new replacement is named.
SameAuthorKeepsLine(cur, c) ==
  LET since == Earlier(cur.since, c.since)
  IN  IF c.block > cur.block
      THEN [cur EXCEPT !.since = since, !.block = c.block,
                       !.replacement = c.replacement]
      ELSE [cur EXCEPT !.since = since]

\* Two revocations by the same author: the earliest compromise, and the
\* latest word on the replacement.
SameAuthor(cur, c) ==
  LET since == Earlier(cur.since, c.since)
  IN  IF c.block > cur.block
      THEN [cur EXCEPT !.since = since, !.block = c.block,
                       !.replacement = c.replacement, !.line = <<>>]
      ELSE [cur EXCEPT !.since = since]

\* Mutant: the revocation heard last decides.
RevAfterLast(cur, c) ==
  WithLine(IF cur # NoRev /\ c.depth = cur.depth THEN SameAuthor(cur, c)
           ELSE [depth |-> c.depth, block |-> c.block, since |-> c.since,
                 replacement |-> c.replacement, line |-> <<>>])

\* learn_revocation.
RevAfter(cur, c) ==
  IF cur # NoRev /\ c.depth > cur.depth THEN cur
  ELSE WithLine(IF cur # NoRev /\ c.depth = cur.depth THEN SameAuthor(cur, c)
                ELSE [depth |-> c.depth, block |-> c.block, since |-> c.since,
                      replacement |-> c.replacement, line |-> <<>>])

\* After the compromise the replacement's line goes on, not the branch's own.
PastCompromise(b) == rev # NoRev /\ b.time > rev.since

ContinuesLine(b) ==
  PastCompromise(b) /\ rev.line # <<>> /\ b.signer = LastOf(rev.line)

\* Mutant: the signature of a key change is not looked at again.
ContinuesPathUnsigned(b) ==
  /\ ~PastCompromise(b)
  /\ path # NoPath
  /\ path.rotations # <<>> => b.index > LastOf(path.rotations).index

\* The next key change of the branch's own line, signed by the key it signs
\* with now.
ContinuesPath(b) ==
  /\ ~PastCompromise(b)
  /\ path # NoPath
  /\ path.rotations # <<>> => b.index > LastOf(path.rotations).index
  /\ b.signer = LastOf(OwnLine(path))

LearnRotation(b) ==
  /\ rev' = IF ContinuesLine(b)
            THEN [rev EXCEPT !.line = Append(@, b.next)] ELSE rev
  /\ path' = IF ContinuesPath(b)
             THEN [path EXCEPT !.rotations = Append(@, b)] ELSE path

-----------------------------------------------------------------------------
(* Requests and peers                                                      *)

Done == [paths |-> {}, certs |-> {}, rotations |-> {}]
Serving == todo = Done

InProgress == Cardinality(posting) + Cardinality(checked) + Cardinality(added)

\* POST /keypaths, and a path pulled from a peer: learnt first ...
LearnPath(kp) ==
  /\ Serving /\ InProgress < Threads
  /\ PathChecks(kp)
  /\ path' = PathAfter(path, kp)
  /\ posting' = posting \cup {kp}
  /\ UNCHANGED <<rev, disk, checked, added, process>>

\* ... then put on disk (the list of a key is not full: kKeyPathsPerKeyCap).
KeepPath(kp) ==
  /\ kp \in posting
  /\ posting' = posting \ {kp}
  /\ paths' = paths \cup {kp}
  /\ UNCHANGED <<memory, certs, blocks, hashes, checked, added, process>>

\* POST /revocations, and a certificate pulled from a peer: disk first; sent
\* again, it is learnt again (kRevocationsPerChainCap is not reached).
LearnRevocation(c) ==
  /\ Serving
  /\ certs' = certs \cup {c}
  /\ rev' = RevAfter(rev, c)
  /\ UNCHANGED <<path, paths, blocks, hashes, handlers, process>>

\* POST /blocks, and a block pulled from a peer: the table is asked, ...
CheckBlock(b) ==
  /\ Serving /\ InProgress < Threads
  /\ Accepts(path, rev, b)
  /\ checked' = checked \cup {b}
  /\ UNCHANGED <<memory, disk, posting, added, process>>

\* Mutant: a second block of one address is stored too.
AddBlockAgain(b) ==
  /\ b \in checked
  /\ checked' = checked \ {b}
  /\ hashes' = hashes \cup {b}
  /\ blocks' = blocks \cup {b}
  /\ added' = IF b \notin hashes /\ IsRotation(b) THEN added \cup {b} ELSE added
  /\ UNCHANGED <<memory, paths, certs, posting, process>>

\* ... the block stored (the first of one address stays, the hash is indexed
\* in any case), ...
AddBlock(b) ==
  /\ b \in checked
  /\ checked' = checked \ {b}
  /\ hashes' = hashes \cup {b}
  /\ blocks' = IF b \in hashes \/ \E a \in blocks : a.index = b.index
               THEN blocks ELSE blocks \cup {b}
  /\ added' = IF b \notin hashes /\ IsRotation(b) THEN added \cup {b} ELSE added
  /\ UNCHANGED <<memory, paths, certs, posting, process>>

\* ... and a key change learnt.
LearnAdded(b) ==
  /\ b \in added
  /\ added' = added \ {b}
  /\ LearnRotation(b)
  /\ UNCHANGED <<disk, posting, checked, process>>

-----------------------------------------------------------------------------
(* Starts                                                                  *)

\* Mutant: key changes are not read back.
RestartWithoutRotations ==
  /\ restarts < MaxRestarts
  /\ restarts' = restarts + 1
  /\ path' = NoPath
  /\ rev' = NoRev
  /\ posting' = {} /\ checked' = {} /\ added' = {}
  /\ todo' = [paths |-> paths, certs |-> certs, rotations |-> {}]
  /\ before' = IF ~Serving THEN before
               ELSE IF posting = {} THEN [path |-> path, rev |-> rev] ELSE Nothing
  /\ UNCHANGED disk

\* The aggregator stops at any moment; its memory and the requests in progress
\* are gone, and load() begins: paths, then revocations, then key changes.
Restart ==
  /\ restarts < MaxRestarts
  /\ restarts' = restarts + 1
  /\ path' = NoPath
  /\ rev' = NoRev
  /\ posting' = {} /\ checked' = {} /\ added' = {}
  /\ todo' = [paths |-> paths, certs |-> certs,
              rotations |-> {b \in blocks : IsRotation(b)}]
  /\ before' = IF ~Serving THEN before
               ELSE IF posting = {} THEN [path |-> path, rev |-> rev] ELSE Nothing
  /\ UNCHANGED disk

\* Paths come in the order of the bytes of their keys: any order.
LoadPath(kp) ==
  /\ kp \in todo.paths
  /\ todo' = [todo EXCEPT !.paths = @ \ {kp}]
  /\ path' = PathAfter(path, kp)
  /\ UNCHANGED <<rev, disk, handlers, before, restarts>>

\* So do certificates, in the order of their hashes.
LoadRevocation(c) ==
  /\ todo.paths = {} /\ c \in todo.certs
  /\ todo' = [todo EXCEPT !.certs = @ \ {c}]
  /\ rev' = RevAfter(rev, c)
  /\ UNCHANGED <<path, disk, handlers, before, restarts>>

\* Key changes come in the order of the branch.
LoadRotation(b) ==
  /\ todo.paths = {} /\ todo.certs = {} /\ b \in todo.rotations
  /\ \A a \in todo.rotations : b.index <= a.index
  /\ todo' = [todo EXCEPT !.rotations = @ \ {b}]
  /\ LearnRotation(b)
  /\ UNCHANGED <<disk, handlers, before, restarts>>

-----------------------------------------------------------------------------
Init ==
  /\ path = NoPath /\ rev = NoRev
  /\ paths = {} /\ certs = {} /\ blocks = {} /\ hashes = {}
  /\ posting = {} /\ checked = {} /\ added = {}
  /\ todo = Done /\ before = Nothing /\ restarts = 0

Next ==
  \/ \E kp \in Paths : LearnPath(kp) \/ KeepPath(kp) \/ LoadPath(kp)
  \/ \E c \in Certs : LearnRevocation(c) \/ LoadRevocation(c)
  \/ \E b \in Blocks : \/ CheckBlock(b) \/ AddBlock(b) \/ LearnAdded(b)
                       \/ LoadRotation(b)
  \/ Restart

Spec == Init /\ [][Next]_vars

-----------------------------------------------------------------------------
(* Properties                                                              *)

\* One block per address on disk, every one of them indexed, and a key change
\* waits to be learnt only when it is indexed.
TypeOK ==
  /\ path \in AllPaths \cup {NoPath}
  /\ rev \in AllRevs \cup {NoRev}
  /\ paths \subseteq Paths /\ posting \subseteq Paths
  /\ certs \subseteq Certs
  /\ blocks \subseteq hashes /\ hashes \subseteq Blocks
  /\ \A a, b \in blocks : a.index = b.index => a = b
  /\ checked \subseteq Blocks
  /\ added \subseteq {b \in hashes : IsRotation(b)}
  /\ todo \in [paths : SUBSET Paths, certs : SUBSET Certs,
               rotations : SUBSET Blocks]
  /\ todo.certs \subseteq certs
  /\ todo.rotations \subseteq {b \in blocks : IsRotation(b)}
  /\ restarts \in 0..MaxRestarts

\* r says what the certificates heard come to.
Decides(r, heard) ==
  LET mine == {c \in heard : c.depth = r.depth}
  IN  IF r = NoRev THEN heard = {}
      ELSE /\ \A c \in heard : c.depth >= r.depth
           /\ \E c \in mine : c.since = r.since
           /\ \A c \in mine : c.since >= r.since
           /\ \E c \in mine : c.block = r.block /\ c.replacement = r.replacement
           /\ \A c \in mine : c.block <= r.block

\* Whatever the order in which certificates came, live or read back at a start:
\* the author nearest the root decides; within him the earliest compromise, and
\* his latest block names the replacement (learn_revocation).
HighestDecides == Decides(rev, certs \ todo.certs)

\* A line starts with the replacement, and an indexed key change dated after
\* the compromise hands it over from each key to the next.
LineHolds(r, indexed) ==
  /\ r.line = <<>> <=> r.replacement = NoKey
  /\ r.line # <<>> => r.line[1] = r.replacement
  /\ \A i \in 1..Len(r.line) - 1 :
       \E b \in indexed : /\ b.signer = r.line[i]
                          /\ b.next = r.line[i + 1]
                          /\ b.time > r.since

\* After a compromise only the replacement signs and the keys it handed over to
\* itself; a branch with no replacement is frozen (learn_rotation, keys_for).
ReplacementLine == rev # NoRev => LineHolds(rev, hashes)

\* The path the aggregator hands out with the key changes it added itself
\* passes the check every reader makes of it (KeyPathCert::verify).
ServedPathChecks == path # NoPath => PathChecks(path)

\* While it runs, what it knows of the branch's own keys only goes on: no
\* request puts another line in its place (branch_keys.cpp 53-57).
OwnLineGrows ==
  [][path # NoPath /\ path' # NoPath => CarriesOn(path, path')]_vars

\* What an owner who breaks no rule of his own keeps to: one block per address;
\* a key hands over once, and the key it names signs only blocks further on, not
\* dated before (validate_branch refuses any other order); his paths start from
\* the one node of the branch; a block of an author says one thing.
HonestOwner ==
  /\ OwnBlocks \subseteq Blocks /\ OwnPaths \subseteq Paths
  /\ \A a, b \in OwnBlocks : a.index = b.index => a = b
  /\ \A a, b \in OwnBlocks :
       IsRotation(a) /\ IsRotation(b) /\ a.signer = b.signer => a = b
  /\ \A a, b \in OwnBlocks :
       IsRotation(a) /\ b.signer = a.next => a.index < b.index /\ a.time <= b.time
  /\ \A p, q \in OwnPaths : p.node = q.node
  /\ \A p \in OwnPaths : \A i \in 1..Len(p.rotations) :
       p.rotations[i] \in OwnBlocks
  /\ \A c, d \in Certs :
       c.depth = d.depth /\ c.block = d.block => c.replacement = d.replacement

ASSUME OwnerAssumption == HonestOwner

\* The moment load() ends, with what was known at the stop.
Reloads == ~Serving /\ todo' = Done /\ before # Nothing

\* A restart takes nothing from the owner: while only he has sent anything, a
\* block of his that was taken before the stop is taken after load() as well
\* (load, server.h 99-101). Of a stop between the learning of a path and its
\* keeping nothing is said: the sender has no answer yet.
VerdictsSurviveRestart ==
  [][Reloads /\ hashes \subseteq OwnBlocks /\ paths \subseteq OwnPaths
     => \A b \in OwnBlocks : Accepts(before.path, before.rev, b)
                               => Accepts(path', rev', b)]_vars

\* A path known before the stop is known after it or carried on: "the first
\* stays" (branch_keys.cpp 53-57).
FirstStays ==
  [][Reloads /\ before.path # NoPath
     => path' # NoPath /\ CarriesOn(before.path, path')]_vars

=============================================================================
