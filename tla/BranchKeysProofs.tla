-------------------------- MODULE BranchKeysProofs --------------------------
(***************************************************************************)
(* For every set of blocks, certificates and paths, and any interleaving   *)
(* of requests, peers and restarts: which revocation decides a branch, who *)
(* signs after it, that the path handed out checks, and that a restart     *)
(* takes nothing from an owner who keeps his own rules.                    *)
(***************************************************************************)
EXTENDS BranchKeys, DataLemmas, TLAPS

-----------------------------------------------------------------------------
(* The table                                                               *)

\* Two words of one author: the shape and the fields of what they come to.
LEMMA SameAuthorFields ==
  ASSUME NEW cur \in AllRevs, NEW c \in AllCerts
  PROVE  /\ SameAuthor(cur, c) \in AllRevs
         /\ SameAuthor(cur, c).depth = cur.depth
         /\ SameAuthor(cur, c).since = Earlier(cur.since, c.since)
         /\ c.block > cur.block =>
              /\ SameAuthor(cur, c).block = c.block
              /\ SameAuthor(cur, c).replacement = c.replacement
              /\ SameAuthor(cur, c).line = <<>>
         /\ ~(c.block > cur.block) =>
              /\ SameAuthor(cur, c).block = cur.block
              /\ SameAuthor(cur, c).replacement = cur.replacement
              /\ SameAuthor(cur, c).line = cur.line
<1> DEFINE since == Earlier(cur.since, c.since)
<1>1. since \in Nat
  BY DEF Earlier, AllRevs, AllCerts
<1>2. /\ c.block \in Nat /\ c.replacement \in Keys \cup {NoKey}
      /\ <<>> \in Seq(Keys)
  BY DEF AllCerts
<1> HIDE DEF since
<1>3. CASE c.block > cur.block
  <2>1. SameAuthor(cur, c) = [cur EXCEPT !.since = since, !.block = c.block,
                                !.replacement = c.replacement, !.line = <<>>]
    BY <1>3 DEF SameAuthor, since
  <2> QED BY <1>1, <1>2, <1>3, <2>1 DEF AllRevs, since
<1>4. CASE ~(c.block > cur.block)
  <2>1. SameAuthor(cur, c) = [cur EXCEPT !.since = since]
    BY <1>4 DEF SameAuthor, since
  <2> QED BY <1>1, <1>4, <2>1 DEF AllRevs, since
<1> QED BY <1>3, <1>4

\* Learning a certificate gives a revocation of the right shape.
LEMMA RevAfterType ==
  ASSUME NEW cur \in AllRevs \cup {NoRev}, NEW c \in AllCerts
  PROVE  RevAfter(cur, c) \in AllRevs
<1>1. CASE cur # NoRev /\ c.depth > cur.depth
  BY <1>1 DEF RevAfter
<1>2. ASSUME NEW r \in AllRevs
      PROVE  WithLine(r) \in AllRevs
  <2>1. CASE r.line = <<>> /\ r.replacement # NoKey
    <3>1. r.replacement \in Keys
      BY <2>1 DEF AllRevs
    <3>2. <<r.replacement>> \in Seq(Keys)
      BY <3>1
    <3> QED BY <2>1, <3>2 DEF WithLine, AllRevs
  <2>2. CASE ~(r.line = <<>> /\ r.replacement # NoKey)
    BY <2>2 DEF WithLine
  <2> QED BY <2>1, <2>2
<1>3. CASE cur # NoRev /\ c.depth = cur.depth
  <2>1. cur \in AllRevs
    BY <1>3
  <2>2. SameAuthor(cur, c) \in AllRevs
    BY <2>1, SameAuthorFields
  <2>3. RevAfter(cur, c) = WithLine(SameAuthor(cur, c))
    BY <1>3, <2>1 DEF RevAfter, AllRevs, AllCerts
  <2> QED BY <2>2, <2>3, <1>2
<1>4. CASE ~(cur # NoRev /\ c.depth > cur.depth)
           /\ ~(cur # NoRev /\ c.depth = cur.depth)
  <2> DEFINE fresh == [depth |-> c.depth, block |-> c.block,
                       since |-> c.since, replacement |-> c.replacement,
                       line |-> <<>>]
  <2>1. fresh \in AllRevs
    BY DEF AllRevs, AllCerts
  <2>2. RevAfter(cur, c) = WithLine(fresh)
    BY <1>4 DEF RevAfter
  <2> QED BY <2>1, <2>2, <1>2
<1> QED BY <1>1, <1>3, <1>4

\* The line starts with the replacement and leaves the rest as it is.
LEMMA WithLineFields ==
  ASSUME NEW r \in AllRevs
  PROVE  /\ WithLine(r).depth = r.depth
         /\ WithLine(r).block = r.block
         /\ WithLine(r).since = r.since
         /\ WithLine(r).replacement = r.replacement
         /\ WithLine(r).line = IF r.line = <<>> /\ r.replacement # NoKey
                               THEN <<r.replacement>> ELSE r.line
BY DEF WithLine, AllRevs

\* What deciding asks of a revocation, certificate by certificate.
LEMMA DecidesWhen ==
  ASSUME NEW r, r # NoRev, NEW heard,
         \A d \in heard : d.depth >= r.depth,
         \E d \in heard : d.depth = r.depth /\ d.since = r.since,
         \A d \in heard : d.depth = r.depth => d.since >= r.since,
         \E d \in heard : /\ d.depth = r.depth /\ d.block = r.block
                          /\ d.replacement = r.replacement,
         \A d \in heard : d.depth = r.depth => d.block <= r.block
  PROVE  Decides(r, heard)
BY DEF Decides

\* One more certificate leaves the revocation that decides in charge.
LEMMA DecidesAfter ==
  ASSUME NEW cur \in AllRevs \cup {NoRev}, NEW c \in AllCerts,
         NEW heard \in SUBSET AllCerts, Decides(cur, heard)
  PROVE  Decides(RevAfter(cur, c), heard \cup {c})
<1>0. RevAfter(cur, c) # NoRev
  BY RevAfterType, NothingAssumption
<1>1. CASE cur # NoRev /\ c.depth > cur.depth
  <2>1. cur \in AllRevs /\ RevAfter(cur, c) = cur
    BY <1>1 DEF RevAfter
  <2>2. {d \in heard \cup {c} : d.depth = cur.depth}
          = {d \in heard : d.depth = cur.depth}
    BY <1>1, <2>1 DEF AllRevs, AllCerts
  <2> QED BY <1>0, <1>1, <2>1, <2>2 DEF Decides, AllRevs, AllCerts
<1>2. CASE cur # NoRev /\ c.depth = cur.depth
  <2> DEFINE new == SameAuthor(cur, c)
  <2>1. cur \in AllRevs
    BY <1>2
  <2>3. new \in AllRevs
    BY <2>1, SameAuthorFields
  <2>4. RevAfter(cur, c) = WithLine(new)
    BY <1>2, <2>1 DEF RevAfter, AllRevs, AllCerts
  <2>5. /\ new.depth = cur.depth
        /\ new.since = Earlier(cur.since, c.since)
        /\ new.block = IF c.block > cur.block THEN c.block ELSE cur.block
        /\ new.replacement = IF c.block > cur.block THEN c.replacement
                             ELSE cur.replacement
    BY <2>1, SameAuthorFields
  <2> HIDE DEF new
  <2>6. /\ \A d \in heard : d.depth >= cur.depth
        /\ \E d \in heard : d.depth = cur.depth /\ d.since = cur.since
        /\ \A d \in heard : d.depth = cur.depth => d.since >= cur.since
        /\ \E d \in heard : /\ d.depth = cur.depth /\ d.block = cur.block
                            /\ d.replacement = cur.replacement
        /\ \A d \in heard : d.depth = cur.depth => d.block <= cur.block
    BY <1>2 DEF Decides
  <2> DEFINE all == heard \cup {c}
  <2>7. \A d \in all : d.depth >= new.depth
    BY <1>2, <2>5, <2>6, <2>1 DEF AllRevs, AllCerts
  <2>8. /\ \E d \in all : d.depth = new.depth /\ d.since = new.since
        /\ \A d \in all : d.depth = new.depth => d.since >= new.since
    BY <1>2, <2>5, <2>6, <2>1 DEF AllRevs, AllCerts, Earlier
  <2>9. \E d \in all : /\ d.depth = new.depth /\ d.block = new.block
                       /\ d.replacement = new.replacement
    BY <1>2, <2>5, <2>6, <2>1 DEF AllRevs, AllCerts
  <2>10. \A d \in all : d.depth = new.depth => d.block <= new.block
    BY <1>2, <2>5, <2>6, <2>1 DEF AllRevs, AllCerts
  <2> QED
    <3> DEFINE done == WithLine(new)
    <3>1. /\ done.depth = new.depth /\ done.since = new.since
          /\ done.block = new.block /\ done.replacement = new.replacement
      BY <2>3, WithLineFields
    <3>2. done # NoRev
      BY <1>0, <2>4
    <3> HIDE DEF done
    <3>3. Decides(done, all)
      BY <2>7, <2>8, <2>9, <2>10, <3>1, <3>2, DecidesWhen
    <3> QED BY <2>4, <3>3 DEF done
<1>3. CASE ~(cur # NoRev /\ c.depth > cur.depth)
           /\ ~(cur # NoRev /\ c.depth = cur.depth)
  <2> DEFINE fresh == [depth |-> c.depth, block |-> c.block,
                       since |-> c.since, replacement |-> c.replacement,
                       line |-> <<>>]
  <2>1. fresh \in AllRevs
    BY DEF AllRevs, AllCerts
  <2>2. RevAfter(cur, c) = WithLine(fresh)
    BY <1>3 DEF RevAfter
  <2>3. /\ fresh.depth = c.depth /\ fresh.block = c.block
        /\ fresh.since = c.since /\ fresh.replacement = c.replacement
    OBVIOUS
  <2> HIDE DEF fresh
  <2>4. \A d \in heard : d.depth > c.depth
    <3>1. CASE cur = NoRev
      BY <3>1 DEF Decides
    <3>2. CASE cur # NoRev
      <4>1. cur.depth > c.depth
        BY <1>3, <3>2 DEF AllRevs, AllCerts
      <4> QED BY <4>1, <3>2 DEF Decides, AllRevs, AllCerts
    <3> QED BY <3>1, <3>2
  <2>5. \A d \in heard \cup {c} :
          d.depth >= c.depth /\ (d.depth = c.depth => d = c)
    BY <2>4 DEF AllCerts
  <2> DEFINE done == WithLine(fresh)
  <2>6. /\ done.depth = c.depth /\ done.since = c.since
        /\ done.block = c.block /\ done.replacement = c.replacement
    BY <2>1, <2>3, WithLineFields
  <2>7. done # NoRev
    BY <1>0, <2>2
  <2> HIDE DEF done
  <2>8. c.since >= c.since /\ c.block <= c.block
    BY DEF AllCerts
  <2>9. Decides(done, heard \cup {c})
    BY <2>5, <2>6, <2>7, <2>8, DecidesWhen
  <2> QED BY <2>2, <2>9 DEF done
<1> QED BY <1>1, <1>2, <1>3

\* A key change keeps the shape of what is known.
LEMMA RotationType ==
  ASSUME path \in AllPaths \cup {NoPath}, rev \in AllRevs \cup {NoRev},
         NEW b \in AllBlocks, IsRotation(b), LearnRotation(b)
  PROVE  path' \in AllPaths \cup {NoPath} /\ rev' \in AllRevs \cup {NoRev}
<1>1. rev' \in AllRevs \cup {NoRev}
  <2>1. CASE ContinuesLine(b)
    <3>1. rev \in AllRevs /\ b.next \in Keys
      BY <2>1 DEF ContinuesLine, PastCompromise, IsRotation, AllBlocks
    <3>2. rev.line \in Seq(Keys)
      BY <3>1 DEF AllRevs
    <3>3. Append(rev.line, b.next) \in Seq(Keys)
      BY <3>1, <3>2
    <3>4. rev' = [rev EXCEPT !.line = Append(rev.line, b.next)]
      BY <2>1 DEF LearnRotation
    <3> QED BY <3>1, <3>3, <3>4 DEF AllRevs
  <2>2. CASE ~ContinuesLine(b)
    BY <2>2 DEF LearnRotation
  <2> QED BY <2>1, <2>2
<1>2. path' \in AllPaths \cup {NoPath}
  <2>1. CASE ContinuesPath(b)
    <3>1. path \in AllPaths
      BY <2>1 DEF ContinuesPath
    <3>2. path.rotations \in Seq(AllBlocks)
      BY <3>1 DEF AllPaths
    <3>3. Append(path.rotations, b) \in Seq(AllBlocks)
      BY <3>2
    <3>4. path' = [path EXCEPT !.rotations = Append(path.rotations, b)]
      BY <2>1 DEF LearnRotation
    <3> QED BY <3>1, <3>3, <3>4 DEF AllPaths
  <2>2. CASE ~ContinuesPath(b)
    BY <2>2 DEF LearnRotation
  <2> QED BY <2>1, <2>2
<1> QED BY <1>1, <1>2

-----------------------------------------------------------------------------
(* Types                                                                   *)

LEMMA InitType == Init => TypeOK
<1> SUFFICES ASSUME Init PROVE TypeOK
  OBVIOUS
<1>1. todo \in [paths : SUBSET Paths, certs : SUBSET Certs,
                rotations : SUBSET Blocks]
  BY DEF Init, Done
<1>2. restarts \in 0..MaxRestarts
  BY RestartsAssumption DEF Init
<1> QED BY <1>1, <1>2 DEF Init, TypeOK, Done

LEMMA NextType == TypeOK /\ [Next]_vars => TypeOK'
<1> SUFFICES ASSUME TypeOK, [Next]_vars PROVE TypeOK'
  OBVIOUS
<1> USE BlocksAssumption, CertsAssumption, PathsAssumption
<1>1. ASSUME NEW kp \in Paths, LearnPath(kp) PROVE TypeOK'
  <2>1. path' \in AllPaths \cup {NoPath}
    BY <1>1 DEF LearnPath, PathAfter, TypeOK
  <2> QED BY <1>1, <2>1 DEF LearnPath, TypeOK, disk, process
<1>2. ASSUME NEW kp \in Paths, KeepPath(kp) PROVE TypeOK'
  BY <1>2 DEF KeepPath, TypeOK, memory, process
<1>3. ASSUME NEW kp \in Paths, LoadPath(kp) PROVE TypeOK'
  <2>1. path' \in AllPaths \cup {NoPath}
    BY <1>3 DEF LoadPath, PathAfter, TypeOK
  <2>2. /\ todo' \in [paths : SUBSET Paths, certs : SUBSET Certs,
                      rotations : SUBSET Blocks]
        /\ todo'.certs = todo.certs /\ todo'.rotations = todo.rotations
    BY <1>3 DEF LoadPath, TypeOK
  <2> QED BY <1>3, <2>1, <2>2 DEF LoadPath, TypeOK, disk, handlers
<1>4. ASSUME NEW c \in Certs, LearnRevocation(c) PROVE TypeOK'
  <2>1. rev' \in AllRevs \cup {NoRev}
    BY <1>4, RevAfterType DEF LearnRevocation, TypeOK
  <2> QED BY <1>4, <2>1 DEF LearnRevocation, TypeOK, handlers, process
<1>5. ASSUME NEW c \in Certs, LoadRevocation(c) PROVE TypeOK'
  <2>1. rev' \in AllRevs \cup {NoRev}
    BY <1>5, RevAfterType DEF LoadRevocation, TypeOK
  <2>2. /\ todo' \in [paths : SUBSET Paths, certs : SUBSET Certs,
                      rotations : SUBSET Blocks]
        /\ todo'.certs \subseteq todo.certs
        /\ todo'.rotations = todo.rotations
    BY <1>5 DEF LoadRevocation, TypeOK
  <2> QED BY <1>5, <2>1, <2>2 DEF LoadRevocation, TypeOK, disk, handlers
<1>6. ASSUME NEW b \in Blocks, CheckBlock(b) PROVE TypeOK'
  BY <1>6 DEF CheckBlock, TypeOK, memory, disk, process
<1>7. ASSUME NEW b \in Blocks, AddBlock(b) PROVE TypeOK'
  <2>1. /\ blocks \subseteq blocks' /\ hashes \subseteq hashes'
        /\ blocks' \subseteq hashes' /\ hashes' \subseteq Blocks
        /\ added' \subseteq {d \in hashes' : IsRotation(d)}
        /\ checked' \subseteq Blocks
    BY <1>7 DEF AddBlock, TypeOK
  <2>2. \A a, d \in blocks' : a.index = d.index => a = d
    BY <1>7 DEF AddBlock, TypeOK
  <2> QED BY <1>7, <2>1, <2>2 DEF AddBlock, TypeOK, memory, process
<1>8. ASSUME NEW b \in Blocks, LearnAdded(b) PROVE TypeOK'
  <2>1. path' \in AllPaths \cup {NoPath} /\ rev' \in AllRevs \cup {NoRev}
    <3>1. b \in AllBlocks /\ IsRotation(b) /\ LearnRotation(b)
      BY <1>8 DEF LearnAdded, TypeOK
    <3> QED BY <3>1, RotationType DEF TypeOK
  <2> QED BY <1>8, <2>1 DEF LearnAdded, TypeOK, disk, process
<1>9. ASSUME NEW b \in Blocks, LoadRotation(b) PROVE TypeOK'
  <2>1. path' \in AllPaths \cup {NoPath} /\ rev' \in AllRevs \cup {NoRev}
    <3>1. b \in AllBlocks /\ IsRotation(b) /\ LearnRotation(b)
      BY <1>9 DEF LoadRotation, TypeOK
    <3> QED BY <3>1, RotationType DEF TypeOK
  <2>2. /\ todo' \in [paths : SUBSET Paths, certs : SUBSET Certs,
                      rotations : SUBSET Blocks]
        /\ todo'.certs = todo.certs
        /\ todo'.rotations \subseteq todo.rotations
    BY <1>9 DEF LoadRotation, TypeOK
  <2> QED BY <1>9, <2>1, <2>2 DEF LoadRotation, TypeOK, disk, handlers
<1>10. CASE Restart
  <2>1. /\ todo' \in [paths : SUBSET Paths, certs : SUBSET Certs,
                      rotations : SUBSET Blocks]
        /\ todo'.certs = certs
        /\ todo'.rotations = {b \in blocks : IsRotation(b)}
    BY <1>10 DEF Restart, TypeOK
  <2>2. restarts' \in 0..MaxRestarts
    BY <1>10, RestartsAssumption DEF Restart, TypeOK
  <2> QED BY <1>10, <2>1, <2>2 DEF Restart, TypeOK, disk
<1>11. CASE UNCHANGED vars
  BY <1>11 DEF vars, memory, disk, handlers, process, TypeOK
<1> QED
  BY <1>1, <1>2, <1>3, <1>4, <1>5, <1>6, <1>7, <1>8, <1>9, <1>10, <1>11 DEF Next

\* The table, the disk and the requests in progress keep their shape, and the
\* disk one block per address.
THEOREM KeysTypeCorrect == Spec => []TypeOK
BY InitType, NextType, PTL DEF Spec

-----------------------------------------------------------------------------
(* Which revocation decides                                                *)

\* Certificates learnt: all on disk but those load() has not come to.
Heard == certs \ todo.certs

\* A key change moves the line only.
LEMMA RotationDecides ==
  ASSUME TypeOK, NEW b \in Blocks, IsRotation(b), LearnRotation(b),
         NEW heard, Decides(rev, heard)
  PROVE  Decides(rev', heard)
<1>1. CASE ContinuesLine(b)
  <2>1. rev \in AllRevs /\ rev # NoRev
    BY <1>1 DEF ContinuesLine, PastCompromise, TypeOK
  <2>2. rev' = [rev EXCEPT !.line = Append(rev.line, b.next)]
    BY <1>1 DEF LearnRotation
  <2>3. /\ rev'.depth = rev.depth /\ rev'.since = rev.since
        /\ rev'.block = rev.block /\ rev'.replacement = rev.replacement
    BY <2>1, <2>2 DEF AllRevs
  <2>4. rev' # NoRev
    <3>1. Append(rev.line, b.next) \in Seq(Keys)
      <4>1. b.next \in Keys
        BY BlocksAssumption DEF IsRotation, AllBlocks
      <4>2. rev.line \in Seq(Keys)
        BY <2>1 DEF AllRevs
      <4> QED BY <4>1, <4>2
    <3>2. rev' \in AllRevs
      BY <2>1, <2>2, <3>1 DEF AllRevs
    <3> QED BY <3>2, NothingAssumption
  <2> QED BY <2>1, <2>3, <2>4, DecidesWhen DEF Decides
<1>2. CASE ~ContinuesLine(b)
  BY <1>2 DEF LearnRotation
<1> QED BY <1>1, <1>2

LEMMA HighestNext == TypeOK /\ HighestDecides /\ [Next]_vars => HighestDecides'
<1> SUFFICES ASSUME TypeOK, HighestDecides, [Next]_vars
             PROVE  Decides(rev', Heard')
  BY DEF HighestDecides, Heard
<1>1. Decides(rev, Heard)
  BY DEF HighestDecides, Heard
<1>2. Heard \in SUBSET AllCerts
  BY CertsAssumption DEF Heard, TypeOK
<1>3. ASSUME NEW kp \in Paths, LearnPath(kp) PROVE Decides(rev', Heard')
  BY <1>1, <1>3 DEF LearnPath, disk, process, Heard
<1>4. ASSUME NEW kp \in Paths, KeepPath(kp) PROVE Decides(rev', Heard')
  BY <1>1, <1>4 DEF KeepPath, memory, process, Heard
<1>5. ASSUME NEW kp \in Paths, LoadPath(kp) PROVE Decides(rev', Heard')
  <2>1. todo'.certs = todo.certs
    BY <1>5 DEF LoadPath, TypeOK
  <2> QED BY <1>1, <1>5, <2>1 DEF LoadPath, disk, Heard
<1>6. ASSUME NEW c \in Certs, LearnRevocation(c) PROVE Decides(rev', Heard')
  <2>1. Heard' = Heard \cup {c}
    BY <1>6 DEF LearnRevocation, process, Serving, Done, Heard
  <2>2. c \in AllCerts /\ rev \in AllRevs \cup {NoRev}
    BY CertsAssumption DEF TypeOK
  <2> QED BY <1>1, <1>2, <1>6, <2>1, <2>2, DecidesAfter DEF LearnRevocation
<1>7. ASSUME NEW c \in Certs, LoadRevocation(c) PROVE Decides(rev', Heard')
  <2>1. todo'.certs = todo.certs \ {c}
    BY <1>7 DEF LoadRevocation, TypeOK
  <2>2. Heard' = Heard \cup {c}
    BY <1>7, <2>1 DEF LoadRevocation, disk, Heard, TypeOK
  <2>3. c \in AllCerts /\ rev \in AllRevs \cup {NoRev}
    BY CertsAssumption DEF TypeOK
  <2> QED BY <1>1, <1>2, <1>7, <2>2, <2>3, DecidesAfter DEF LoadRevocation
<1>8. ASSUME NEW b \in Blocks, CheckBlock(b) PROVE Decides(rev', Heard')
  BY <1>1, <1>8 DEF CheckBlock, memory, disk, process, Heard
<1>9. ASSUME NEW b \in Blocks, AddBlock(b) PROVE Decides(rev', Heard')
  BY <1>1, <1>9 DEF AddBlock, memory, process, Heard
<1>10. ASSUME NEW b \in Blocks, LearnAdded(b) PROVE Decides(rev', Heard')
  <2>1. Heard' = Heard
    BY <1>10 DEF LearnAdded, disk, process, Heard
  <2>2. IsRotation(b) /\ LearnRotation(b)
    BY <1>10 DEF LearnAdded, TypeOK
  <2> QED BY <1>1, <2>1, <2>2, RotationDecides
<1>11. ASSUME NEW b \in Blocks, LoadRotation(b) PROVE Decides(rev', Heard')
  <2>1. todo'.certs = todo.certs
    BY <1>11 DEF LoadRotation, TypeOK
  <2>2. Heard' = Heard
    BY <1>11, <2>1 DEF LoadRotation, disk, Heard
  <2>3. IsRotation(b) /\ LearnRotation(b)
    BY <1>11 DEF LoadRotation, TypeOK
  <2> QED BY <1>1, <2>2, <2>3, RotationDecides
<1>12. CASE Restart
  <2>1. rev' = NoRev /\ Heard' = {}
    BY <1>12 DEF Restart, disk, Heard
  <2> QED BY <2>1 DEF Decides
<1>13. CASE UNCHANGED vars
  BY <1>1, <1>13 DEF vars, memory, disk, process, Heard
<1> QED
  BY <1>3, <1>4, <1>5, <1>6, <1>7, <1>8, <1>9, <1>10, <1>11, <1>12, <1>13
  DEF Next

\* Whatever came in whatever order, and after any restart: the author nearest
\* the root decides, with his earliest compromise and his latest replacement.
THEOREM HighestAuthorDecides == Spec => []HighestDecides
<1>1. Init => HighestDecides
  BY DEF Init, HighestDecides, Decides, Done
<1> QED
  BY <1>1, InitType, NextType, HighestNext, PTL DEF Spec

-----------------------------------------------------------------------------
(* Who signs after a compromise                                            *)

\* The line starts with the replacement.
LEMMA WithLineHolds ==
  ASSUME NEW r \in AllRevs, NEW indexed,
         r.line = <<>> \/ LineHolds(r, indexed)
  PROVE  LineHolds(WithLine(r), indexed)
<1>1. CASE r.line = <<>> /\ r.replacement # NoKey
  <2>1. /\ WithLine(r).line = <<r.replacement>>
        /\ WithLine(r).replacement = r.replacement
    BY <1>1, WithLineFields
  <2>2. /\ <<r.replacement>> # <<>>
        /\ <<r.replacement>>[1] = r.replacement
        /\ 1..Len(<<r.replacement>>) - 1 = {}
    OBVIOUS
  <2> QED BY <1>1, <2>1, <2>2 DEF LineHolds
<1>2. CASE ~(r.line = <<>> /\ r.replacement # NoKey)
  <2>1. WithLine(r) = r
    BY <1>2 DEF WithLine
  <2>2. ASSUME r.line = <<>> PROVE LineHolds(r, indexed)
    <3>1. 1..Len(r.line) - 1 = {}
      BY <2>2
    <3> QED BY <1>2, <2>2, <3>1 DEF LineHolds
  <2> QED BY <2>1, <2>2
<1> QED BY <1>1, <1>2

\* A further certificate leaves the line or starts another.
LEMMA RevAfterLine ==
  ASSUME NEW cur \in AllRevs \cup {NoRev}, NEW c \in AllCerts,
         NEW indexed \in SUBSET AllBlocks,
         cur # NoRev => LineHolds(cur, indexed)
  PROVE  LineHolds(RevAfter(cur, c), indexed)
<1>1. CASE cur # NoRev /\ c.depth > cur.depth
  BY <1>1 DEF RevAfter
<1>2. CASE cur # NoRev /\ c.depth = cur.depth
  <2> DEFINE new == SameAuthor(cur, c)
  <2>1. cur \in AllRevs
    BY <1>2
  <2>2. RevAfter(cur, c) = WithLine(new) /\ new \in AllRevs
    BY <1>2, <2>1, SameAuthorFields DEF RevAfter, AllRevs, AllCerts
  <2>3. CASE c.block > cur.block
    <3>1. new.line = <<>>
      BY <2>1, <2>3, SameAuthorFields
    <3> QED BY <2>2, <3>1, WithLineHolds
  <2>4. CASE ~(c.block > cur.block)
    <3>1. /\ new.line = cur.line /\ new.replacement = cur.replacement
          /\ new.since = Earlier(cur.since, c.since)
      BY <2>1, <2>4, SameAuthorFields
    <3>2. \A b \in indexed : b.time > cur.since => b.time > new.since
      BY <2>1, <3>1 DEF Earlier, AllRevs, AllCerts, AllBlocks
    <3> HIDE DEF new
    <3>3. LineHolds(new, indexed)
      <4>1. LineHolds(cur, indexed)
        BY <1>2
      <4> QED BY <3>1, <3>2, <4>1 DEF LineHolds
    <3> QED BY <2>2, <3>3, WithLineHolds
  <2> QED BY <2>3, <2>4
<1>3. CASE ~(cur # NoRev /\ c.depth > cur.depth)
           /\ ~(cur # NoRev /\ c.depth = cur.depth)
  <2> DEFINE fresh == [depth |-> c.depth, block |-> c.block,
                       since |-> c.since, replacement |-> c.replacement,
                       line |-> <<>>]
  <2>1. fresh \in AllRevs /\ fresh.line = <<>>
    BY DEF AllRevs, AllCerts
  <2>2. RevAfter(cur, c) = WithLine(fresh)
    BY <1>3 DEF RevAfter
  <2> QED BY <2>1, <2>2, WithLineHolds
<1> QED BY <1>1, <1>2, <1>3

\* A key change on disk carries the line on by one key.
LEMMA RotationLine ==
  ASSUME TypeOK, NEW b \in hashes, IsRotation(b), LearnRotation(b),
         ReplacementLine
  PROVE  rev' # NoRev => LineHolds(rev', hashes)
<1>1. CASE ContinuesLine(b)
  <2>1. /\ rev \in AllRevs /\ rev # NoRev /\ b.time > rev.since
        /\ rev.line # <<>> /\ b.signer = rev.line[Len(rev.line)]
    BY <1>1 DEF ContinuesLine, PastCompromise, LastOf, TypeOK
  <2>2. b.next \in Keys
    BY BlocksAssumption DEF IsRotation, AllBlocks, TypeOK
  <2>3. rev.line \in Seq(Keys)
    BY <2>1 DEF AllRevs
  <2> DEFINE longer == Append(rev.line, b.next)
  <2>4. /\ longer # <<>> /\ Len(longer) = Len(rev.line) + 1
        /\ Len(rev.line) \in Nat \ {0}
        /\ longer[Len(rev.line) + 1] = b.next
        /\ \A i \in 1..Len(rev.line) : longer[i] = rev.line[i]
    BY <2>1, <2>2, <2>3
  <2>5. rev' = [rev EXCEPT !.line = longer]
    BY <1>1 DEF LearnRotation
  <2>6. /\ rev'.line = longer /\ rev'.replacement = rev.replacement
        /\ rev'.since = rev.since
    BY <2>1, <2>5 DEF AllRevs
  <2>7. LineHolds(rev, hashes)
    BY <2>1 DEF ReplacementLine
  <2> HIDE DEF longer
  <2>8. rev'.line = <<>> <=> rev'.replacement = NoKey
    BY <2>1, <2>4, <2>6, <2>7 DEF LineHolds
  <2>9. rev'.line[1] = rev'.replacement
    BY <2>1, <2>4, <2>6, <2>7 DEF LineHolds
  <2>10. ASSUME NEW i \in 1..Len(longer) - 1
         PROVE  \E d \in hashes : /\ d.signer = longer[i]
                                  /\ d.next = longer[i + 1]
                                  /\ d.time > rev.since
    <3>1. CASE i = Len(rev.line)
      BY <2>1, <2>4, <3>1
    <3>2. CASE i # Len(rev.line)
      <4>1. i \in 1..Len(rev.line) - 1 /\ i + 1 \in 1..Len(rev.line)
        BY <2>4, <3>2
      <4>2. longer[i] = rev.line[i] /\ longer[i + 1] = rev.line[i + 1]
        BY <2>4, <4>1
      <4> QED BY <2>7, <4>1, <4>2 DEF LineHolds
    <3> QED BY <3>1, <3>2
  <2> QED BY <2>6, <2>8, <2>9, <2>10 DEF LineHolds
<1>2. CASE ~ContinuesLine(b)
  BY <1>2 DEF LearnRotation, ReplacementLine
<1> QED BY <1>1, <1>2

LEMMA LineNext == TypeOK /\ ReplacementLine /\ [Next]_vars => ReplacementLine'
<1> SUFFICES ASSUME TypeOK, ReplacementLine, [Next]_vars
             PROVE  ReplacementLine'
  OBVIOUS
<1>1. hashes \in SUBSET AllBlocks
  BY BlocksAssumption DEF TypeOK
<1>2. ASSUME NEW kp \in Paths, LearnPath(kp) PROVE ReplacementLine'
  BY <1>2 DEF LearnPath, disk, ReplacementLine
<1>3. ASSUME NEW kp \in Paths, KeepPath(kp) PROVE ReplacementLine'
  BY <1>3 DEF KeepPath, memory, ReplacementLine
<1>4. ASSUME NEW kp \in Paths, LoadPath(kp) PROVE ReplacementLine'
  BY <1>4 DEF LoadPath, disk, ReplacementLine
<1>5. ASSUME NEW c \in Certs, LearnRevocation(c) PROVE ReplacementLine'
  <2>1. c \in AllCerts /\ rev \in AllRevs \cup {NoRev}
    BY CertsAssumption DEF TypeOK
  <2>2. LineHolds(RevAfter(rev, c), hashes)
    BY <1>1, <2>1, RevAfterLine DEF ReplacementLine
  <2> QED BY <1>5, <2>2 DEF LearnRevocation, ReplacementLine
<1>6. ASSUME NEW c \in Certs, LoadRevocation(c) PROVE ReplacementLine'
  <2>1. c \in AllCerts /\ rev \in AllRevs \cup {NoRev}
    BY CertsAssumption DEF TypeOK
  <2>2. LineHolds(RevAfter(rev, c), hashes)
    BY <1>1, <2>1, RevAfterLine DEF ReplacementLine
  <2> QED BY <1>6, <2>2 DEF LoadRevocation, disk, ReplacementLine
<1>7. ASSUME NEW b \in Blocks, CheckBlock(b) PROVE ReplacementLine'
  BY <1>7 DEF CheckBlock, memory, disk, ReplacementLine
<1>8. ASSUME NEW b \in Blocks, AddBlock(b) PROVE ReplacementLine'
  <2>1. rev' = rev /\ hashes \subseteq hashes'
    BY <1>8 DEF AddBlock, memory
  <2> QED BY <2>1 DEF ReplacementLine, LineHolds
<1>9. ASSUME NEW b \in Blocks, LearnAdded(b) PROVE ReplacementLine'
  <2>1. b \in hashes /\ IsRotation(b) /\ LearnRotation(b)
    BY <1>9 DEF LearnAdded, TypeOK
  <2>2. hashes' = hashes
    BY <1>9 DEF LearnAdded, disk
  <2> QED BY <2>1, <2>2, RotationLine DEF ReplacementLine
<1>10. ASSUME NEW b \in Blocks, LoadRotation(b) PROVE ReplacementLine'
  <2>1. b \in hashes /\ IsRotation(b) /\ LearnRotation(b)
    BY <1>10 DEF LoadRotation, TypeOK
  <2>2. hashes' = hashes
    BY <1>10 DEF LoadRotation, disk
  <2> QED BY <2>1, <2>2, RotationLine DEF ReplacementLine
<1>11. CASE Restart
  BY <1>11 DEF Restart, ReplacementLine
<1>12. CASE UNCHANGED vars
  BY <1>12 DEF vars, memory, disk, ReplacementLine
<1> QED
  BY <1>2, <1>3, <1>4, <1>5, <1>6, <1>7, <1>8, <1>9, <1>10, <1>11, <1>12 DEF Next

\* After a compromise a key counts only if the replacement, by key changes of
\* its own dated after the compromise, came to it.
THEOREM OnlyTheReplacementSigns == Spec => []ReplacementLine
<1>1. Init => ReplacementLine
  BY DEF Init, ReplacementLine
<1> QED
  BY <1>1, InitType, NextType, LineNext, PTL DEF Spec

-----------------------------------------------------------------------------
(* The path handed out                                                     *)

\* The line of a path: the node key, then what each change named.
LEMMA OwnLineAt ==
  ASSUME NEW kp \in AllPaths
  PROVE  /\ Len(OwnLine(kp)) = Len(kp.rotations) + 1
         /\ OwnLine(kp)[1] = kp.node
         /\ \A i \in 1..Len(kp.rotations) :
              OwnLine(kp)[i + 1] = kp.rotations[i].next
<1> DEFINE n == Len(kp.rotations)
           named == [i \in 1..n |-> kp.rotations[i].next]
           All == Keys \cup {NoKey}
<1>1. kp.node \in All /\ kp.rotations \in Seq(AllBlocks) /\ n \in Nat
  BY DEF AllPaths
<1>2. ASSUME NEW i \in 1..n PROVE kp.rotations[i].next \in All
  <2>1. kp.rotations[i] \in AllBlocks
    BY <1>1
  <2> QED BY <2>1 DEF AllBlocks
<1>3. /\ named \in Seq(All) /\ Len(named) = n
      /\ \A i \in 1..n : named[i] = kp.rotations[i].next
  BY <1>1, <1>2
<1>4. <<kp.node>> \in Seq(All) /\ Len(<<kp.node>>) = 1
  BY <1>1
<1>5. OwnLine(kp) = <<kp.node>> \o named
  BY DEF OwnLine
<1> HIDE DEF named, All, n
<1>6. /\ Len(OwnLine(kp)) = 1 + n
      /\ OwnLine(kp)[1] = kp.node
      /\ \A i \in 1..n : OwnLine(kp)[i + 1] = named[i]
  BY <1>1, <1>3, <1>4, <1>5
<1> QED BY <1>1, <1>3, <1>6 DEF n

\* The next key change of the branch keeps its path checkable, and carries it on.
LEMMA RotationPath ==
  ASSUME TypeOK, NEW b \in Blocks, IsRotation(b), ContinuesPath(b),
         PathChecks(path), LearnRotation(b)
  PROVE  PathChecks(path') /\ CarriesOn(path, path')
<1> DEFINE old == path.rotations
           new == Append(old, b)
           n   == Len(old)
<1>1. path \in AllPaths
  BY DEF ContinuesPath, TypeOK
<1>2. b \in AllBlocks
  BY BlocksAssumption
<1>3. old \in Seq(AllBlocks) /\ n \in Nat
  BY <1>1 DEF AllPaths
<1>4. /\ new \in Seq(AllBlocks) /\ Len(new) = n + 1 /\ new[n + 1] = b
      /\ \A i \in 1..n : new[i] = old[i]
  BY <1>2, <1>3
<1>5. path' = [path EXCEPT !.rotations = new]
  BY DEF LearnRotation
<1>6. path'.rotations = new /\ path'.node = path.node /\ path' \in AllPaths
  BY <1>1, <1>4, <1>5 DEF AllPaths
<1>7. b.signer = OwnLine(path)[n + 1]
  BY <1>1, OwnLineAt DEF ContinuesPath, LastOf
<1>8. n > 0 => b.index > old[n].index
  BY <1>3 DEF ContinuesPath, LastOf
<1> HIDE DEF new
<1>9. \A i \in 1..n + 1 : OwnLine(path')[i] = OwnLine(path)[i]
  <2>1. OwnLine(path')[1] = OwnLine(path)[1]
    BY <1>1, <1>6, OwnLineAt
  <2>2. ASSUME NEW i \in 1..n
        PROVE  OwnLine(path')[i + 1] = OwnLine(path)[i + 1]
    <3>1. OwnLine(path)[i + 1] = old[i].next
      BY <1>1, OwnLineAt
    <3>2. i \in 1..Len(path'.rotations)
      BY <1>3, <1>4, <1>6
    <3>3. OwnLine(path')[i + 1] = path'.rotations[i].next
      BY <1>6, <3>2, OwnLineAt
    <3> QED BY <1>4, <1>6, <3>1, <3>3
  <2>3. ASSUME NEW i \in 1..n + 1
        PROVE  i = 1 \/ (i - 1 \in 1..n /\ (i - 1) + 1 = i)
    BY <1>3
  <2> QED BY <2>1, <2>2, <2>3
<1>10. ASSUME NEW i \in 1..n + 1
       PROVE  /\ IsRotation(new[i])
              /\ new[i].signer = OwnLine(path')[i]
              /\ i > 1 => new[i].index > new[i - 1].index
  <2>1. CASE i = n + 1
    <3>1. new[i] = b /\ (i > 1 => n > 0 /\ new[i - 1] = old[n])
      BY <1>3, <1>4, <2>1
    <3> QED BY <1>7, <1>8, <1>9, <2>1, <3>1
  <2>2. CASE i # n + 1
    <3>1. i \in 1..n /\ new[i] = old[i] /\ (i > 1 => new[i - 1] = old[i - 1])
      BY <1>3, <1>4, <2>2
    <3> QED BY <1>9, <3>1 DEF PathChecks
  <2> QED BY <2>1, <2>2
<1>11. PathChecks(path')
  BY <1>4, <1>6, <1>10 DEF PathChecks
<1>12. CarriesOn(path, path')
  BY <1>3, <1>4, <1>6 DEF CarriesOn
<1> QED BY <1>11, <1>12

\* A known path is carried on by itself.
LEMMA CarriesOnItself ==
  ASSUME NEW kp \in AllPaths PROVE CarriesOn(kp, kp)
BY DEF CarriesOn, AllPaths

LEMMA PathNext ==
  ASSUME TypeOK, ServedPathChecks, [Next]_vars
  PROVE  /\ ServedPathChecks'
         /\ path # NoPath /\ path' # NoPath => CarriesOn(path, path')
<1> DEFINE Goes == /\ ServedPathChecks'
                   /\ path # NoPath /\ path' # NoPath => CarriesOn(path, path')
<1>1. ASSUME path' = path PROVE Goes
  BY <1>1, CarriesOnItself DEF ServedPathChecks, TypeOK
<1>2. ASSUME NEW kp \in Paths, path' = PathAfter(path, kp) PROVE Goes
  <2>1. CASE path' = path
    BY <1>1, <2>1
  <2>2. CASE path' # path
    BY <1>2, <2>2 DEF PathAfter, ServedPathChecks
  <2> QED BY <2>1, <2>2
<1>3. ASSUME NEW b \in Blocks, IsRotation(b), LearnRotation(b) PROVE Goes
  <2>1. CASE ContinuesPath(b)
    <3>1. PathChecks(path)
      BY <2>1 DEF ServedPathChecks, ContinuesPath
    <3> QED BY <1>3, <2>1, <3>1, RotationPath DEF ServedPathChecks
  <2>2. CASE ~ContinuesPath(b)
    <3>1. path' = path
      BY <1>3, <2>2 DEF LearnRotation
    <3> QED BY <1>1, <3>1
  <2> QED BY <2>1, <2>2
<1> HIDE DEF Goes
<1>4. ASSUME NEW kp \in Paths, LearnPath(kp) PROVE Goes
  BY <1>2, <1>4 DEF LearnPath
<1>5. ASSUME NEW kp \in Paths, KeepPath(kp) PROVE Goes
  BY <1>1, <1>5 DEF KeepPath, memory
<1>6. ASSUME NEW kp \in Paths, LoadPath(kp) PROVE Goes
  BY <1>2, <1>6 DEF LoadPath
<1>7. ASSUME NEW c \in Certs, LearnRevocation(c) PROVE Goes
  BY <1>1, <1>7 DEF LearnRevocation
<1>8. ASSUME NEW c \in Certs, LoadRevocation(c) PROVE Goes
  BY <1>1, <1>8 DEF LoadRevocation
<1>9. ASSUME NEW b \in Blocks, CheckBlock(b) PROVE Goes
  BY <1>1, <1>9 DEF CheckBlock, memory
<1>10. ASSUME NEW b \in Blocks, AddBlock(b) PROVE Goes
  BY <1>1, <1>10 DEF AddBlock, memory
<1>11. ASSUME NEW b \in Blocks, LearnAdded(b) PROVE Goes
  BY <1>3, <1>11 DEF LearnAdded, TypeOK
<1>12. ASSUME NEW b \in Blocks, LoadRotation(b) PROVE Goes
  BY <1>3, <1>12 DEF LoadRotation, TypeOK
<1>13. ASSUME Restart PROVE Goes
  BY <1>13 DEF Restart, ServedPathChecks, Goes
<1>14. ASSUME UNCHANGED vars PROVE Goes
  BY <1>1, <1>14 DEF vars, memory
<1>15. Goes
  BY <1>4, <1>5, <1>6, <1>7, <1>8, <1>9, <1>10, <1>11, <1>12, <1>13, <1>14
  DEF Next
<1> QED BY <1>15 DEF Goes

\* The path handed out, with the key changes the aggregator put to it itself,
\* passes the check every reader makes.
THEOREM ServedPathsCheck == Spec => []ServedPathChecks
<1>1. Init => ServedPathChecks
  BY DEF Init, ServedPathChecks
<1>2. TypeOK /\ ServedPathChecks /\ [Next]_vars => ServedPathChecks'
  BY PathNext
<1> QED
  BY <1>1, <1>2, InitType, NextType, PTL DEF Spec

\* While the aggregator runs, no request puts another line of keys in the place
\* of the one it knows.
THEOREM KnownLineGrows == Spec => OwnLineGrows
<1>1. Init => ServedPathChecks
  BY DEF Init, ServedPathChecks
<1>2. TypeOK /\ ServedPathChecks /\ [Next]_vars
        => /\ ServedPathChecks'
           /\ [path # NoPath /\ path' # NoPath => CarriesOn(path, path')]_vars
  BY PathNext
<1> QED
  BY <1>1, <1>2, InitType, NextType, PTL DEF Spec, OwnLineGrows


-----------------------------------------------------------------------------
(* What a restart keeps of an honest owner's keys                          *)

\* Only the owner has sent anything.
OnlyOwner == hashes \subseteq OwnBlocks /\ paths \cup posting \subseteq OwnPaths

\* A path of the owner's branch, every key change of it on disk: as a block, or
\* at the same place of a path.
OwnKnown(p, sent, indexed) ==
  /\ p \in AllPaths /\ PathChecks(p)
  /\ \A q \in OwnPaths : q.node = p.node
  /\ sent # {}
  /\ \A i \in 1..Len(p.rotations) :
       /\ p.rotations[i] \in OwnBlocks
       /\ p.rotations[i] \in indexed \/ \E kp \in sent : i <= Len(kp.rotations)

\* Every block indexed is stored; while load() runs nothing else does; the paths
\* on disk or on their way there check; what is known came from the owner's hand.
Stored == hashes \subseteq OwnBlocks => blocks = hashes
Alone  == ~Serving => posting = {} /\ checked = {} /\ added = {}
Checks == todo.paths \subseteq paths /\ \A kp \in paths \cup posting : PathChecks(kp)
Known  == OnlyOwner /\ path # NoPath => OwnKnown(path, paths \cup posting, hashes)
Sound  == Stored /\ Alone /\ Checks /\ Known

\* What an owner keeps to, rule by rule.
LEMMA OwnBlock ==
  ASSUME NEW a \in OwnBlocks
  PROVE  a \in Blocks /\ a \in AllBlocks
BY OwnerAssumption, BlocksAssumption DEF HonestOwner

LEMMA OneAddress ==
  ASSUME NEW a \in OwnBlocks, NEW b \in OwnBlocks, a.index = b.index
  PROVE  a = b
BY OwnerAssumption DEF HonestOwner

LEMMA OneHandover ==
  ASSUME NEW a \in OwnBlocks, NEW b \in OwnBlocks,
         IsRotation(a), IsRotation(b), a.signer = b.signer
  PROVE  a = b
BY OwnerAssumption DEF HonestOwner

LEMMA HeirComesLater ==
  ASSUME NEW a \in OwnBlocks, NEW b \in OwnBlocks,
         IsRotation(a), b.signer = a.next
  PROVE  a.index < b.index /\ a.time <= b.time
BY OwnerAssumption DEF HonestOwner

\* A path of the owner's is one he is known by.
LEMMA OwnPathKnown ==
  ASSUME NEW kp \in OwnPaths, PathChecks(kp), NEW sent, kp \in sent, NEW indexed
  PROVE  OwnKnown(kp, sent, indexed)
<1>1. kp \in AllPaths /\ Len(kp.rotations) \in Nat
  BY OwnerAssumption, PathsAssumption DEF HonestOwner, AllPaths
<1>2. ASSUME NEW i \in 1..Len(kp.rotations)
      PROVE  kp.rotations[i] \in OwnBlocks /\ i <= Len(kp.rotations)
  BY <1>1, OwnerAssumption DEF HonestOwner
<1>3. \A q \in OwnPaths : q.node = kp.node
  BY OwnerAssumption DEF HonestOwner
<1> QED BY <1>1, <1>2, <1>3 DEF OwnKnown

\* More on disk takes nothing away.
LEMMA OwnKnownStays ==
  ASSUME NEW p, NEW s, NEW t, NEW h, NEW g, OwnKnown(p, s, h),
         s \subseteq t, h \subseteq g
  PROVE  OwnKnown(p, t, g)
BY DEF OwnKnown

\* Two paths of the owner's agree as far as both go.
LEMMA Comparable ==
  ASSUME NEW p, NEW q, NEW s, NEW t, NEW h, NEW g,
         OwnKnown(p, s, h), OwnKnown(q, t, g), p.node = q.node,
         NEW i \in 1..Len(p.rotations), i <= Len(q.rotations)
  PROVE  p.rotations[i] = q.rotations[i]
<1> DEFINE n == Len(p.rotations)
           m == Len(q.rotations)
           S == {j \in Nat : j = 0 \/ j > i \/ p.rotations[j] = q.rotations[j]}
<1>1. /\ p \in AllPaths /\ q \in AllPaths /\ PathChecks(p) /\ PathChecks(q)
      /\ \A j \in 1..n : p.rotations[j] \in OwnBlocks
      /\ \A j \in 1..m : q.rotations[j] \in OwnBlocks
  BY DEF OwnKnown
<1>2. n \in Nat /\ m \in Nat /\ i \in Nat /\ i \in 1..n /\ i <= m
  BY <1>1 DEF AllPaths
<1>3. ASSUME NEW j \in 0..i - 1, j \in S PROVE j + 1 \in S
  <2>1. j + 1 \in 1..n /\ j + 1 \in 1..m /\ j + 1 \in Nat
    BY <1>2
  <2>2. OwnLine(p)[j + 1] = OwnLine(q)[j + 1]
    <3>1. CASE j = 0
      BY <1>1, <3>1, OwnLineAt
    <3>2. CASE j # 0
      <4>1. j \in 1..n /\ j \in 1..m /\ p.rotations[j] = q.rotations[j]
        BY <1>2, <1>3, <3>2
      <4> QED BY <1>1, <4>1, OwnLineAt
    <3> QED BY <3>1, <3>2
  <2>3. /\ IsRotation(p.rotations[j + 1]) /\ IsRotation(q.rotations[j + 1])
        /\ p.rotations[j + 1].signer = q.rotations[j + 1].signer
    BY <1>1, <2>1, <2>2 DEF PathChecks
  <2>4. p.rotations[j + 1] = q.rotations[j + 1]
    BY <1>1, <2>1, <2>3, OneHandover
  <2> QED BY <2>1, <2>4
<1>4. 0 \in S
  OBVIOUS
<1> HIDE DEF S, n, m
<1>5. \A j \in 0..i : j \in S
  <2>1. i \in Nat
    BY <1>2
  <2>2. \A j \in 0..i - 1 : j \in S => j + 1 \in S
    BY <1>3
  <2> QED BY <1>4, <2>1, <2>2, UpTo
<1>6. i \in S
  BY <1>2, <1>5
<1> QED BY <1>2, <1>6 DEF S


LEMMA InitSound == Init => Sound
BY DEF Init, Sound, Stored, Alone, Checks, Known, Serving, Done

\* A path heard becomes known, or the one known stays.
LEMMA PathHeard ==
  ASSUME NEW known, NEW kp \in OwnPaths, PathChecks(kp), NEW sent, kp \in sent,
         NEW indexed, known # NoPath => OwnKnown(known, sent, indexed)
  PROVE  OwnKnown(PathAfter(known, kp), sent, indexed)
BY OwnPathKnown DEF PathAfter

\* A key change the aggregator puts to the path it knows is the owner's.
LEMMA RotationKnown ==
  ASSUME TypeOK, ServedPathChecks, Known, OnlyOwner,
         NEW b \in hashes, IsRotation(b), LearnRotation(b), path' # NoPath
  PROVE  OwnKnown(path', paths \cup posting, hashes)
<1>1. CASE ~ContinuesPath(b)
  <2>1. path' = path
    BY <1>1 DEF LearnRotation
  <2> QED BY <2>1 DEF Known
<1>2. CASE ContinuesPath(b)
  <2>1. path # NoPath /\ path \in AllPaths /\ PathChecks(path)
    BY <1>2 DEF ContinuesPath, ServedPathChecks, TypeOK
  <2>2. b \in Blocks /\ b \in AllBlocks /\ b \in OwnBlocks
    BY BlocksAssumption DEF TypeOK, OnlyOwner
  <2> DEFINE old == path.rotations
             new == Append(old, b)
             n   == Len(old)
  <2>3. old \in Seq(AllBlocks) /\ n \in Nat
    BY <2>1 DEF AllPaths
  <2>4. /\ Len(new) = n + 1 /\ new[n + 1] = b
        /\ \A i \in 1..n : new[i] = old[i]
    BY <2>2, <2>3
  <2>5. path' = [path EXCEPT !.rotations = new]
    BY <1>2 DEF LearnRotation
  <2>6. path'.rotations = new /\ path'.node = path.node
    BY <2>1, <2>5 DEF AllPaths
  <2>7. path' \in AllPaths /\ PathChecks(path')
    BY <1>2, <2>1, <2>2, RotationPath, RotationType DEF TypeOK
  <2>8. OwnKnown(path, paths \cup posting, hashes)
    BY <2>1 DEF Known
  <2> HIDE DEF new
  <2>9. ASSUME NEW i \in 1..n + 1
        PROVE  /\ new[i] \in OwnBlocks
               /\ \/ new[i] \in hashes
                  \/ \E kp \in paths \cup posting : i <= Len(kp.rotations)
    <3>1. CASE i = n + 1
      BY <2>2, <2>4, <3>1
    <3>2. CASE i # n + 1
      <4>1. i \in 1..n /\ new[i] = old[i]
        BY <2>3, <2>4, <3>2
      <4> QED BY <2>8, <4>1 DEF OwnKnown
    <3> QED BY <3>1, <3>2
  <2> QED BY <2>4, <2>6, <2>7, <2>8, <2>9 DEF OwnKnown
<1> QED BY <1>1, <1>2

LEMMA StoredNext == TypeOK /\ Stored /\ [Next]_vars => Stored'
<1> SUFFICES ASSUME TypeOK, Stored, [Next]_vars PROVE Stored'
  OBVIOUS
<1>1. CASE UNCHANGED <<blocks, hashes>>
  BY <1>1 DEF Stored
<1>2. ASSUME NEW b \in Blocks, AddBlock(b) PROVE Stored'
  <2> SUFFICES ASSUME hashes' \subseteq OwnBlocks PROVE blocks' = hashes'
    BY DEF Stored
  <2>1. hashes' = hashes \cup {b} /\ b \in OwnBlocks /\ hashes \subseteq OwnBlocks
    BY <1>2 DEF AddBlock
  <2>2. blocks = hashes
    BY <2>1 DEF Stored
  <2>3. CASE b \in hashes \/ \E a \in blocks : a.index = b.index
    <3>1. blocks' = blocks
      BY <1>2, <2>3 DEF AddBlock
    <3>2. b \in hashes
      BY <2>1, <2>2, <2>3, OneAddress
    <3> QED BY <2>1, <2>2, <3>1, <3>2
  <2>4. CASE ~(b \in hashes \/ \E a \in blocks : a.index = b.index)
    BY <1>2, <2>1, <2>2, <2>4 DEF AddBlock
  <2> QED BY <2>3, <2>4
<1> QED
  BY <1>1, <1>2
  DEF Next, LearnPath, KeepPath, LoadPath, LearnRevocation, LoadRevocation,
      CheckBlock, LearnAdded, LoadRotation, Restart, disk, vars

LEMMA AloneNext == TypeOK /\ Alone /\ [Next]_vars => Alone'
<1> SUFFICES ASSUME TypeOK, Alone, [Next]_vars PROVE Alone'
  OBVIOUS
<1>1. ASSUME todo' = todo, Serving PROVE Alone'
  BY <1>1 DEF Alone, Serving, Done
<1>2. ASSUME handlers' = handlers, ~Serving PROVE Alone'
  BY <1>2 DEF Alone, handlers
<1>3. ASSUME NEW kp \in Paths, LearnPath(kp) \/ KeepPath(kp) \/ LoadPath(kp)
      PROVE  Alone'
  <2>1. CASE LearnPath(kp)
    BY <1>1, <2>1 DEF LearnPath, process
  <2>2. CASE KeepPath(kp)
    BY <1>1, <2>2 DEF KeepPath, process, Alone
  <2>3. CASE LoadPath(kp)
    BY <1>2, <2>3 DEF LoadPath, Serving, Done
  <2> QED BY <1>3, <2>1, <2>2, <2>3
<1>4. ASSUME NEW c \in Certs, LearnRevocation(c) \/ LoadRevocation(c)
      PROVE  Alone'
  BY <1>1, <1>2, <1>4 DEF LearnRevocation, LoadRevocation, process, Serving, Done
<1>5. ASSUME NEW b \in Blocks,
             CheckBlock(b) \/ AddBlock(b) \/ LearnAdded(b) \/ LoadRotation(b)
      PROVE  Alone'
  <2>1. CASE CheckBlock(b)
    BY <1>1, <2>1 DEF CheckBlock, process
  <2>2. CASE AddBlock(b)
    BY <1>1, <2>2 DEF AddBlock, process, Alone
  <2>3. CASE LearnAdded(b)
    BY <1>1, <2>3 DEF LearnAdded, process, Alone
  <2>4. CASE LoadRotation(b)
    BY <1>2, <2>4 DEF LoadRotation, Serving, Done
  <2> QED BY <1>5, <2>1, <2>2, <2>3, <2>4
<1>6. CASE Restart
  BY <1>6 DEF Restart, Alone
<1>7. CASE UNCHANGED vars
  BY <1>7 DEF vars, process, handlers, Alone, Serving, Done
<1> QED BY <1>3, <1>4, <1>5, <1>6, <1>7 DEF Next

LEMMA ChecksNext == TypeOK /\ Checks /\ [Next]_vars => Checks'
<1> SUFFICES ASSUME TypeOK, Checks, [Next]_vars PROVE Checks'
  OBVIOUS
<1>1. ASSUME todo'.paths \subseteq todo.paths, paths \subseteq paths',
             \A kp \in (paths \cup posting)' : kp \in paths \cup posting \/ PathChecks(kp)
      PROVE  Checks'
  BY <1>1 DEF Checks
<1>2. ASSUME NEW kp \in Paths, LearnPath(kp) \/ KeepPath(kp) \/ LoadPath(kp)
      PROVE  Checks'
  <2>1. CASE LearnPath(kp)
    BY <1>1, <2>1 DEF LearnPath, process, disk
  <2>2. CASE KeepPath(kp)
    BY <1>1, <2>2 DEF KeepPath, process
  <2>3. CASE LoadPath(kp)
    <3>1. todo'.paths = todo.paths \ {kp}
      BY <2>3 DEF LoadPath, TypeOK
    <3> QED BY <1>1, <2>3, <3>1 DEF LoadPath, disk, handlers
  <2> QED BY <1>2, <2>1, <2>2, <2>3
<1>3. ASSUME NEW c \in Certs, LearnRevocation(c) \/ LoadRevocation(c)
      PROVE  Checks'
  <2>1. CASE LearnRevocation(c)
    BY <1>1, <2>1 DEF LearnRevocation, process, handlers
  <2>2. CASE LoadRevocation(c)
    <3>1. todo'.paths = todo.paths
      BY <2>2 DEF LoadRevocation, TypeOK
    <3> QED BY <1>1, <2>2, <3>1 DEF LoadRevocation, disk, handlers
  <2> QED BY <1>3, <2>1, <2>2
<1>4. ASSUME NEW b \in Blocks,
             CheckBlock(b) \/ AddBlock(b) \/ LearnAdded(b) \/ LoadRotation(b)
      PROVE  Checks'
  <2>1. CASE CheckBlock(b) \/ AddBlock(b) \/ LearnAdded(b)
    BY <1>1, <2>1 DEF CheckBlock, AddBlock, LearnAdded, process, disk
  <2>2. CASE LoadRotation(b)
    <3>1. todo'.paths = todo.paths
      BY <2>2 DEF LoadRotation, TypeOK
    <3> QED BY <1>1, <2>2, <3>1 DEF LoadRotation, disk, handlers
  <2> QED BY <1>4, <2>1, <2>2
<1>5. CASE Restart
  BY <1>5 DEF Restart, disk, Checks
<1>6. CASE UNCHANGED vars
  BY <1>6 DEF vars, process, disk, handlers, Checks
<1> QED BY <1>2, <1>3, <1>4, <1>5, <1>6 DEF Next

LEMMA KnownNext ==
  TypeOK /\ ServedPathChecks /\ Checks /\ Known /\ [Next]_vars => Known'
<1> SUFFICES ASSUME TypeOK, ServedPathChecks, Checks, Known, [Next]_vars,
                    OnlyOwner', path' # NoPath
             PROVE  OwnKnown(path', (paths \cup posting)', hashes')
  BY DEF Known
<1> DEFINE Goes == OwnKnown(path', (paths \cup posting)', hashes')
<1>1. ASSUME path' = path, paths \cup posting \subseteq (paths \cup posting)',
             hashes \subseteq hashes'
      PROVE  Goes
  <2>1. OnlyOwner
    BY <1>1 DEF OnlyOwner
  <2>2. OwnKnown(path, paths \cup posting, hashes)
    BY <1>1, <2>1 DEF Known
  <2> QED BY <1>1, <2>2, OwnKnownStays
<1>2. ASSUME NEW kp \in Paths, PathChecks(kp), path' = PathAfter(path, kp),
             paths \cup posting \subseteq (paths \cup posting)',
             kp \in (paths \cup posting)', hashes' = hashes
      PROVE  Goes
  <2>1. OnlyOwner /\ kp \in OwnPaths
    BY <1>2 DEF OnlyOwner
  <2>2. path # NoPath => OwnKnown(path, (paths \cup posting)', hashes')
    BY <1>2, <2>1, OwnKnownStays DEF Known
  <2> QED BY <1>2, <2>1, <2>2, PathHeard
<1>3. ASSUME NEW b \in hashes, IsRotation(b), LearnRotation(b),
             paths' = paths, posting' = posting, hashes' = hashes
      PROVE  Goes
  <2>1. OnlyOwner
    BY <1>3 DEF OnlyOwner
  <2> QED BY <1>3, <2>1, RotationKnown
<1> HIDE DEF Goes
<1>4. ASSUME NEW kp \in Paths, LearnPath(kp) \/ KeepPath(kp) \/ LoadPath(kp)
      PROVE  Goes
  <2>1. CASE LearnPath(kp)
    BY <1>2, <2>1 DEF LearnPath, disk
  <2>2. CASE KeepPath(kp)
    BY <1>1, <2>2 DEF KeepPath, memory
  <2>3. CASE LoadPath(kp)
    <3>1. kp \in paths /\ PathChecks(kp)
      BY <2>3 DEF LoadPath, Checks
    <3> QED BY <1>2, <2>3, <3>1 DEF LoadPath, disk, handlers
  <2> QED BY <1>4, <2>1, <2>2, <2>3
<1>5. ASSUME NEW c \in Certs, LearnRevocation(c) \/ LoadRevocation(c)
      PROVE  Goes
  BY <1>1, <1>5 DEF LearnRevocation, LoadRevocation, disk, handlers
<1>6. ASSUME NEW b \in Blocks,
             CheckBlock(b) \/ AddBlock(b) \/ LearnAdded(b) \/ LoadRotation(b)
      PROVE  Goes
  <2>1. CASE CheckBlock(b) \/ AddBlock(b)
    BY <1>1, <2>1 DEF CheckBlock, AddBlock, memory, disk
  <2>2. CASE LearnAdded(b)
    BY <1>3, <2>2 DEF LearnAdded, disk, TypeOK
  <2>3. CASE LoadRotation(b)
    BY <1>3, <2>3 DEF LoadRotation, disk, handlers, TypeOK
  <2> QED BY <1>6, <2>1, <2>2, <2>3
<1>7. ASSUME Restart PROVE Goes
  BY <1>7 DEF Restart
<1>8. ASSUME UNCHANGED vars PROVE Goes
  BY <1>1, <1>8 DEF vars, memory, disk, handlers
<1>9. Goes
  BY <1>4, <1>5, <1>6, <1>7, <1>8 DEF Next
<1> QED BY <1>9 DEF Goes

LEMMA NextSound ==
  TypeOK /\ ServedPathChecks /\ Sound /\ [Next]_vars => Sound'
BY StoredNext, AloneNext, ChecksNext, KnownNext DEF Sound


\* The same certificates come to the same compromise and the same replacement.
LEMMA SameWord ==
  ASSUME NEW r \in AllRevs \cup {NoRev}, NEW q \in AllRevs \cup {NoRev},
         NEW heard \in SUBSET Certs, Decides(r, heard), Decides(q, heard)
  PROVE  /\ r = NoRev <=> q = NoRev
         /\ r # NoRev => r.since = q.since /\ r.replacement = q.replacement
<1>0. \A c \in heard : c \in AllCerts /\ c \in Certs
  BY CertsAssumption
<1>1. CASE r = NoRev
  BY <1>1 DEF Decides
<1>2. CASE r # NoRev /\ q = NoRev
  BY <1>2 DEF Decides
<1>3. CASE r # NoRev /\ q # NoRev
  <2>1. /\ r \in AllRevs /\ r.depth \in Nat /\ r.since \in Nat /\ r.block \in Nat
        /\ q \in AllRevs /\ q.depth \in Nat /\ q.since \in Nat /\ q.block \in Nat
    BY <1>3 DEF AllRevs
  <2>2. /\ \A c \in heard : c.depth >= r.depth
        /\ \E c \in heard : c.depth = r.depth /\ c.since = r.since
        /\ \A c \in heard : c.depth = r.depth => c.since >= r.since
        /\ \E c \in heard : /\ c.depth = r.depth /\ c.block = r.block
                            /\ c.replacement = r.replacement
        /\ \A c \in heard : c.depth = r.depth => c.block <= r.block
    BY <1>3 DEF Decides
  <2>3. /\ \A c \in heard : c.depth >= q.depth
        /\ \E c \in heard : c.depth = q.depth /\ c.since = q.since
        /\ \A c \in heard : c.depth = q.depth => c.since >= q.since
        /\ \E c \in heard : /\ c.depth = q.depth /\ c.block = q.block
                            /\ c.replacement = q.replacement
        /\ \A c \in heard : c.depth = q.depth => c.block <= q.block
    BY <1>3 DEF Decides
  <2>4. r.depth = q.depth
    BY <2>1, <2>2, <2>3
  <2>5. r.since = q.since
    BY <2>1, <2>2, <2>3, <2>4
  <2>6. r.block = q.block
    BY <2>1, <2>2, <2>3, <2>4
  <2>7. PICK c \in heard : /\ c.depth = r.depth /\ c.block = r.block
                           /\ c.replacement = r.replacement
    BY <2>2
  <2>8. PICK d \in heard : /\ d.depth = q.depth /\ d.block = q.block
                           /\ d.replacement = q.replacement
    BY <2>3
  <2>9. c.replacement = d.replacement
    BY <1>0, <2>4, <2>6, <2>7, <2>8, OwnerAssumption DEF HonestOwner
  <2> QED BY <1>3, <2>5, <2>7, <2>8, <2>9
<1> QED BY <1>1, <1>2, <1>3

-----------------------------------------------------------------------------
(* What load() has still to bring back                                     *)

\* What was known, of the owner's path and of the revocation, is on disk.
OnDisk(p, r) ==
  /\ p \in AllPaths \cup {NoPath} /\ r \in AllRevs \cup {NoRev}
  /\ p # NoPath => OwnKnown(p, paths, hashes)
  /\ Decides(r, certs)
  /\ r # NoRev => LineHolds(r, hashes)

\* A key change the revocation leaves to the branch's own line.
Unharmed(b, r) == r = NoRev \/ b.time <= r.since

\* Every path read is in the path known; every key change of p is there, or
\* still to be read in a path or as a block.
PathComesBack(p, r) ==
  /\ \A kp \in paths \ todo.paths :
       path # NoPath /\ Len(kp.rotations) <= Len(path.rotations)
  /\ p # NoPath =>
       \A i \in 1..Len(p.rotations) :
         Unharmed(p.rotations[i], r) =>
           \/ p.rotations[i] \in todo.rotations
           \/ path # NoPath /\ i <= Len(path.rotations)
           \/ \E kp \in todo.paths : i <= Len(kp.rotations)

\* Every key of r's line past the first is back at its place, or the key change
\* that names it is still to be read.
LineComesBack(r) ==
  r # NoRev =>
    \A i \in 2..Len(r.line) :
      \/ \E b \in todo.rotations : /\ b.signer = r.line[i - 1]
                                   /\ b.next = r.line[i]
                                   /\ b.time > r.since
      \/ /\ todo.certs = {} /\ rev # NoRev
         /\ i <= Len(rev.line) /\ rev.line[i] = r.line[i]

ComesBack(p, r) == OnDisk(p, r) /\ PathComesBack(p, r) /\ LineComesBack(r)

\* At a stop what is known is on disk.
LEMMA StopOnDisk ==
  ASSUME TypeOK, Sound, OnlyOwner, ReplacementLine, HighestDecides,
         Serving, posting = {}
  PROVE  OnDisk(path, rev)
<1>1. path # NoPath => OwnKnown(path, paths, hashes)
  <2>1. paths \cup posting = paths
    OBVIOUS
  <2> QED BY <2>1 DEF Sound, Known
<1>2. Decides(rev, certs)
  <2>1. certs \ todo.certs = certs
    BY DEF Serving, Done
  <2> QED BY <2>1 DEF HighestDecides
<1> QED BY <1>1, <1>2 DEF OnDisk, TypeOK, ReplacementLine

\* When load() begins, all that is on disk is still to be read.
LEMMA LoadBegins ==
  ASSUME TypeOK, Sound, OnlyOwner, Restart, NEW p, NEW r, OnDisk(p, r)
  PROVE  ComesBack(p, r)'
<1> DEFINE read == {b \in blocks : IsRotation(b)}
<1>1. /\ paths' = paths /\ certs' = certs /\ hashes' = hashes
      /\ todo' = [paths |-> paths, certs |-> certs, rotations |-> read]
  BY DEF Restart, disk
<1>2. todo'.paths = paths /\ todo'.certs = certs /\ todo'.rotations = read
  BY <1>1
<1>3. blocks = hashes
  BY DEF Sound, Stored, OnlyOwner
<1>4. OnDisk(p, r)'
  BY <1>1 DEF OnDisk
<1>5. PathComesBack(p, r)'
  <2>1. ASSUME p # NoPath, NEW i \in 1..Len(p.rotations)
        PROVE  \/ p.rotations[i] \in read
               \/ \E kp \in paths : i <= Len(kp.rotations)
    <3>1. IsRotation(p.rotations[i])
      BY <2>1 DEF OnDisk, OwnKnown, PathChecks
    <3> QED BY <1>3, <2>1, <3>1 DEF OnDisk, OwnKnown
  <2> QED BY <1>1, <1>2, <2>1 DEF PathComesBack
<1>6. LineComesBack(r)'
  <2>1. ASSUME r # NoRev, NEW i \in 2..Len(r.line)
        PROVE  \E b \in read : /\ b.signer = r.line[i - 1]
                               /\ b.next = r.line[i]
                               /\ b.time > r.since
    <3>1. r.line \in Seq(Keys)
      BY <2>1 DEF OnDisk, AllRevs
    <3>2. i - 1 \in 1..Len(r.line) - 1 /\ (i - 1) + 1 = i /\ r.line[i] \in Keys
      BY <3>1
    <3>3. PICK b \in hashes : /\ b.signer = r.line[i - 1]
                              /\ b.next = r.line[(i - 1) + 1]
                              /\ b.time > r.since
      BY <2>1, <3>2 DEF OnDisk, LineHolds
    <3>4. IsRotation(b)
      BY <3>2, <3>3, KeysAssumption DEF IsRotation
    <3> QED BY <1>3, <3>2, <3>3, <3>4
  <2> QED BY <1>2, <2>1 DEF LineComesBack
<1> QED BY <1>4, <1>5, <1>6 DEF ComesBack


\* A path read back is in the path known afterwards.
LEMMA PathReadBack ==
  ASSUME TypeOK, ServedPathChecks, Sound, OnlyOwner,
         NEW kp \in Paths, LoadPath(kp), NEW p, NEW r, ComesBack(p, r)
  PROVE  ComesBack(p, r)'
<1>1. /\ paths' = paths /\ certs' = certs /\ hashes' = hashes /\ rev' = rev
      /\ kp \in todo.paths /\ path' = PathAfter(path, kp)
      /\ todo'.paths = todo.paths \ {kp} /\ todo'.certs = todo.certs
      /\ todo'.rotations = todo.rotations
  BY DEF LoadPath, disk, TypeOK
<1>2. OnDisk(p, r)'
  BY <1>1 DEF ComesBack, OnDisk
<1>3. LineComesBack(r)'
  BY <1>1 DEF ComesBack, LineComesBack
<1>4. kp \in paths /\ kp \in OwnPaths /\ PathChecks(kp) /\ kp \in AllPaths
  BY <1>1, PathsAssumption DEF Sound, Checks, OnlyOwner
<1>5. path # NoPath => path \in AllPaths
  BY DEF TypeOK
<1>6. /\ path' # NoPath
      /\ Len(kp.rotations) <= Len(path'.rotations)
      /\ path # NoPath => Len(path.rotations) <= Len(path'.rotations)
  <2>1. kp # NoPath /\ Len(kp.rotations) \in Nat
    BY <1>4, NothingAssumption DEF AllPaths
  <2>2. CASE path = NoPath
    BY <1>1, <1>4, <2>1, <2>2 DEF PathAfter
  <2>3. CASE path # NoPath
    <3>1. Len(path.rotations) \in Nat
      BY <1>5, <2>3 DEF AllPaths
    <3>2. OwnKnown(path, paths \cup posting, hashes)
      BY <2>3 DEF Sound, Known
    <3>3. OwnKnown(kp, paths \cup posting, hashes)
      BY <1>4, OwnPathKnown
    <3>4. kp.node = path.node
      BY <1>4, <3>2 DEF OwnKnown
    <3>5. CASE Len(path.rotations) <= Len(kp.rotations)
      <4>1. \A i \in 1..Len(path.rotations) :
              kp.rotations[i] = path.rotations[i]
        <5>1. ASSUME NEW i \in 1..Len(path.rotations)
              PROVE  i \in 1..Len(kp.rotations)
          BY <2>1, <3>1, <3>5
        <5>2. ASSUME NEW i \in 1..Len(path.rotations)
              PROVE  kp.rotations[i] = path.rotations[i]
          <6>1. i <= Len(path.rotations) /\ i \in 1..Len(kp.rotations)
            BY <3>1, <5>1
          <6> QED BY <3>2, <3>3, <3>4, <6>1, Comparable
        <5> QED BY <5>2
      <4>2. CarriesOn(path, kp)
        BY <3>4, <3>5, <4>1 DEF CarriesOn
      <4> QED BY <1>1, <1>4, <2>1, <3>5, <4>2 DEF PathAfter
    <3>6. CASE ~(Len(path.rotations) <= Len(kp.rotations))
      <4>1. path' = path
        BY <1>1, <2>3, <3>6 DEF PathAfter, CarriesOn
      <4> QED BY <2>1, <2>3, <3>1, <3>6, <4>1
    <3> QED BY <3>5, <3>6
  <2> QED BY <2>2, <2>3
<1>7. /\ Len(kp.rotations) \in Nat /\ Len(path'.rotations) \in Nat
      /\ path # NoPath => Len(path.rotations) \in Nat
  <2>1. path' \in AllPaths
    BY <1>1, <1>4, <1>5, <1>6 DEF PathAfter
  <2> QED BY <1>4, <1>5, <2>1 DEF AllPaths
<1>8. ASSUME NEW q \in paths, q \notin todo'.paths
      PROVE  Len(q.rotations) <= Len(path'.rotations)
  <2>1. q \in AllPaths /\ Len(q.rotations) \in Nat
    BY PathsAssumption DEF TypeOK, AllPaths
  <2>2. CASE q = kp
    BY <1>6, <2>2
  <2>3. CASE q # kp
    <3>1. path # NoPath /\ Len(q.rotations) <= Len(path.rotations)
      BY <1>1, <1>8, <2>3 DEF ComesBack, PathComesBack
    <3> QED BY <1>6, <1>7, <2>1, <3>1
  <2> QED BY <2>2, <2>3
<1>9. ASSUME p # NoPath, NEW i \in 1..Len(p.rotations),
             Unharmed(p.rotations[i], r)
      PROVE  \/ p.rotations[i] \in todo'.rotations
             \/ i <= Len(path'.rotations)
             \/ \E q \in todo'.paths : i <= Len(q.rotations)
  <2>1. CASE p.rotations[i] \in todo.rotations
    BY <1>1, <2>1
  <2>2. i \in Nat
    OBVIOUS
  <2>3. CASE path # NoPath /\ i <= Len(path.rotations)
    BY <1>6, <1>7, <2>2, <2>3
  <2>4. CASE \E q \in todo.paths : i <= Len(q.rotations)
    <3>1. PICK q \in todo.paths : i <= Len(q.rotations)
      BY <2>4
    <3>2. CASE q = kp
      BY <1>6, <1>7, <2>2, <3>1, <3>2
    <3>3. CASE q # kp
      BY <1>1, <3>1, <3>3
    <3> QED BY <3>2, <3>3
  <2> QED BY <1>9, <2>1, <2>3, <2>4 DEF ComesBack, PathComesBack
<1>10. PathComesBack(p, r)'
  BY <1>1, <1>6, <1>8, <1>9 DEF PathComesBack
<1> QED BY <1>2, <1>3, <1>10 DEF ComesBack

\* A certificate read back comes before every key change.
LEMMA RevocationReadBack ==
  ASSUME TypeOK, NEW c \in Certs, LoadRevocation(c),
         NEW p, NEW r, ComesBack(p, r)
  PROVE  ComesBack(p, r)'
<1>1. /\ paths' = paths /\ certs' = certs /\ hashes' = hashes /\ path' = path
      /\ c \in todo.certs
      /\ todo'.paths = todo.paths /\ todo'.rotations = todo.rotations
  BY DEF LoadRevocation, disk, TypeOK
<1>2. OnDisk(p, r)'
  BY <1>1 DEF ComesBack, OnDisk
<1>3. LineComesBack(r)'
  BY <1>1 DEF ComesBack, LineComesBack
<1>4. PathComesBack(p, r)'
  BY <1>1 DEF ComesBack, PathComesBack
<1> QED BY <1>2, <1>3, <1>4 DEF ComesBack

\* What decides while key changes are read back is what decided at the stop.
LEMMA SameAsBefore ==
  ASSUME TypeOK, HighestDecides, todo.certs = {}, NEW p, NEW r, OnDisk(p, r)
  PROVE  /\ r = NoRev <=> rev = NoRev
         /\ r # NoRev => /\ r.since = rev.since
                         /\ r.replacement = rev.replacement
                         /\ r \in AllRevs /\ rev \in AllRevs
<1>1. certs \ todo.certs = certs /\ certs \in SUBSET Certs
  BY DEF TypeOK
<1>2. Decides(rev, certs) /\ Decides(r, certs)
  BY <1>1 DEF HighestDecides, OnDisk
<1>3. r \in AllRevs \cup {NoRev} /\ rev \in AllRevs \cup {NoRev}
  BY DEF OnDisk, TypeOK
<1>4. /\ r = NoRev <=> rev = NoRev
      /\ r # NoRev => r.since = rev.since /\ r.replacement = rev.replacement
  BY <1>1, <1>2, <1>3, SameWord
<1> QED BY <1>3, <1>4


\* A key change only lengthens the path.
LEMMA PathLengthens ==
  ASSUME TypeOK, NEW b \in Blocks, LearnRotation(b), path # NoPath
  PROVE  /\ path' # NoPath /\ path \in AllPaths
         /\ Len(path.rotations) \in Nat
         /\ Len(path'.rotations) =
              IF ContinuesPath(b) THEN Len(path.rotations) + 1
              ELSE Len(path.rotations)
<1>1. path \in AllPaths /\ path.rotations \in Seq(AllBlocks) /\ b \in AllBlocks
  BY BlocksAssumption DEF TypeOK, AllPaths
<1>2. CASE ContinuesPath(b)
  <2> DEFINE new == Append(path.rotations, b)
  <2>1. new \in Seq(AllBlocks) /\ Len(new) = Len(path.rotations) + 1
    BY <1>1
  <2>2. path' = [path EXCEPT !.rotations = new]
    BY <1>2 DEF LearnRotation
  <2> HIDE DEF new
  <2>3. path' \in AllPaths /\ path'.rotations = new
    BY <1>1, <2>1, <2>2 DEF AllPaths
  <2> QED BY <1>1, <1>2, <2>1, <2>3, NothingAssumption
<1>3. CASE ~ContinuesPath(b)
  BY <1>1, <1>3 DEF LearnRotation
<1> QED BY <1>2, <1>3

\* A key change of the owner's line is put to it when its turn comes.
LEMMA RotationJoins ==
  ASSUME TypeOK, Sound, OnlyOwner, HighestDecides,
         NEW b \in Blocks, LoadRotation(b), NEW p, NEW r, ComesBack(p, r),
         p # NoPath, NEW i \in 1..Len(p.rotations), b = p.rotations[i],
         Unharmed(b, r)
  PROVE  /\ path # NoPath
         /\ i <= Len(path.rotations)
              \/ (i = Len(path.rotations) + 1 /\ ContinuesPath(b))
<1>1. /\ todo.paths = {} /\ todo.certs = {}
      /\ \A a \in todo.rotations : b.index <= a.index
  BY DEF LoadRotation
<1>2. OnDisk(p, r) /\ PathComesBack(p, r) /\ OwnKnown(p, paths, hashes)
  BY DEF ComesBack, OnDisk
<1>3. p \in AllPaths /\ PathChecks(p) /\ Len(p.rotations) \in Nat
  BY <1>2 DEF OwnKnown, AllPaths
<1>4. path # NoPath
  <2>1. PICK kp \in paths : TRUE
    BY <1>2 DEF OwnKnown
  <2> QED BY <1>1, <1>2, <2>1 DEF PathComesBack
<1>5. OwnKnown(path, paths \cup posting, hashes) /\ path \in AllPaths
  BY <1>4 DEF Sound, Known, TypeOK
<1>6. Len(path.rotations) \in Nat /\ PathChecks(path)
  BY <1>5 DEF AllPaths, OwnKnown
<1>7. p.node = path.node
  <2>1. PICK kp \in paths : kp \in OwnPaths
    BY <1>2 DEF OwnKnown, OnlyOwner
  <2> QED BY <1>2, <1>5, <2>1 DEF OwnKnown
<1>8. CASE i <= Len(path.rotations)
  BY <1>4, <1>8
<1>9. CASE ~(i <= Len(path.rotations))
  <2> DEFINE n == Len(path.rotations)
  <2>1. i - 1 <= n
    <3>1. CASE i = 1
      BY <1>6, <3>1
    <3>2. CASE i # 1
      <4> DEFINE a == p.rotations[i - 1]
      <4>1. i - 1 \in 1..Len(p.rotations) /\ (i - 1) + 1 = i /\ i > 1
        BY <1>3, <3>2
      <4>2. /\ a \in OwnBlocks /\ b \in OwnBlocks
            /\ IsRotation(a) /\ b.signer = OwnLine(p)[i] /\ b.index > a.index
        BY <1>2, <1>3, <4>1 DEF OwnKnown, PathChecks
      <4>3. OwnLine(p)[i] = a.next
        BY <1>3, <4>1, OwnLineAt
      <4>4. a.time <= b.time /\ a.index < b.index
        BY <4>2, <4>3, HeirComesLater
      <4>5. a \in AllBlocks /\ b \in AllBlocks
        BY <4>2, OwnBlock
      <4>6. Unharmed(a, r)
        <5>1. r # NoRev => r.since \in Nat
          BY <1>2 DEF OnDisk, AllRevs
        <5> QED BY <4>4, <4>5, <5>1 DEF Unharmed, AllBlocks
      <4>7. a \notin todo.rotations
        BY <1>1, <4>4, <4>5 DEF AllBlocks
      <4> HIDE DEF a
      <4>8. i - 1 <= Len(path.rotations)
        BY <1>1, <1>2, <4>1, <4>6, <4>7 DEF PathComesBack, a
      <4> QED BY <4>8
    <3> QED BY <3>1, <3>2
  <2>2. n = i - 1 /\ i = n + 1
    BY <1>3, <1>6, <1>9, <2>1
  <2>3. ~PastCompromise(b)
    <3>1. CASE r = NoRev
      BY <1>1, <1>2, <3>1, SameAsBefore DEF PastCompromise
    <3>2. CASE r # NoRev
      <4>1. r.since = rev.since /\ rev \in AllRevs
        BY <1>1, <1>2, <3>2, SameAsBefore
      <4>2. b.time \in Nat /\ rev.since \in Nat
        BY <4>1, BlocksAssumption DEF AllBlocks, AllRevs
      <4> QED BY <3>2, <4>1, <4>2 DEF PastCompromise, Unharmed
    <3> QED BY <3>1, <3>2
  <2>4. b.signer = OwnLine(p)[i]
    BY <1>3 DEF PathChecks
  <2>5. CASE n = 0
    <3>1. path.rotations = <<>>
      BY <1>5, <2>5 DEF AllPaths
    <3>2. /\ OwnLine(p)[1] = p.node /\ OwnLine(path)[1] = path.node
          /\ Len(OwnLine(path)) = n + 1
      BY <1>3, <1>5, OwnLineAt
    <3>3. OwnLine(p)[1] = OwnLine(path)[1] /\ Len(OwnLine(path)) = 1
      BY <1>7, <2>5, <3>2
    <3> QED BY <1>4, <2>2, <2>3, <2>4, <2>5, <3>1, <3>3 DEF ContinuesPath, LastOf
  <2>6. CASE n # 0
    <3>1. n \in 1..Len(path.rotations) /\ n \in 1..Len(p.rotations)
          /\ n <= Len(path.rotations) /\ n + 1 = i /\ i > 1 /\ i - 1 = n
      BY <1>3, <1>6, <2>2, <2>6
    <3>2. p.rotations[n] = path.rotations[n]
      BY <1>2, <1>5, <1>7, <3>1, Comparable
    <3>3. OwnLine(p)[n + 1] = p.rotations[n].next
      BY <1>3, <3>1, OwnLineAt
    <3>4. OwnLine(path)[n + 1] = path.rotations[n].next
          /\ Len(OwnLine(path)) = n + 1
      BY <1>5, <3>1, OwnLineAt
    <3>5. b.signer = LastOf(OwnLine(path))
      BY <2>4, <3>1, <3>2, <3>3, <3>4 DEF LastOf
    <3>6. b.index > p.rotations[n].index
      BY <1>3, <3>1 DEF PathChecks
    <3>7. LastOf(path.rotations) = p.rotations[n]
      BY <3>2 DEF LastOf
    <3> QED BY <1>4, <2>2, <2>3, <3>5, <3>6, <3>7 DEF ContinuesPath
  <2> QED BY <2>5, <2>6
<1> QED BY <1>8, <1>9

\* The next key of the replacement's line is put to it when its turn comes.
LEMMA HeirJoins ==
  ASSUME TypeOK, Sound, OnlyOwner, HighestDecides, ReplacementLine,
         NEW b \in Blocks, LoadRotation(b), NEW p, NEW r, ComesBack(p, r),
         r # NoRev, NEW i \in 2..Len(r.line), b.signer = r.line[i - 1],
         b.next = r.line[i], b.time > r.since
  PROVE  /\ rev # NoRev
         /\ \/ i <= Len(rev.line) /\ rev.line[i] = r.line[i]
            \/ i = Len(rev.line) + 1 /\ ContinuesLine(b)
<1>1. /\ todo.paths = {} /\ todo.certs = {} /\ b \in todo.rotations
      /\ \A a \in todo.rotations : b.index <= a.index
  BY DEF LoadRotation
<1>2. OnDisk(p, r) /\ LineComesBack(r)
  BY DEF ComesBack
<1>3. /\ rev # NoRev /\ r.since = rev.since /\ r.replacement = rev.replacement
      /\ r \in AllRevs /\ rev \in AllRevs
  BY <1>1, <1>2, SameAsBefore
<1>4. /\ r.line \in Seq(Keys) /\ rev.line \in Seq(Keys)
      /\ Len(r.line) \in Nat /\ Len(rev.line) \in Nat
      /\ i - 1 \in 1..Len(r.line) /\ i \in 1..Len(r.line)
  BY <1>3 DEF AllRevs
<1>5. LineHolds(r, hashes) /\ LineHolds(rev, hashes)
  BY <1>2, <1>3 DEF OnDisk, ReplacementLine
<1>6. /\ b \in hashes /\ b \in OwnBlocks /\ b \in AllBlocks /\ IsRotation(b)
      /\ \A a \in todo.rotations : a \in OwnBlocks /\ a \in AllBlocks /\ IsRotation(a)
  BY <1>1, BlocksAssumption DEF TypeOK, OnlyOwner
<1>7. i - 1 <= Len(rev.line) /\ rev.line[i - 1] = r.line[i - 1]
  <2>1. CASE i = 2
    <3>1. r.line # <<>>
      BY <1>4, <2>1
    <3>2. rev.line # <<>> /\ rev.line[1] = r.line[1]
      BY <1>3, <1>5, <3>1 DEF LineHolds
    <3>3. Len(rev.line) >= 1
      BY <1>4, <3>2
    <3> QED BY <2>1, <3>2, <3>3
  <2>2. CASE i # 2
    <3>1. i - 1 \in 2..Len(r.line)
      BY <1>4, <2>2
    <3>2. ASSUME NEW a \in todo.rotations, a.next = r.line[i - 1] PROVE FALSE
      <4>1. a.index < b.index
        BY <1>6, <3>2, HeirComesLater
      <4>2. b.index <= a.index /\ a.index \in Nat /\ b.index \in Nat
        BY <1>1, <1>6, <3>2 DEF AllBlocks
      <4> QED BY <4>1, <4>2
    <3> QED BY <1>2, <3>1, <3>2 DEF LineComesBack
  <2> QED BY <2>1, <2>2
<1>8. CASE i <= Len(rev.line)
  <2>0. PICK line \in Seq(Keys) : line = rev.line
    BY <1>4
  <2>1. i - 1 \in 1..Len(rev.line) - 1 /\ (i - 1) + 1 = i /\ rev.line[i] \in Keys
    <3>1. i \in Nat /\ i >= 2 /\ i <= Len(line) /\ Len(line) \in Nat
      BY <1>4, <1>8, <2>0
    <3>2. i - 1 \in 1..Len(line) - 1 /\ (i - 1) + 1 = i /\ i \in 1..Len(line)
      BY <3>1
    <3>3. line[i] \in Keys
      BY <3>2
    <3> QED BY <2>0, <3>2, <3>3
  <2>2. PICK d \in hashes : /\ d.signer = rev.line[i - 1]
                            /\ d.next = rev.line[(i - 1) + 1]
    BY <1>5, <2>1 DEF LineHolds
  <2>3. IsRotation(d) /\ d \in OwnBlocks
    BY <2>1, <2>2, KeysAssumption DEF IsRotation, OnlyOwner
  <2>4. d = b
    BY <1>6, <1>7, <2>2, <2>3, OneHandover
  <2> QED BY <1>3, <1>8, <2>1, <2>2, <2>4
<1>9. CASE ~(i <= Len(rev.line))
  <2>1. i = Len(rev.line) + 1 /\ Len(rev.line) = i - 1 /\ rev.line # <<>>
    BY <1>4, <1>7, <1>9
  <2>2. b.signer = LastOf(rev.line)
    BY <1>7, <2>1 DEF LastOf
  <2> QED BY <1>3, <2>1, <2>2 DEF ContinuesLine, PastCompromise
<1> QED BY <1>8, <1>9


\* A key change only lengthens the line.
LEMMA LineLengthens ==
  ASSUME TypeOK, NEW b \in Blocks, IsRotation(b), LearnRotation(b), rev # NoRev
  PROVE  /\ rev' # NoRev
         /\ \A i \in 1..Len(rev.line) :
              i <= Len(rev'.line) /\ rev'.line[i] = rev.line[i]
         /\ ContinuesLine(b) => /\ Len(rev'.line) = Len(rev.line) + 1
                                /\ rev'.line[Len(rev.line) + 1] = b.next
<1>1. /\ rev \in AllRevs /\ rev.line \in Seq(Keys) /\ Len(rev.line) \in Nat
      /\ b.next \in Keys
  BY BlocksAssumption DEF TypeOK, AllRevs, AllBlocks, IsRotation
<1>2. CASE ContinuesLine(b)
  <2> DEFINE new == Append(rev.line, b.next)
  <2>1. /\ new \in Seq(Keys) /\ Len(new) = Len(rev.line) + 1
        /\ new[Len(rev.line) + 1] = b.next
        /\ \A i \in 1..Len(rev.line) : new[i] = rev.line[i]
    BY <1>1
  <2>2. rev' = [rev EXCEPT !.line = new]
    BY <1>2 DEF LearnRotation
  <2> HIDE DEF new
  <2>3. rev' \in AllRevs /\ rev'.line = new
    BY <1>1, <2>1, <2>2 DEF AllRevs
  <2> QED BY <1>1, <1>2, <2>1, <2>3, NothingAssumption
<1>3. CASE ~ContinuesLine(b)
  BY <1>1, <1>3 DEF LearnRotation
<1> QED BY <1>2, <1>3

\* A key change read back is where it was, or what follows it is no loss.
LEMMA RotationReadBack ==
  ASSUME TypeOK, Sound, OnlyOwner, HighestDecides, ReplacementLine,
         NEW b \in Blocks, LoadRotation(b), NEW p, NEW r, ComesBack(p, r)
  PROVE  ComesBack(p, r)'
<1>1. /\ paths' = paths /\ certs' = certs /\ hashes' = hashes
      /\ b \in todo.rotations /\ IsRotation(b) /\ LearnRotation(b)
      /\ todo.paths = {} /\ todo.certs = {}
      /\ todo'.paths = {} /\ todo'.certs = {}
      /\ todo'.rotations = todo.rotations \ {b}
  BY DEF LoadRotation, disk, TypeOK
<1>2. OnDisk(p, r)'
  BY <1>1 DEF ComesBack, OnDisk
<1>3. ASSUME path # NoPath
      PROVE  /\ path' # NoPath /\ path \in AllPaths
             /\ Len(path.rotations) \in Nat
             /\ Len(path'.rotations) =
                  IF ContinuesPath(b) THEN Len(path.rotations) + 1
                  ELSE Len(path.rotations)
  BY <1>1, <1>3, PathLengthens
<1>4. ASSUME NEW kp \in paths \ todo'.paths
      PROVE  path' # NoPath /\ Len(kp.rotations) <= Len(path'.rotations)
  <2>1. path # NoPath /\ Len(kp.rotations) <= Len(path.rotations)
    BY <1>1 DEF ComesBack, PathComesBack
  <2>2. Len(kp.rotations) \in Nat
    BY PathsAssumption DEF TypeOK, AllPaths
  <2> QED BY <1>3, <2>1, <2>2
<1>5. ASSUME p # NoPath, NEW i \in 1..Len(p.rotations),
             Unharmed(p.rotations[i], r)
      PROVE  \/ p.rotations[i] \in todo'.rotations
             \/ path' # NoPath /\ i <= Len(path'.rotations)
  <2>1. CASE p.rotations[i] \in todo.rotations /\ p.rotations[i] # b
    BY <1>1, <2>1
  <2>2. CASE p.rotations[i] = b
    <3>1. /\ path # NoPath
          /\ i <= Len(path.rotations)
               \/ (i = Len(path.rotations) + 1 /\ ContinuesPath(b))
      BY <1>5, <2>2, RotationJoins
    <3> QED BY <1>3, <3>1
  <2>3. CASE path # NoPath /\ i <= Len(path.rotations)
    BY <1>3, <2>3
  <2> QED BY <1>1, <1>5, <2>1, <2>2, <2>3 DEF ComesBack, PathComesBack
<1>6. PathComesBack(p, r)'
  BY <1>1, <1>4, <1>5 DEF PathComesBack
<1>7. ASSUME r # NoRev, NEW i \in 2..Len(r.line)
      PROVE  \/ \E d \in todo'.rotations : /\ d.signer = r.line[i - 1]
                                           /\ d.next = r.line[i]
                                           /\ d.time > r.since
             \/ /\ rev' # NoRev
                /\ i <= Len(rev'.line) /\ rev'.line[i] = r.line[i]
  <2>1. r \in AllRevs /\ rev \in AllRevs /\ rev # NoRev
    BY <1>1, <1>7, SameAsBefore DEF ComesBack
  <2>2. /\ rev' # NoRev
        /\ \A k \in 1..Len(rev.line) :
             k <= Len(rev'.line) /\ rev'.line[k] = rev.line[k]
        /\ ContinuesLine(b) => /\ Len(rev'.line) = Len(rev.line) + 1
                               /\ rev'.line[Len(rev.line) + 1] = b.next
    BY <1>1, <2>1, LineLengthens
  <2>3. i \in Nat /\ i >= 1 /\ Len(rev.line) \in Nat
    BY <2>1 DEF AllRevs
  <2>4. ASSUME i <= Len(rev.line), rev.line[i] = r.line[i]
        PROVE  i <= Len(rev'.line) /\ rev'.line[i] = r.line[i]
    <3>1. i \in 1..Len(rev.line)
      BY <2>3, <2>4
    <3> QED BY <2>2, <2>4, <3>1
  <2>5. CASE /\ b.signer = r.line[i - 1] /\ b.next = r.line[i]
             /\ b.time > r.since
    <3>1. \/ i <= Len(rev.line) /\ rev.line[i] = r.line[i]
          \/ i = Len(rev.line) + 1 /\ ContinuesLine(b)
      BY <1>7, <2>5, HeirJoins
    <3>2. ASSUME i = Len(rev.line) + 1, ContinuesLine(b)
          PROVE  i <= Len(rev'.line) /\ rev'.line[i] = r.line[i]
      BY <2>2, <2>3, <2>5, <3>2
    <3> QED BY <2>2, <2>4, <3>1, <3>2
  <2>6. CASE \E d \in todo.rotations \ {b} : /\ d.signer = r.line[i - 1]
                                             /\ d.next = r.line[i]
                                             /\ d.time > r.since
    BY <1>1, <2>6
  <2>7. CASE i <= Len(rev.line) /\ rev.line[i] = r.line[i]
    BY <2>2, <2>4, <2>7
  <2> QED BY <1>7, <2>5, <2>6, <2>7 DEF ComesBack, LineComesBack
<1>8. LineComesBack(r)'
  BY <1>1, <1>7 DEF LineComesBack
<1> QED BY <1>2, <1>6, <1>8 DEF ComesBack

-----------------------------------------------------------------------------
(* The answers after load()                                                *)

\* What load() is bringing back is what was known at the stop.
Reloading ==
  ~Serving /\ before # Nothing /\ OnlyOwner => ComesBack(before.path, before.rev)

KeysInv ==
  /\ TypeOK /\ ServedPathChecks /\ HighestDecides /\ ReplacementLine
  /\ Sound /\ Reloading

\* Everything back, whatever was taken of the owner's blocks is taken.
SameAnswers ==
  Serving /\ OnlyOwner =>
    \A p : \A r : ComesBack(p, r) =>
      \A b \in OwnBlocks : Accepts(p, r, b) => Accepts(path, rev, b)

LEMMA AllBackAnswers == KeysInv => SameAnswers
<1> SUFFICES ASSUME KeysInv, Serving, OnlyOwner, NEW p, NEW r, ComesBack(p, r),
                    NEW b \in OwnBlocks, Accepts(p, r, b)
             PROVE  Accepts(path, rev, b)
  BY DEF SameAnswers
<1>1. /\ TypeOK /\ Sound /\ HighestDecides /\ ReplacementLine
      /\ todo.paths = {} /\ todo.certs = {} /\ todo.rotations = {}
  BY DEF KeysInv, Serving, Done
<1>2. OnDisk(p, r) /\ PathComesBack(p, r) /\ LineComesBack(r)
  BY DEF ComesBack
<1>3. /\ r = NoRev <=> rev = NoRev
      /\ r # NoRev => /\ r.since = rev.since /\ r.replacement = rev.replacement
                      /\ r \in AllRevs /\ rev \in AllRevs
  BY <1>1, <1>2, SameAsBefore
<1>4. b \in AllBlocks
  BY OwnBlock
<1>5. ASSUME r # NoRev, b.signer \in Members(r.line)
      PROVE  b.signer \in Members(rev.line)
  <2>1. PICK i \in 1..Len(r.line) : b.signer = r.line[i]
    BY <1>5 DEF Members
  <2>2. /\ r.line \in Seq(Keys) /\ rev.line \in Seq(Keys)
        /\ Len(r.line) \in Nat /\ Len(rev.line) \in Nat
    BY <1>3, <1>5 DEF AllRevs
  <2>3. LineHolds(r, hashes) /\ LineHolds(rev, hashes)
    BY <1>1, <1>2, <1>3, <1>5 DEF OnDisk, ReplacementLine
  <2>4. CASE i = 1
    <3>1. r.line # <<>>
      BY <2>2, <2>4
    <3>2. rev.line # <<>> /\ rev.line[1] = r.line[1]
      BY <1>3, <1>5, <2>3, <3>1 DEF LineHolds
    <3>3. 1 \in 1..Len(rev.line)
      BY <2>2, <3>2
    <3> QED BY <2>1, <2>4, <3>2, <3>3 DEF Members
  <2>5. CASE i # 1
    <3>1. i \in 2..Len(r.line)
      BY <2>2, <2>5
    <3>2. i <= Len(rev.line) /\ rev.line[i] = r.line[i]
      BY <1>1, <1>2, <1>5, <3>1 DEF LineComesBack
    <3>3. i \in 1..Len(rev.line)
      BY <2>2, <3>1, <3>2
    <3> QED BY <2>1, <3>2, <3>3 DEF Members
  <2> QED BY <2>4, <2>5
<1>6. ASSUME p # NoPath, b.signer \in Members(OwnLine(p)), Unharmed(b, r)
      PROVE  path # NoPath /\ b.signer \in Members(OwnLine(path))
  <2>1. OwnKnown(p, paths, hashes)
    BY <1>2, <1>6 DEF OnDisk
  <2>2. p \in AllPaths /\ PathChecks(p) /\ Len(p.rotations) \in Nat
    BY <2>1 DEF OwnKnown, AllPaths
  <2>3. PICK kp \in paths : kp \in OwnPaths
    BY <2>1 DEF OwnKnown, OnlyOwner
  <2>4. path # NoPath
    BY <1>1, <1>2, <2>3 DEF PathComesBack
  <2>5. OwnKnown(path, paths \cup posting, hashes) /\ path \in AllPaths
    BY <1>1, <2>4 DEF Sound, Known, TypeOK
  <2>6. p.node = path.node
    BY <2>1, <2>3, <2>5 DEF OwnKnown
  <2>7. Len(path.rotations) \in Nat
    BY <2>5 DEF AllPaths
  <2>8. PICK j \in 1..Len(OwnLine(p)) : b.signer = OwnLine(p)[j]
    BY <1>6 DEF Members
  <2>9. Len(OwnLine(p)) = Len(p.rotations) + 1
        /\ Len(OwnLine(path)) = Len(path.rotations) + 1
    BY <2>2, <2>5, OwnLineAt
  <2>10. CASE j = 1
    <3>1. OwnLine(path)[1] = OwnLine(p)[1]
      BY <2>2, <2>5, <2>6, OwnLineAt
    <3>2. 1 \in 1..Len(OwnLine(path))
      BY <2>7, <2>9
    <3> QED BY <2>4, <2>8, <2>10, <3>1, <3>2 DEF Members
  <2>11. CASE j # 1
    <3> DEFINE a == p.rotations[j - 1]
    <3>1. j - 1 \in 1..Len(p.rotations) /\ (j - 1) + 1 = j
      BY <2>2, <2>9, <2>11
    <3>2. /\ a \in OwnBlocks /\ IsRotation(a) /\ OwnLine(p)[j] = a.next
      BY <2>1, <2>2, <3>1, OwnLineAt DEF OwnKnown, PathChecks
    <3>3. a \in AllBlocks /\ a.time <= b.time
      BY <2>8, <3>2, OwnBlock, HeirComesLater
    <3>4. Unharmed(a, r)
      <4>1. r # NoRev => r.since \in Nat
        BY <1>2 DEF OnDisk, AllRevs
      <4> QED BY <1>4, <1>6, <3>3, <4>1 DEF Unharmed, AllBlocks
    <3>5. j - 1 <= Len(path.rotations)
      BY <1>1, <1>2, <1>6, <3>1, <3>4 DEF PathComesBack
    <3>6. p.rotations[j - 1] = path.rotations[j - 1]
      BY <2>1, <2>5, <2>6, <3>1, <3>5, Comparable
    <3>7. j - 1 \in 1..Len(path.rotations) /\ j \in 1..Len(OwnLine(path))
      BY <2>2, <2>7, <2>9, <3>1, <3>5
    <3>8. OwnLine(path)[j] = path.rotations[j - 1].next
      BY <2>5, <3>1, <3>7, OwnLineAt
    <3> QED BY <2>4, <2>8, <3>2, <3>6, <3>7, <3>8 DEF Members
  <2> QED BY <2>10, <2>11
<1>7. CASE r # NoRev /\ b.time > r.since
  BY <1>3, <1>5, <1>7 DEF Accepts, KeysFor
<1>8. CASE ~(r # NoRev /\ b.time > r.since)
  <2>1. Unharmed(b, r)
    <3>1. r # NoRev => r.since \in Nat /\ b.time \in Nat
      BY <1>2, <1>4 DEF OnDisk, AllRevs, AllBlocks
    <3> QED BY <1>8, <3>1 DEF Unharmed
  <2>2. \/ p # NoPath /\ b.signer \in Members(OwnLine(p))
        \/ r # NoRev /\ b.signer \in Members(r.line)
    BY <1>8 DEF Accepts, KeysFor
  <2>3. \/ path # NoPath /\ b.signer \in Members(OwnLine(path))
        \/ rev # NoRev /\ b.signer \in Members(rev.line)
    BY <1>3, <1>5, <1>6, <2>1, <2>2
  <2>4. ~(rev # NoRev /\ b.time > rev.since)
    BY <1>3, <1>8
  <2> QED BY <2>3, <2>4 DEF Accepts, KeysFor
<1> QED BY <1>7, <1>8


\* While load() runs, each step brings something back and loses nothing.
LEMMA LoadGoesOn ==
  ASSUME KeysInv, [Next]_vars, ~Serving, OnlyOwner,
         NEW p, NEW r, ComesBack(p, r)
  PROVE  ComesBack(p, r)'
<1>1. /\ TypeOK /\ ServedPathChecks /\ HighestDecides /\ ReplacementLine /\ Sound
      /\ posting = {} /\ checked = {} /\ added = {}
  BY DEF KeysInv, Sound, Alone
<1>2. ASSUME NEW kp \in Paths, LearnPath(kp) \/ KeepPath(kp) \/ LoadPath(kp)
      PROVE  ComesBack(p, r)'
  <2>1. LoadPath(kp)
    BY <1>1, <1>2 DEF LearnPath, KeepPath
  <2> QED BY <1>1, <2>1, PathReadBack
<1>3. ASSUME NEW c \in Certs, LearnRevocation(c) \/ LoadRevocation(c)
      PROVE  ComesBack(p, r)'
  <2>1. LoadRevocation(c)
    BY <1>3 DEF LearnRevocation
  <2> QED BY <1>1, <2>1, RevocationReadBack
<1>4. ASSUME NEW b \in Blocks,
             CheckBlock(b) \/ AddBlock(b) \/ LearnAdded(b) \/ LoadRotation(b)
      PROVE  ComesBack(p, r)'
  <2>1. LoadRotation(b)
    BY <1>1, <1>4 DEF CheckBlock, AddBlock, LearnAdded
  <2> QED BY <1>1, <2>1, RotationReadBack
<1>5. ASSUME Restart PROVE ComesBack(p, r)'
  <2>1. OnDisk(p, r)
    BY DEF ComesBack
  <2> QED BY <1>1, <1>5, <2>1, LoadBegins
<1>6. ASSUME UNCHANGED vars PROVE ComesBack(p, r)'
  <2>1. /\ path' = path /\ rev' = rev /\ paths' = paths /\ certs' = certs
        /\ hashes' = hashes /\ todo' = todo
    BY <1>6 DEF vars, memory, disk, process
  <2> QED
    BY <2>1 DEF ComesBack, OnDisk, PathComesBack, LineComesBack
<1> QED BY <1>2, <1>3, <1>4, <1>5, <1>6 DEF Next

\* The disk and the memory of the stop stay as they are while load() runs.
LEMMA LoadFrame ==
  ASSUME KeysInv, [Next]_vars, ~Serving
  PROVE  /\ before' = before /\ hashes' = hashes /\ paths' = paths
         /\ posting = {} /\ posting' = {}
<1>1. posting = {} /\ checked = {} /\ added = {}
  BY DEF KeysInv, Sound, Alone
<1> QED
  BY <1>1 DEF Next, LearnPath, KeepPath, LoadPath, LearnRevocation,
    LoadRevocation, CheckBlock, AddBlock, LearnAdded, LoadRotation, Restart,
    vars, disk, handlers, process

\* Nothing but a stop begins load().
LEMMA OnlyRestartStops ==
  ASSUME KeysInv, [Next]_vars, Serving, ~Serving'
  PROVE  Restart
<1>1. todo' # todo
  BY DEF Serving, Done
<1>2. ASSUME NEW kp \in Paths, LearnPath(kp) \/ KeepPath(kp) \/ LoadPath(kp)
      PROVE  FALSE
  BY <1>1, <1>2 DEF LearnPath, KeepPath, LoadPath, process, Serving, Done
<1>3. ASSUME NEW c \in Certs, LearnRevocation(c) \/ LoadRevocation(c)
      PROVE  FALSE
  BY <1>1, <1>3 DEF LearnRevocation, LoadRevocation, process, Serving, Done
<1>4. ASSUME NEW b \in Blocks,
             CheckBlock(b) \/ AddBlock(b) \/ LearnAdded(b) \/ LoadRotation(b)
      PROVE  FALSE
  BY <1>1, <1>4 DEF CheckBlock, AddBlock, LearnAdded, LoadRotation, process,
    Serving, Done
<1>5. ASSUME UNCHANGED vars PROVE FALSE
  BY <1>1, <1>5 DEF vars, process
<1> QED BY <1>2, <1>3, <1>4, <1>5 DEF Next

LEMMA ReloadingNext == KeysInv /\ [Next]_vars => Reloading'
<1> SUFFICES ASSUME KeysInv, [Next]_vars, ~Serving', before' # Nothing, OnlyOwner'
             PROVE  ComesBack(before.path, before.rev)'
  BY DEF Reloading
<1>1. CASE ~Serving
  <2>1. before' = before /\ OnlyOwner
    BY <1>1, LoadFrame DEF OnlyOwner
  <2>2. PICK p, r : p = before.path /\ r = before.rev
    OBVIOUS
  <2>3. ComesBack(p, r)
    BY <1>1, <2>1, <2>2 DEF KeysInv, Reloading
  <2>4. ComesBack(p, r)'
    BY <1>1, <2>1, <2>3, LoadGoesOn
  <2>5. before'.path = p /\ before'.rev = r
    BY <2>1, <2>2
  <2> QED BY <2>4, <2>5 DEF ComesBack, OnDisk, PathComesBack, LineComesBack
<1>2. CASE Serving
  <2>1. Restart
    BY <1>2, OnlyRestartStops
  <2>2. posting = {} /\ before' = [path |-> path, rev |-> rev]
    BY <1>2, <2>1 DEF Restart
  <2>3. OnlyOwner
    BY <2>1, <2>2 DEF Restart, disk, OnlyOwner
  <2>4. PICK p, r : p = path /\ r = rev
    OBVIOUS
  <2>5. /\ TypeOK /\ Sound /\ ReplacementLine /\ HighestDecides
    BY DEF KeysInv
  <2>6. OnDisk(p, r)
    BY <1>2, <2>2, <2>3, <2>4, <2>5, StopOnDisk DEF OnDisk
  <2>7. ComesBack(p, r)'
    BY <2>1, <2>3, <2>5, <2>6, LoadBegins
  <2>8. before'.path = p /\ before'.rev = r
    BY <2>2, <2>4
  <2> QED BY <2>7, <2>8 DEF ComesBack, OnDisk, PathComesBack, LineComesBack
<1> QED BY <1>1, <1>2

LEMMA InitKeys == Init => KeysInv
<1> SUFFICES ASSUME Init PROVE KeysInv
  OBVIOUS
<1>1. Serving
  BY DEF Init, Serving
<1>2. HighestDecides
  BY DEF Init, HighestDecides, Decides, Done
<1> QED
  BY <1>1, <1>2, InitType, InitSound
  DEF KeysInv, Reloading, Init, ServedPathChecks, ReplacementLine

LEMMA NextKeys == KeysInv /\ [Next]_vars => KeysInv'
BY NextType, PathNext, HighestNext, LineNext, NextSound, ReloadingNext
DEF KeysInv

\* When load() ends, the answers for the owner's blocks are those of the stop.
LEMMA ReloadAnswers ==
  KeysInv /\ [Next]_vars /\ SameAnswers' =>
    (Reloads /\ hashes \subseteq OwnBlocks /\ paths \subseteq OwnPaths
       => \A b \in OwnBlocks : Accepts(before.path, before.rev, b)
                                 => Accepts(path', rev', b))
<1> SUFFICES ASSUME KeysInv, [Next]_vars, SameAnswers', Reloads,
                    hashes \subseteq OwnBlocks, paths \subseteq OwnPaths
             PROVE  \A b \in OwnBlocks : Accepts(before.path, before.rev, b)
                                           => Accepts(path', rev', b)
  OBVIOUS
<1>1. ~Serving /\ Serving' /\ before # Nothing
  BY DEF Reloads, Serving, Done
<1>2. OnlyOwner /\ OnlyOwner'
  BY <1>1, LoadFrame DEF OnlyOwner
<1>3. PICK p, r : p = before.path /\ r = before.rev
  OBVIOUS
<1>4. ComesBack(p, r)
  BY <1>1, <1>2, <1>3 DEF KeysInv, Reloading
<1>5. ComesBack(p, r)'
  BY <1>1, <1>2, <1>4, LoadGoesOn
<1>6. \A b \in OwnBlocks : Accepts(p, r, b) => Accepts(path', rev', b)
  BY <1>1, <1>2, <1>5 DEF SameAnswers, Accepts
<1> QED BY <1>3, <1>6

\* Nothing an honest owner had taken is refused after a restart: whatever the
\* order in which paths, certificates and key changes are read back, and however
\* often load() is cut short, a block of his taken before the stop is taken after.
THEOREM RestartKeepsVerdicts == Spec => VerdictsSurviveRestart
<1>1. KeysInv /\ [Next]_vars /\ SameAnswers' =>
        [Reloads /\ hashes \subseteq OwnBlocks /\ paths \subseteq OwnPaths
           => \A b \in OwnBlocks : Accepts(before.path, before.rev, b)
                                     => Accepts(path', rev', b)]_vars
  BY ReloadAnswers
<1> QED
  BY <1>1, InitKeys, NextKeys, AllBackAnswers, PTL
  DEF Spec, VerdictsSurviveRestart

=============================================================================
