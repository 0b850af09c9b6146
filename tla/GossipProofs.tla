---------------------------- MODULE GossipProofs ----------------------------
(***************************************************************************)
(* For any aggregators, peers, blocks, paths, revocations and              *)
(* co-signatures, whatever is lost or restarted: the two counts a table of *)
(* deals is kept by tell the states of a storage apart, and storages only  *)
(* grow.                                                                   *)
(***************************************************************************)
EXTENDS Gossip, FiniteSetTheorems, TLAPS

-----------------------------------------------------------------------------
(* The invariant.                                                          *)

IsStorage(s) ==
  s = [t \in {"blocks", "hashes", "keypaths", "revocations", "cosigs", "entries"} |-> s[t]]

\* A block kept is indexed, an indexed hash has a block at its address, and an
\* address has one block.
StorageOK(s) ==
  /\ IsStorage(s)
  /\ IsFiniteSet(s.blocks) /\ IsFiniteSet(s.cosigs)
  /\ s.blocks \subseteq s.hashes
  /\ \A h \in s.hashes : At(s, h) # {}
  /\ \A b \in s.blocks, c \in s.blocks : Address(b) = Address(c) => b = c

\* A list that is not finished is one of a table.
TurnOK(t) ==
  /\ t = [f \in {"peer", "table", "left"} |-> t[f]]
  /\ t.table \in 0..5
  /\ t.left # {} => t.table # 0

IInv ==
  /\ store = [a \in Aggregators |-> store[a]]
  /\ turn = [a \in Aggregators |-> turn[a]]
  /\ \A a \in Aggregators : StorageOK(store[a]) /\ TurnOK(turn[a])

-----------------------------------------------------------------------------
(* What one put does to a storage.                                         *)

Loose == {"entries", "revocations", "keypaths"}

\* A step of the storage: nothing, a block, something nobody counts, a
\* co-signature.
Puts(s, r) ==
  \/ r = s
  \/ \E b : r = AddBlock(s, b)
  \/ \E t \in Loose : \E es : r = Put(s, t, es)
  \/ \E e : r = PutCosig(s, e)

LEMMA AddBlockIs ==
  ASSUME NEW s, StorageOK(s), NEW b
  PROVE  /\ IsStorage(AddBlock(s, b))
         /\ AddBlock(s, b).hashes = s.hashes \cup {b}
         /\ AddBlock(s, b).blocks = IF b \in s.hashes \/ At(s, b) # {}
                                    THEN s.blocks ELSE s.blocks \cup {b}
         /\ AddBlock(s, b).cosigs = s.cosigs
BY DEF AddBlock, StorageOK, IsStorage

LEMMA PutIs ==
  ASSUME NEW s, StorageOK(s), NEW t \in Loose, NEW es
  PROVE  /\ IsStorage(Put(s, t, es))
         /\ Put(s, t, es).hashes = s.hashes
         /\ Put(s, t, es).blocks = s.blocks
         /\ Put(s, t, es).cosigs = s.cosigs
BY DEF Put, StorageOK, IsStorage, Loose

LEMMA PutCosigIs ==
  ASSUME NEW s, StorageOK(s), NEW e
  PROVE  /\ IsStorage(PutCosig(s, e))
         /\ PutCosig(s, e).hashes = s.hashes
         /\ PutCosig(s, e).blocks = s.blocks
         /\ PutCosig(s, e).cosigs = IF HasCosig(s, e.of) THEN s.cosigs ELSE s.cosigs \cup {e}
BY DEF PutCosig, Put, StorageOK, IsStorage

\* A storage stays as it should be.
LEMMA PutsKeep ==
  ASSUME NEW s, StorageOK(s), NEW r, Puts(s, r)
  PROVE  StorageOK(r)
<1>1. ASSUME NEW b, r = AddBlock(s, b)
      PROVE  StorageOK(r)
  <2>1. /\ IsStorage(r) /\ r.hashes = s.hashes \cup {b} /\ r.cosigs = s.cosigs
        /\ r.blocks = IF b \in s.hashes \/ At(s, b) # {} THEN s.blocks ELSE s.blocks \cup {b}
    BY <1>1, AddBlockIs
  <2>2. IsFiniteSet(r.blocks)
    <3>1. IsFiniteSet(s.blocks) /\ IsFiniteSet(s.blocks \cup {b})
      BY FS_AddElement DEF StorageOK
    <3> QED
      BY <2>1, <3>1
  <2>3. r.blocks \subseteq r.hashes
    BY <2>1 DEF StorageOK
  <2>4. \A h \in r.hashes : At(r, h) # {}
    <3>1. \A h \in s.hashes : At(r, h) # {}
      BY <2>1 DEF StorageOK, At
    <3>2. At(r, b) # {}
      BY <2>1, <3>1 DEF At
    <3> QED
      BY <2>1, <3>1, <3>2
  <2>5. \A c \in r.blocks, e \in r.blocks : Address(c) = Address(e) => c = e
    BY <2>1 DEF StorageOK, At
  <2> QED
    BY <2>1, <2>2, <2>3, <2>4, <2>5 DEF StorageOK
<1>2. ASSUME IsStorage(r), r.hashes = s.hashes, r.blocks = s.blocks, IsFiniteSet(r.cosigs)
      PROVE  StorageOK(r)
  BY <1>2 DEF StorageOK, At
<1>3. ASSUME NEW t \in Loose, NEW es, r = Put(s, t, es)
      PROVE  StorageOK(r)
  BY <1>2, <1>3, PutIs DEF StorageOK
<1>4. ASSUME NEW e, r = PutCosig(s, e)
      PROVE  StorageOK(r)
  <2>1. /\ IsStorage(r) /\ r.hashes = s.hashes /\ r.blocks = s.blocks
        /\ r.cosigs = IF HasCosig(s, e.of) THEN s.cosigs ELSE s.cosigs \cup {e}
    BY <1>4, PutCosigIs
  <2>2. IsFiniteSet(r.cosigs)
    <3>1. IsFiniteSet(s.cosigs) /\ IsFiniteSet(s.cosigs \cup {e})
      BY FS_AddElement DEF StorageOK
    <3> QED
      BY <2>1, <3>1
  <2> QED
    BY <1>2, <2>1, <2>2
<1> QED
  BY <1>1, <1>3, <1>4 DEF Puts

\* The blocks that are co-signed: one name for each, and finitely many.
Cosigned(s) == {e.of : e \in s.cosigs}

LEMMA CosignedFinite ==
  ASSUME NEW s, StorageOK(s)
  PROVE  IsFiniteSet(Cosigned(s))
<1>1. Cosigned(s) = Range([e \in s.cosigs |-> e.of])
  BY DEF Cosigned, Range
<1> DEFINE f == [e \in s.cosigs |-> e.of]
<1>2. f \in Surjection(s.cosigs, Cosigned(s))
  BY DEF Surjection, Cosigned
<1> QED
  BY <1>2, FS_Surjection DEF StorageOK

\* A put that the table of deals would see is one the counts show, but for a
\* second block at one address; and no count ever falls.
Told(s, r) ==
  /\ TableReads(r) # TableReads(s) /\ ~Forked(r) => Stamp(r) # Stamp(s)
  /\ \A i \in 1..2 : Stamp(s)[i] <= Stamp(r)[i]

LEMMA StampIs ==
  ASSUME NEW s, StorageOK(s)
  PROVE  /\ Stamp(s)[1] = Cardinality(s.blocks) /\ Stamp(s)[2] = Cardinality(Cosigned(s))
         /\ Stamp(s)[1] \in Nat /\ Stamp(s)[2] \in Nat
BY CosignedFinite, FS_CardinalityType DEF Stamp, Cosigned, StorageOK

LEMMA PutsTell ==
  ASSUME NEW s, StorageOK(s), NEW r, Puts(s, r)
  PROVE  Told(s, r)
<1>0. StorageOK(r)
  BY PutsKeep
<1>1. ASSUME r.hashes = s.hashes, r.blocks = s.blocks, r.cosigs = s.cosigs
      PROVE  Told(s, r)
  <2>1. TableReads(r) = TableReads(s)
    BY <1>1 DEF TableReads, Served, At
  <2>2. Stamp(r) = Stamp(s)
    BY <1>1 DEF Stamp
  <2> QED
    BY <1>0, <2>1, <2>2, StampIs DEF Told
<1>2. ASSUME NEW b, r = AddBlock(s, b)
      PROVE  Told(s, r)
  <2>1. /\ r.hashes = s.hashes \cup {b} /\ r.cosigs = s.cosigs
        /\ r.blocks = IF b \in s.hashes \/ At(s, b) # {} THEN s.blocks ELSE s.blocks \cup {b}
    BY <1>2, AddBlockIs
  <2>2. Cosigned(r) = Cosigned(s)
    BY <2>1 DEF Cosigned
  <2>3. CASE b \in s.hashes
    <3>1. r.hashes = s.hashes /\ r.blocks = s.blocks
      BY <2>1, <2>3
    <3> QED
      BY <1>1, <2>1, <3>1
  <2>4. CASE b \notin s.hashes /\ At(s, b) # {}
    <3>1. r.blocks = s.blocks /\ Forked(r)
      BY <2>1, <2>4 DEF Forked, StorageOK
    <3> QED
      BY <1>0, <2>2, <3>1, StampIs DEF Told
  <2>5. CASE b \notin s.hashes /\ At(s, b) = {}
    <3>1. r.blocks = s.blocks \cup {b} /\ b \notin s.blocks
      BY <2>1, <2>5 DEF StorageOK
    <3>2. Cardinality(r.blocks) = Cardinality(s.blocks) + 1
      BY <3>1, FS_AddElement DEF StorageOK
    <3> QED
      BY <1>0, <2>2, <3>2, StampIs DEF Told
  <2> QED
    BY <2>3, <2>4, <2>5
<1>3. ASSUME NEW t \in Loose, NEW es, r = Put(s, t, es)
      PROVE  Told(s, r)
  BY <1>1, <1>3, PutIs
<1>4. ASSUME NEW e, r = PutCosig(s, e)
      PROVE  Told(s, r)
  <2>1. /\ r.hashes = s.hashes /\ r.blocks = s.blocks
        /\ r.cosigs = IF HasCosig(s, e.of) THEN s.cosigs ELSE s.cosigs \cup {e}
    BY <1>4, PutCosigIs
  <2>2. CASE HasCosig(s, e.of)
    BY <1>1, <2>1, <2>2
  <2>3. CASE ~HasCosig(s, e.of)
    <3>1. Cosigned(r) = Cosigned(s) \cup {e.of} /\ e.of \notin Cosigned(s)
      BY <2>1, <2>3 DEF Cosigned, HasCosig
    <3>2. Cardinality(Cosigned(r)) = Cardinality(Cosigned(s)) + 1
      BY <3>1, CosignedFinite, FS_AddElement
    <3> QED
      BY <1>0, <2>1, <3>2, StampIs DEF Told
  <2> QED
    BY <2>2, <2>3
<1> QED
  BY <1>1, <1>2, <1>3, <1>4 DEF Puts

-----------------------------------------------------------------------------
(* Every step puts into one storage at most.                               *)

StoreStep ==
  \/ store' = store
  \/ \E a \in Aggregators : \E r : store' = [store EXCEPT ![a] = r] /\ Puts(store[a], r)

LEMMA PostPuts ==
  ASSUME NEW a \in Aggregators, Post(a)
  PROVE  StoreStep /\ UNCHANGED turn
<1>1. CASE PostEntry(a)
  BY <1>1 DEF PostEntry, Keep, StoreStep, Puts, Loose
<1>2. CASE PostRevocation(a)
  BY <1>2 DEF PostRevocation, Keep, StoreStep, Puts, Loose
<1>3. CASE PostKeyPath(a)
  BY <1>3 DEF PostKeyPath, Keep, StoreStep, Puts, Loose
<1>4. CASE PostBlock(a)
  BY <1>4 DEF PostBlock, Keep, StoreStep, Puts
<1>5. CASE PostCosig(a)
  BY <1>5 DEF PostCosig, Keep, StoreStep, Puts
<1> QED
  BY <1>1, <1>2, <1>3, <1>4, <1>5 DEF Post

LEMMA FetchedPuts ==
  ASSUME NEW s, NEW theirs, NEW i \in 1..5, NEW x, NEW r \in Fetched(s, theirs, Tables[i], x)
  PROVE  Puts(s, r)
<1>1. Tables[i] \in {"blocks", "cosigs"} \cup Loose
  BY DEF Tables, Loose
<1>2. CASE Tables[i] = "blocks"
  <2>1. r \in FetchedBlock(s, theirs, x)
    BY <1>2 DEF Fetched
  <2> QED
    BY <2>1 DEF FetchedBlock, Puts
<1>3. CASE Tables[i] = "cosigs"
  <2>1. r \in FetchedCosig(s, theirs, x)
    BY <1>3 DEF Fetched
  <2> QED
    BY <2>1 DEF FetchedCosig, Puts
<1>4. CASE Tables[i] \in Loose
  <2>1. r = Put(s, Tables[i], ListOf(theirs, Tables[i], x))
    BY <1>4 DEF Fetched, Loose
  <2> QED
    BY <1>4, <2>1 DEF Puts
<1> QED
  BY <1>1, <1>2, <1>3, <1>4

LEMMA FetchPuts ==
  ASSUME IInv, NEW a \in Aggregators, Fetch(a)
  PROVE  StoreStep
<1>1. turn[a].left # {}
  BY DEF Fetch
<1>2. turn[a].table \in 1..5
  BY <1>1 DEF IInv, TurnOK
<1>3. PICK x \in turn[a].left :
        \E s \in Fetched(store[a], Peer(a), Tables[turn[a].table], x) : Keep(a, s)
  BY DEF Fetch
<1>4. PICK s \in Fetched(store[a], Peer(a), Tables[turn[a].table], x) : Keep(a, s)
  BY <1>3
<1>5. Puts(store[a], s)
  BY <1>2, <1>4, FetchedPuts
<1> QED
  BY <1>4, <1>5 DEF StoreStep, Keep

LEMMA TurnsKeep ==
  ASSUME IInv, NEW a \in Aggregators,
         NextList(a) \/ LoseList(a) \/ NextPeer(a) \/ Fetch(a) \/ LoseEntry(a) \/ Restart(a)
  PROVE  /\ turn' = [c \in Aggregators |-> turn'[c]]
         /\ \A c \in Aggregators : TurnOK(turn'[c])
<1>0. /\ turn = [c \in Aggregators |-> turn[c]] /\ Len(Tables) = 5
      /\ \A c \in Aggregators : TurnOK(turn[c])
  BY DEF IInv, Tables
<1>1. ASSUME NEW t, turn' = [turn EXCEPT ![a] = t], TurnOK(t)
      PROVE  /\ turn' = [c \in Aggregators |-> turn'[c]]
             /\ \A c \in Aggregators : TurnOK(turn'[c])
  BY <1>0, <1>1
<1>2. CASE NextList(a)
  <2> DEFINE t == turn[a].table + 1
  <2>1. PICK l : turn' = [turn EXCEPT ![a].table = t, ![a].left = l]
    BY <1>2 DEF NextList
  <2>2. turn' = [turn EXCEPT ![a] = [turn[a] EXCEPT !.table = t, !.left = l]]
    BY <1>0, <2>1
  <2>3. TurnOK([turn[a] EXCEPT !.table = t, !.left = l])
    <3>1. t \in 1..5
      BY <1>0, <1>2 DEF NextList, TurnOK
    <3> HIDE DEF t
    <3>2. turn[a] = [f \in {"peer", "table", "left"} |-> turn[a][f]]
      BY <1>0 DEF TurnOK
    <3>3. PICK u : u = [turn[a] EXCEPT !.table = t, !.left = l]
      OBVIOUS
    <3>4. /\ u = [f \in {"peer", "table", "left"} |-> u[f]]
          /\ u.table = t
      BY <3>2, <3>3
    <3>5. TurnOK(u)
      BY <3>1, <3>4 DEF TurnOK
    <3> QED
      BY <3>3, <3>5
  <2> QED
    BY <1>1, <2>2, <2>3
<1>3. CASE LoseList(a)
  <2>1. turn' = [turn EXCEPT ![a] = [turn[a] EXCEPT !.table = @ + 1]]
    BY <1>0, <1>3 DEF LoseList
  <2>2. TurnOK([turn[a] EXCEPT !.table = @ + 1])
    BY <1>0, <1>3 DEF LoseList, TurnOK
  <2> QED
    BY <1>1, <2>1, <2>2
<1>4. CASE NextPeer(a)
  <2>1. PICK n : turn' = [turn EXCEPT ![a] = [Start EXCEPT !.peer = n]]
    BY <1>4 DEF NextPeer
  <2>2. TurnOK([Start EXCEPT !.peer = n])
    BY DEF Start, TurnOK
  <2> QED
    BY <1>1, <2>1, <2>2
<1>5. CASE Fetch(a) \/ LoseEntry(a)
  <2>1. PICK x \in turn[a].left : turn' = [turn EXCEPT ![a].left = @ \ {x}]
    BY <1>5 DEF Fetch, LoseEntry
  <2>2. turn' = [turn EXCEPT ![a] = [turn[a] EXCEPT !.left = @ \ {x}]]
    BY <1>0, <2>1
  <2>3. TurnOK([turn[a] EXCEPT !.left = @ \ {x}])
    BY <1>0, <2>1 DEF TurnOK
  <2> QED
    BY <1>1, <2>2, <2>3
<1>6. CASE Restart(a)
  <2>1. TurnOK(Start)
    BY DEF Start, TurnOK
  <2> QED
    BY <1>1, <1>6, <2>1 DEF Restart
<1> QED
  BY <1>2, <1>3, <1>4, <1>5, <1>6

LEMMA NextPuts ==
  ASSUME IInv, [Next]_vars
  PROVE  StoreStep
<1>1. ASSUME NEW a \in Aggregators, Post(a)
      PROVE  StoreStep
  BY <1>1, PostPuts
<1>2. ASSUME NEW a \in Aggregators, Fetch(a)
      PROVE  StoreStep
  BY <1>2, FetchPuts
<1>3. ASSUME NEW a \in Aggregators,
             NextList(a) \/ NextPeer(a) \/ Restart(a) \/ LoseList(a) \/ LoseEntry(a)
      PROVE  StoreStep
  BY <1>3 DEF NextList, NextPeer, Restart, LoseList, LoseEntry, StoreStep
<1> QED
  BY <1>1, <1>2, <1>3 DEF Next, Pull, vars, StoreStep

LEMMA NextTurns ==
  ASSUME IInv, [Next]_vars
  PROVE  /\ turn' = [c \in Aggregators |-> turn'[c]]
         /\ \A c \in Aggregators : TurnOK(turn'[c])
<1>1. CASE UNCHANGED turn
  BY <1>1 DEF IInv
<1> QED
  BY <1>1, PostPuts, TurnsKeep DEF Next, Pull, vars

-----------------------------------------------------------------------------
(* The theorems.                                                           *)

LEMMA InitHolds == Init => IInv
<1>1. StorageOK(EmptyStorage)
  BY FS_EmptySet DEF EmptyStorage, StorageOK, IsStorage
<1>2. TurnOK(Start)
  BY DEF Start, TurnOK
<1> QED
  BY <1>1, <1>2 DEF Init, IInv

\* In every storage a block kept is indexed, an indexed hash has a block at its
\* address, and no address has two (AggregatorStorage::add_block).
THEOREM StoragesAreSound == Spec => []IInv
<1>1. IInv /\ [Next]_vars => IInv'
  <2> SUFFICES ASSUME IInv, [Next]_vars PROVE IInv'
    OBVIOUS
  <2>1. /\ store' = [a \in Aggregators |-> store'[a]]
        /\ \A a \in Aggregators : StorageOK(store'[a])
    <3>1. StoreStep
      BY NextPuts
    <3>2. /\ store = [a \in Aggregators |-> store[a]]
          /\ \A a \in Aggregators : StorageOK(store[a])
      BY DEF IInv
    <3>3. CASE store' = store
      BY <3>2, <3>3
    <3>4. ASSUME NEW a \in Aggregators, NEW r,
                 store' = [store EXCEPT ![a] = r], Puts(store[a], r)
          PROVE  /\ store' = [c \in Aggregators |-> store'[c]]
                 /\ \A c \in Aggregators : StorageOK(store'[c])
      BY <3>2, <3>4, PutsKeep
    <3> QED
      BY <3>1, <3>3, <3>4 DEF StoreStep
  <2> QED
    BY <2>1, NextTurns DEF IInv
<1> QED
  BY <1>1, InitHolds, PTL DEF Spec

\* A table of deals kept while the counts of blocks and co-signatures stay the
\* same is current wherever no address is forked (deals_on_table), for any
\* storage and any order of posts, fetches, losses and restarts.
THEOREM CountsTell == Spec => CountsNameTheState
<1> DEFINE Kept == \A a \in Aggregators :
              /\ TableReads(store[a])' # TableReads(store[a]) /\ ~Forked(store[a])'
                   => Stamp(store[a])' # Stamp(store[a])
              /\ \A i \in 1..2 : Stamp(store[a])[i] <= Stamp(store[a])'[i]
<1>1. IInv /\ [Next]_vars => Kept
  <2> SUFFICES ASSUME IInv, [Next]_vars, NEW a \in Aggregators
               PROVE  Told(store[a], store'[a])
    BY DEF Told, TableReads, Forked, Stamp, Served, At, Address
  <2>1. store = [c \in Aggregators |-> store[c]] /\ StorageOK(store[a])
    BY DEF IInv
  <2>2. Puts(store[a], store'[a])
    <3>1. CASE store' = store
      BY <3>1 DEF Puts
    <3>2. ASSUME NEW c \in Aggregators, NEW r,
                 store' = [store EXCEPT ![c] = r], Puts(store[c], r)
          PROVE  Puts(store[a], store'[a])
      BY <2>1, <3>2 DEF Puts
    <3> QED
      BY <3>1, <3>2, NextPuts DEF StoreStep
  <2> QED
    BY <2>1, <2>2, PutsTell
<1> QED
  BY <1>1, StoragesAreSound, PTL DEF Spec, CountsNameTheState
=============================================================================
