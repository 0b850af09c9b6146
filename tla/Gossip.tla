------------------------------- MODULE Gossip -------------------------------
(***************************************************************************)
(* Several aggregators that pull from each other (AggregatorServer::       *)
(* sync_with_peer) while clients post to them.  A round walks the tables   *)
(* of one peer in the order of the code: entries of snapshots and seals,   *)
(* revocations, key paths, then blocks, then co-signatures.  Of each it    *)
(* takes the list once and fetches what it names one request at a time; a  *)
(* request may be lost, a block may be refused, and either is left for a   *)
(* later round.                                                            *)
(***************************************************************************)
EXTENDS Warehouse, Sequences

CONSTANTS
  Aggregators,
  Peers,         \* the peers of each, in the order of the command line
  Blocks, KeyPaths, Certificates, Cosigs, Entries,
                 \* what clients may post
  Posts,         \* which aggregators a client posts each of them to
  MaxFaults      \* bound: restarts, and requests between aggregators that
                 \* get lost

ASSUME PeersAssumption == Peers \in [Aggregators -> Seq(Aggregators)]
ASSUME FaultsAssumption == MaxFaults \in Nat

VARIABLES
  store,     \* the storage of each aggregator
  turn,      \* where each sync thread is: its peer, its table, the list left
  faults     \* restarts and losses so far

vars == <<store, turn, faults>>

Tables == <<"entries", "revocations", "keypaths", "blocks", "cosigs">>

Start == [peer |-> 1, table |-> 0, left |-> {}]

-----------------------------------------------------------------------------
(* Clients                                                                 *)

Keep(a, s) == store' = [store EXCEPT ![a] = s]

\* POST /seals and POST /snapshot: bytes in, bytes out (no list is full).
PostEntry(a) ==
  /\ \E e \in Entries : a \in Posts[e] /\ Keep(a, Put(store[a], "entries", {e}))
  /\ UNCHANGED <<turn, faults>>

\* POST /revocations, of what checks.
PostRevocation(a) ==
  /\ \E c \in Certificates :
       a \in Posts[c] /\ Keep(a, Put(store[a], "revocations", {c}))
  /\ UNCHANGED <<turn, faults>>

\* POST /keypaths: refused (400) unless it leads to the key it is posted under.
PostKeyPath(a) ==
  /\ \E p \in KeyPaths : a \in Posts[p] /\ Keep(a, Put(store[a], "keypaths", {p}))
  /\ UNCHANGED <<turn, faults>>

\* POST /blocks: refused (403) unless signed by its branch; asked for the path
\* of an unknown branch (428), the client sends it and posts again (send_block).
PostBlock(a) ==
  /\ \E b \in Blocks :
       /\ a \in Posts[b]
       /\ Accepts(store[a], b)
       /\ Keep(a, AddBlock(store[a], b))
  /\ UNCHANGED <<turn, faults>>

\* POST /cosigs: 404 without the merge block, 403 without the key.
PostCosig(a) ==
  /\ \E e \in Cosigs :
       /\ a \in Posts[e]
       /\ TakesCosig(store[a], e)
       /\ Keep(a, PutCosig(store[a], e))
  /\ UNCHANGED <<turn, faults>>

-----------------------------------------------------------------------------
(* The sync thread                                                         *)

Peer(a) == store[Peers[a][turn[a].peer]]

\* Mutant: key paths are not exchanged.
WantedWithoutPaths(mine, theirs, table) ==
  CASE table = "blocks" -> theirs.hashes \ mine.hashes
    [] table = "cosigs" -> {m \in Listed(theirs, table) : ~HasCosig(mine, m)}
    [] table = "keypaths" -> {}
    [] OTHER -> {n \in Listed(theirs, table) :
                   ~(ListOf(theirs, table, n) \subseteq mine[table])}

\* The names on the peer's list worth a request.  Lists of seals, revocations
\* and paths are asked for again each round; those that would change nothing
\* are left out.
Wanted(mine, theirs, table) ==
  CASE table = "blocks" -> theirs.hashes \ mine.hashes
    [] table = "cosigs" -> {m \in Listed(theirs, table) : ~HasCosig(mine, m)}
    [] OTHER -> {n \in Listed(theirs, table) :
                   ~(ListOf(theirs, table, n) \subseteq mine[table])}

\* The next table, or the next peer: its list is asked for ...
NextList(a) ==
  /\ turn[a].left = {}
  /\ turn[a].table < Len(Tables)
  /\ LET t == turn[a].table + 1
     IN  turn' = [turn EXCEPT ![a].table = t,
                              ![a].left = Wanted(store[a], Peer(a), Tables[t])]
  /\ UNCHANGED <<store, faults>>

\* ... or the request is lost, and the table is passed over.
LoseList(a) ==
  /\ turn[a].left = {}
  /\ turn[a].table < Len(Tables)
  /\ faults < MaxFaults
  /\ faults' = faults + 1
  /\ turn' = [turn EXCEPT ![a].table = @ + 1]
  /\ UNCHANGED store

NextPeer(a) ==
  /\ turn[a].left = {}
  /\ turn[a].table = Len(Tables)
  /\ turn' = [turn EXCEPT ![a] = [Start EXCEPT !.peer =
                 IF turn[a].peer = Len(Peers[a]) THEN 1 ELSE turn[a].peer + 1]]
  /\ UNCHANGED <<store, faults>>

\* A block is fetched by its hash and checked as one posted; what the peer has
\* at that hash's address is what comes.
FetchedBlock(s, theirs, h) ==
  {IF Accepts(s, b) THEN AddBlock(s, b) ELSE s : b \in Served(theirs, h)}

\* A co-signature needs its block here.
FetchedCosig(s, theirs, m) ==
  {IF TakesCosig(s, e) THEN PutCosig(s, e) ELSE s : e \in ListOf(theirs, "cosigs", m)}

Fetched(s, theirs, table, name) ==
  CASE table = "blocks" -> FetchedBlock(s, theirs, name)
    [] table = "cosigs" -> FetchedCosig(s, theirs, name)
    [] OTHER -> {Put(s, table, ListOf(theirs, table, name))}

\* The order of a list is that of the hashes: any order.
Fetch(a) ==
  /\ \E x \in turn[a].left :
       /\ turn' = [turn EXCEPT ![a].left = @ \ {x}]
       /\ \E s \in Fetched(store[a], Peer(a), Tables[turn[a].table], x) : Keep(a, s)
  /\ UNCHANGED faults

LoseEntry(a) ==
  /\ faults < MaxFaults
  /\ faults' = faults + 1
  /\ \E x \in turn[a].left : turn' = [turn EXCEPT ![a].left = @ \ {x}]
  /\ UNCHANGED store

\* The aggregator stops and starts: the round is forgotten, the disk is not,
\* and load() reads the keys off it.
Restart(a) ==
  /\ faults < MaxFaults
  /\ faults' = faults + 1
  /\ turn' = [turn EXCEPT ![a] = Start]
  /\ UNCHANGED store

-----------------------------------------------------------------------------
Init ==
  /\ store = [a \in Aggregators |-> EmptyStorage]
  /\ turn = [a \in Aggregators |-> Start]
  /\ faults = 0

Pull(a) == Peers[a] # <<>> /\ (NextList(a) \/ Fetch(a) \/ NextPeer(a))

Post(a) ==
  PostEntry(a) \/ PostRevocation(a) \/ PostKeyPath(a) \/ PostBlock(a) \/ PostCosig(a)

Next == \E a \in Aggregators : \/ Post(a) \/ Pull(a) \/ Restart(a)
                               \/ Peers[a] # <<>> /\ (LoseList(a) \/ LoseEntry(a))

\* sync_loop goes on for as long as the server runs.
Spec == Init /\ [][Next]_vars /\ \A a \in Aggregators : WF_vars(Pull(a))

-----------------------------------------------------------------------------
(* Properties                                                              *)

\* Two blocks were made for one address, and both came here.
Forked(s) == s.hashes # s.blocks

\* No two states of the storage that the table of deals reads differently have
\* the same counts, so a table kept by its counts is current (deals_on_table,
\* aggregator.h 88-90).  Both counts only grow, so it is enough that no step
\* changes the one without the other.  It holds where no address is forked.
CountsNameTheState ==
  [][\A a \in Aggregators :
       /\ TableReads(store[a])' # TableReads(store[a]) /\ ~Forked(store[a])'
            => Stamp(store[a])' # Stamp(store[a])
       /\ \A i \in 1..2 : Stamp(store[a])[i] <= Stamp(store[a])'[i]]_vars

\* s cannot take the block any more: another one stands at its address, or a
\* revocation names a compromise before it.
OutOfReach(s, b) ==
  At(s, b) \ {b} # {} \/ (KnowsBranch(s, b.branch) /\ ~Accepts(s, b))

\* What one aggregator has, the others come to have.
Shared ==
  \A a, c \in Aggregators :
    /\ store[a].revocations = store[c].revocations
    /\ store[a].keypaths = store[c].keypaths
    /\ store[a].entries = store[c].entries
    /\ \A b \in store[a].blocks \ store[c].blocks : OutOfReach(store[c], b)
    /\ \A e \in store[a].cosigs :
         HasCosig(store[c], e.of) \/ e.of \notin store[c].blocks

\* Whatever the order in which things were posted, and whatever is lost or
\* restarted on the way: once clients stop, every block, path, revocation and
\* co-signature one aggregator took reaches all the others, but for blocks of a
\* forked address and of a revoked key; one whose path has not come waits for
\* a later round (server.cpp 2617-2620).
EverythingSpreads == <>[]Shared

\* A block the aggregator answered "accepted" to is the one it hands out under
\* its hash, to a peer or to a reader (server.h 27-28 and 40-41).
AcceptedIsServed ==
  \A a \in Aggregators : \A b \in store[a].hashes : Served(store[a], b) = {b}

=============================================================================
