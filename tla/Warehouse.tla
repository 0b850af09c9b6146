----------------------------- MODULE Warehouse -----------------------------
(***************************************************************************)
(* What one aggregator keeps on disk (AggregatorStorage): blocks by        *)
(* address and an index of their hashes, key paths, revocation             *)
(* certificates, co-signatures of merges, and entries nobody here looks    *)
(* into: seals, leaves and compositions of snapshots.  A storage is a      *)
(* record; every put is one transaction.                                   *)
(*                                                                         *)
(* A block stands for its hash, an entry for its bytes.  The keys of a     *)
(* branch are read off the storage, as load() reads them; how they are     *)
(* learnt piece by piece is BranchKeys.                                    *)
(***************************************************************************)
EXTENDS Integers, FiniteSets

NoKey == "none"

EmptyStorage ==
  [blocks |-> {}, hashes |-> {}, keypaths |-> {}, revocations |-> {},
   cosigs |-> {}, entries |-> {}]

Address(b) == <<b.branch, b.index>>

At(s, b) == {c \in s.blocks : Address(c) = Address(b)}

\* add_block: known by hash, it is a duplicate; the first block of an address
\* stays, the hash is indexed in any case.
AddBlock(s, b) ==
  [s EXCEPT !.hashes = @ \cup {b},
            !.blocks = IF b \in s.hashes \/ At(s, b) # {} THEN @ ELSE @ \cup {b}]

\* get_block_by_hash: the block at the address the hash is indexed under.
Served(s, b) == IF b \in s.hashes THEN At(s, b) ELSE {}

\* put_seal_bytes, put_revocation_bytes, put_keypath_bytes, put_snapshot_*: what
\* is there already stays.
Put(s, table, es) == [s EXCEPT ![table] = @ \cup es]

\* The name a table lists an entry under: a signing key for a path, a chain
\* for a revocation, a block for a co-signature.
NameOf(table, e) ==
  CASE table = "keypaths" -> e.key
    [] table = "revocations" -> e.branch
    [] table = "cosigs" -> e.of
    [] OTHER -> e

\* all_keypath_keys, all_revoked_chains, all_sealed_block_hashes.
Listed(s, table) == {NameOf(table, e) : e \in s[table]}

\* get_keypath_bytes, get_revocation_bytes, get_seal_bytes: a name's whole list.
ListOf(s, table, name) == {e \in s[table] : NameOf(table, e) = name}

HasCosig(s, m) == \E e \in s.cosigs : e.of = m

\* put_cosig: one per block, the first stays.
PutCosig(s, e) == IF HasCosig(s, e.of) THEN s ELSE Put(s, "cosigs", {e})

-----------------------------------------------------------------------------
(* The keys of a branch                                                    *)

OwnKeys(s, br) ==
  UNION {p.keys : p \in {q \in s.keypaths : q.branch = br}}
    \cup {b.next : b \in {c \in s.hashes : c.branch = br /\ c.next # NoKey}}

Revocations(s, br) == {c \in s.revocations : c.branch = br}

Replacements(s, br) == {c.replacement : c \in Revocations(s, br)} \ {NoKey}

\* keys_for: after the compromise only the replacement signs.
KeysFor(s, br, at) ==
  Replacements(s, br)
    \cup IF \E c \in Revocations(s, br) : at > c.since THEN {} ELSE OwnKeys(s, br)

\* check() answers signed_by_branch.
Accepts(s, b) == b.signer \in KeysFor(s, b.branch, b.time)

\* Somebody may sign for the branch: not answered 428.
KnowsBranch(s, br) ==
  (\E p \in s.keypaths : p.branch = br) \/ Revocations(s, br) # {}

\* vouches: any key the branch ever signed with.
Vouches(s, br, key) == key \in OwnKeys(s, br) \cup Replacements(s, br)

\* A co-signature is taken for a merge block kept here, by a key of the branch
\* its payload names.
TakesCosig(s, e) ==
  \E m \in Served(s, e.of) : m.partner # NoKey /\ Vouches(s, m.partner, e.signer)

-----------------------------------------------------------------------------
(* What the table of deals reads, and how it tells one state from another  *)

\* compute_deals walks all_block_hashes, reads each through seen_block, and
\* asks for the co-signature of each merge.
TableReads(s) ==
  [entries |-> {<<h, Served(s, h)>> : h \in s.hashes},
   cosigned |-> {e.of : e \in s.cosigs}]

\* Mutant: only the blocks are counted.
StampBlocksOnly(s) == <<Cardinality(s.blocks), 0>>

\* deals_on_table keeps what it computed while block_count and cosig_count
\* stay the same.
Stamp(s) == <<Cardinality(s.blocks), Cardinality({e.of : e \in s.cosigs})>>

=============================================================================
