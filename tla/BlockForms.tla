----------------------------- MODULE BlockForms -----------------------------
(***************************************************************************)
(* Nodes, blocks, certificates and proofs as the blockchain's serializer   *)
(* writes (...W) and reads (...R) them.  Their readers want the exact      *)
(* number of fields; node and block indices and the enumerations are cut   *)
(* to their width without a word.  The top-level forms carry no type of    *)
(* their own; `type` says here which function is called for them.          *)
(***************************************************************************)
EXTENDS Wire

BlockAddress == [user_id |-> 0, node_index |-> 0, block_index |-> 0]
AddressW == Writes(<<F(0, "user_id", Fixed), F(1, "node_index", UInt), F(2, "block_index", UInt)>>)
AddressR == Exactly(BlockAddress,
                    <<F(0, "user_id", Fixed), F(1, "node_index", Cut), F(2, "block_index", Cut)>>)

ExternalRef == [address |-> BlockAddress, block_hash |-> 0]
ExtRefW == Writes(<<F(0, "address", AddressW), F(1, "block_hash", Fixed)>>)
ExtRefR == Exactly(ExternalRef, <<F(0, "address", AddressR), F(1, "block_hash", Fixed)>>)

Node == [index |-> 0, structural |-> 0, working |-> 0, parent_hash |-> 0, parent_sig |-> 0,
         created_at |-> 0]
NodeW == Writes(<<F(0, "index", UInt), F(1, "structural", Fixed), F(2, "working", Fixed),
                  F(3, "parent_hash", Fixed), F(4, "parent_sig", Fixed), F(5, "created_at", SInt)>>)
NodeR == Exactly(Node, <<F(0, "index", Cut), F(1, "structural", Fixed), F(2, "working", Fixed),
                         F(3, "parent_hash", Fixed), F(4, "parent_sig", Fixed),
                         F(5, "created_at", SInt)>>)

\* the co-signature of a merge is a member, and is neither written nor hashed
Block == [type |-> "Block", address |-> BlockAddress, prev_hash |-> 0, timestamp |-> 0, kind |-> 0,
          payload |-> "", refs |-> <<>>, signature |-> 0, co_signature |-> 0]
BlockW == Writes(<<F(0, "address", AddressW), F(1, "prev_hash", Fixed), F(2, "timestamp", SInt),
                   F(3, "kind", UInt), F(4, "payload", Fixed), F(5, "refs", List(ExtRefW)),
                   F(6, "signature", Fixed)>>)
BlockR == Exactly(Block, <<F(0, "address", AddressR), F(1, "prev_hash", Fixed),
                           F(2, "timestamp", SInt), F(3, "kind", CutOctet),
                           F(4, "payload", Fixed), F(5, "refs", List(ExtRefR)),
                           F(6, "signature", Fixed)>>)

Seal == [type |-> "Seal", signer_id |-> 0, block_hash |-> 0, signature |-> 0, mode |-> 0,
         sealed_at |-> 0]
SealW == Writes(<<F(0, "signer_id", Fixed), F(1, "block_hash", Fixed), F(2, "signature", Fixed),
                  F(3, "mode", UInt), F(4, "sealed_at", SInt)>>)
SealR == Exactly(Seal, <<F(0, "signer_id", Fixed), F(1, "block_hash", Fixed),
                         F(2, "signature", Fixed), F(3, "mode", CutOctet), F(4, "sealed_at", SInt)>>)

MergePayload == [type |-> "MergePayload", partner_last_address |-> BlockAddress,
                 partner_last_hash |-> 0, merge_timestamp |-> 0, merkle_root |-> 0, hll_hash |-> 0,
                 validated_depth |-> 0]
MergePayloadW == Writes(<<F(0, "partner_last_address", AddressW), F(1, "partner_last_hash", Fixed),
                          F(2, "merge_timestamp", SInt), F(3, "merkle_root", Fixed),
                          F(4, "hll_hash", Fixed), F(5, "validated_depth", UInt)>>)
MergePayloadR == Exactly(MergePayload,
                         <<F(0, "partner_last_address", AddressR), F(1, "partner_last_hash", Fixed),
                           F(2, "merge_timestamp", SInt), F(3, "merkle_root", Fixed),
                           F(4, "hll_hash", Fixed), F(5, "validated_depth", Cut)>>)

RevocationPayload == [type |-> "RevocationPayload", node |-> 0, revoked |-> 0, since |-> 0,
                      replacement |-> {}]
RevocationW == Writes(<<F(0, "node", UInt), F(1, "revoked", Fixed), F(2, "since", SInt),
                        F(3, "replacement", Opt(Fixed))>>)
RevocationR == Reads(RevocationPayload,
                     <<F(0, "node", Cut), F(1, "revoked", Fixed), F(2, "since", SInt)>>,
                     <<F(3, "replacement", Opt(Fixed))>>, 3, 4, 2)

RevocationCertificate == [type |-> "RevocationCertificate", block |-> Block, path |-> <<>>]
CertificateW == Writes(<<F(0, "block", BlockW), F(1, "path", List(NodeW))>>)
CertificateR == Exactly(RevocationCertificate,
                        <<F(0, "block", BlockR), F(1, "path", List(NodeR))>>)

KeyPath == [type |-> "KeyPath", path |-> <<>>, rotations |-> <<>>]
KeyPathW == Writes(<<F(0, "path", List(NodeW)), F(1, "rotations", Some(BlockW))>>)
\* the changes may be there and empty
KeyPathR == Reads(KeyPath, <<F(0, "path", List(NodeR))>>, <<F(1, "rotations", List(BlockR))>>,
                  1, 2, 0)

MerkleProof == [path |-> <<>>, right |-> <<>>]
MerkleProofW == Writes(<<F(0, "path", List(Fixed)), F(1, "right", List(Bool))>>)
MerkleProofR == Exactly(MerkleProof, <<F(0, "path", List(Fixed)), F(1, "right", List(Bool))>>)

FraudProof == [type |-> "FraudProof", leaf |-> ExternalRef, merkle_path |-> MerkleProof,
               node_path |-> <<>>, evidence |-> Block]
FraudProofW == Writes(<<F(0, "leaf", ExtRefW), F(1, "merkle_path", MerkleProofW),
                        F(2, "node_path", List(NodeW)), F(3, "evidence", BlockW)>>)
FraudProofR == Exactly(FraudProof,
                       <<F(0, "leaf", ExtRefR), F(1, "merkle_path", MerkleProofR),
                         F(2, "node_path", List(NodeR)), F(3, "evidence", BlockR)>>)

Snapshot == [type |-> "Snapshot", merkle_root |-> 0, hll |-> 0]
SnapshotW == Writes(<<F(0, "merkle_root", Fixed), F(1, "hll", Fixed)>>)
SnapshotR == Exactly(Snapshot, <<F(0, "merkle_root", Fixed), F(1, "hll", Fixed)>>)

\* the tip's block travels as bytes, none of them when there is no block
Tip == [type |-> "Tip", tip_address |-> BlockAddress, tip_hash |-> 0, path |-> <<>>,
        tip_block |-> {}]
TipW == Writes(<<F(0, "tip_address", AddressW), F(1, "tip_hash", Fixed), F(2, "path", List(NodeW)),
                 F(3, "tip_block", OrNull(BlockW))>>)
TipR == Exactly(Tip, <<F(0, "tip_address", AddressR), F(1, "tip_hash", Fixed),
                       F(2, "path", List(NodeR)), F(3, "tip_block", OrNull(BlockR))>>)

=============================================================================
