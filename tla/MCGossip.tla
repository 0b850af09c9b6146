------------------------------ MODULE MCGossip ------------------------------
(***************************************************************************)
(* Branch x changes its key and is then revoked, its replacement writes at *)
(* the place the revoked key has taken; branch y merges with x.  Each      *)
(* owner posts to an aggregator of his own, the revocation anywhere.       *)
(***************************************************************************)
EXTENDS Gossip, TLC

CONSTANTS one, two, seal

Plain == [branch |-> "x", index |-> 0, time |-> 1, signer |-> "x0",
          next |-> NoKey, partner |-> NoKey]

Rotation    == [Plain EXCEPT !.next = "x1"]
ByOldKey    == [Plain EXCEPT !.index = 1, !.time = 3, !.signer = "x1"]
ByNewKey    == [Plain EXCEPT !.index = 1, !.time = 3, !.signer = "xr"]
MergeOfY    == [Plain EXCEPT !.branch = "y", !.signer = "y0", !.partner = "x"]

PathOfX     == [branch |-> "x", key |-> "x0", keys |-> {"x0"}]
PathOfY     == [branch |-> "y", key |-> "y0", keys |-> {"y0"}]
RevocationX == [branch |-> "x", since |-> 2, replacement |-> "xr"]
CosigOfX    == [of |-> MergeOfY, signer |-> "x1"]

MCAggregators == {one, two}
MCPeers == (one :> <<two>>) @@ (two :> <<one>>)

MCBlocks == {Rotation, ByOldKey, ByNewKey, MergeOfY}
MCKeyPaths == {PathOfX, PathOfY}
MCCertificates == {RevocationX}
MCCosigs == {CosigOfX}
MCEntries == {seal}

MCPosts ==
  [e \in MCBlocks \cup MCKeyPaths \cup MCCertificates \cup MCCosigs
           \cup MCEntries |->
     CASE e \in {MergeOfY, PathOfY, CosigOfX} -> {two}
       [] e = RevocationX -> {one, two}
       [] OTHER -> {one}]
=============================================================================
