---------------------------- MODULE MCBranchKeys ----------------------------
(* A branch whose key 0 was changed to 1 and on to 2, its owner not knowing  *)
(* that somebody had the key since 3; its parent named 3, then stopped it,   *)
(* and the root spoke for it too.  Keys 8 and 9 are what somebody with key 0 *)
(* made of it: a second change at the same address, and one further on.      *)
EXTENDS BranchKeys

Block(i, t, k, n) == [index |-> i, time |-> t, signer |-> k, next |-> n]
Path(k, changes)  == [node |-> k, rotations |-> changes]
Cert(d, i, s, k)  == [depth |-> d, block |-> i, since |-> s, replacement |-> k]

Change1 == Block(1, 2, 0, 1)
Change2 == Block(2, 4, 1, 2)
Forked  == Block(1, 2, 0, 9)
Astray  == Block(3, 3, 0, 8)
Replaced == Block(3, 5, 3, 4)
Plain   == Block(4, 6, 4, NoKey)

MCOwnBlocks == {Change1, Change2, Replaced, Plain}
MCBlocks    == MCOwnBlocks \cup {Forked, Astray}

MCOwnPaths == {Path(0, <<>>), Path(0, <<Change1>>)}
MCPaths    == MCOwnPaths \cup {Path(0, <<Forked>>)}

\* By the parent a replacement, then a stop that dates the theft back; by the
\* root another replacement.
MCCerts == {Cert(1, 4, 3, 3), Cert(1, 5, 2, NoKey), Cert(0, 2, 1, 5)}
=============================================================================
