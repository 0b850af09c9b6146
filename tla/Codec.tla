------------------------------- MODULE Codec -------------------------------
(***************************************************************************)
(* A record, or a piece of a chain, on its way from one participant to     *)
(* another: checked and written, perhaps spelt in another way by other     *)
(* software, read and checked again.  Codec::encode and Codec::decode, and *)
(* the same of the blockchain's Serializer.                                *)
(*                                                                         *)
(* Samples are the values written; Spelt are the types other software's    *)
(* spellings of which are tried.                                           *)
(***************************************************************************)
EXTENDS DealRecords, BlockForms, FiniteSets

CONSTANTS Samples, Spelt

VARIABLES
  stage,   \* "new", "refused", "written", "spelt" or "read"
  rec,     \* what its author means
  wire,    \* what travels
  own,     \* whether it is this code that wrote it
  got      \* what was read: at most one value

vars == <<stage, rec, wire, own, got>>

-----------------------------------------------------------------------------
(* Every type with its writer and its reader.                              *)

Encoders ==
  [FraudClaim |-> FraudClaimW, Concept |-> ConceptW, ConceptLink |-> ConceptLinkW,
   Composite |-> CompositeW, Copy |-> CopyW, Reaction |-> ReactionW, Attest |-> AttestW,
   Consent |-> ConsentW, WorkRecord |-> WorkRecordW, Release |-> ReleaseW, WriteOff |-> WriteOffW,
   Material |-> MaterialW, Tool |-> ToolW, Transfer |-> TransferW, Pledge |-> PledgeW,
   PledgeRevoke |-> PledgeRevokeW, DailyAggregate |-> DailyAggregateW, Redemption |-> RedemptionW,
   WorkCloud |-> WorkCloudW, AxisDef |-> AxisDefW, DealReply |-> DealReplyW]

Decoders ==
  [FraudClaim |-> FraudClaimR, Concept |-> ConceptR, ConceptLink |-> ConceptLinkR,
   Composite |-> CompositeR, Copy |-> CopyR, Reaction |-> ReactionR, Attest |-> AttestR,
   Consent |-> ConsentR, WorkRecord |-> WorkRecordR, Release |-> ReleaseR, WriteOff |-> WriteOffR,
   Material |-> MaterialR, Tool |-> ToolR, Transfer |-> TransferR, Pledge |-> PledgeR,
   PledgeRevoke |-> PledgeRevokeR, DailyAggregate |-> DailyAggregateR, Redemption |-> RedemptionR,
   WorkCloud |-> WorkCloudR, AxisDef |-> AxisDefR, DealReply |-> DealReplyR]

Serializers ==
  [Block |-> <<BlockW, BlockR>>, Seal |-> <<SealW, SealR>>, MergePayload |-> <<MergePayloadW, MergePayloadR>>,
   RevocationPayload |-> <<RevocationW, RevocationR>>,
   RevocationCertificate |-> <<CertificateW, CertificateR>>, KeyPath |-> <<KeyPathW, KeyPathR>>,
   FraudProof |-> <<FraudProofW, FraudProofR>>, Snapshot |-> <<SnapshotW, SnapshotR>>,
   Tip |-> <<TipW, TipR>>]

Writer(type) == IF type \in DOMAIN Encoders THEN Encoders[type] ELSE Serializers[type][1]
Reader(type) == IF type \in DOMAIN Decoders THEN Decoders[type] ELSE Serializers[type][2]

-----------------------------------------------------------------------------
(* What a writer refuses, and what a reader does once the fields are read. *)

LotLinksOf(r) ==
  CASE r.type \in {"Release", "Material", "Tool"} -> r.lot
    [] r.type = "WriteOff" -> {r.lot}
    [] r.type = "WorkRecord" -> {r.spends[i].lot : i \in DOMAIN r.spends}
    [] OTHER -> {}

WriterTakes(r) ==
  /\ \A l \in LotLinksOf(r) : CheckLotLink(l)
  /\ CASE r.type = "Attest" -> CheckAttest(r)
       [] r.type = "Consent" -> CheckConsent(r)
       [] r.type = "WorkRecord" -> CheckWorkRecord(r)
       [] r.type = "Release" -> CheckRelease(r)
       [] r.type = "Material" -> CheckMaterial(r)
       [] r.type = "Tool" -> CheckTool(r)
       [] r.type = "Transfer" -> CheckTransfer(r)
       [] r.type = "DealReply" -> CheckDealReply(r)
       [] OTHER -> TRUE

\* Mutant: works are taken in unchecked.
TakesAnyWork(r) ==
  /\ \A l \in LotLinksOf(r) : CheckLotLink(l)
  /\ CASE r.type = "Attest" -> CheckAttest(r)
       [] r.type = "Consent" -> CheckConsent(r)
       [] r.type = "Release" -> CheckRelease(r)
       [] r.type = "Material" -> CheckMaterial(r)
       [] r.type = "Tool" -> CheckTool(r)
       [] r.type = "Transfer" -> LinkWhole(r) /\ CheckTransfer(r)
       [] r.type = "DealReply" -> CheckDealReply(r)
       [] OTHER -> TRUE

ReaderTakes(r) ==
  /\ \A l \in LotLinksOf(r) : CheckLotLink(l)
  /\ CASE r.type = "Attest" -> CheckAttest(r)
       [] r.type = "Consent" -> CheckConsent(r)
       [] r.type = "WorkRecord" -> CheckWorkRecord(r)
       [] r.type = "Release" -> CheckRelease(r)
       [] r.type = "Material" -> CheckMaterial(r)
       [] r.type = "Tool" -> CheckTool(r)
       [] r.type = "Transfer" -> LinkWhole(r) /\ CheckTransfer(r)
       [] r.type = "DealReply" -> CheckDealReply(r)
       [] OTHER -> TRUE

Decoded(type, item) == {r \in Read(Reader(type), item) : ReaderTakes(r)}

-----------------------------------------------------------------------------
(* Other software's spellings: one map of the item has two neighbouring    *)
(* fields swapped, one left out, one twice, or an unexpected key; a list   *)
(* is emptied; a number is past its width; the announced number is wrong.  *)

Child(i, j) == IF i.m = "map" THEN i.v[j][2] ELSE i.v[j]

RECURSIVE Places(_)
Places(i) ==
  {<<>>} \cup (IF i.m \in {"map", "array"}
               THEN UNION {{<<j>> \o p : p \in Places(Child(i, j))} : j \in DOMAIN i.v}
               ELSE {})

RECURSIVE Found(_, _)
Found(i, p) == IF p = <<>> THEN i ELSE Found(Child(i, Head(p)), Tail(p))

Changes(i) ==
  CASE i.m = "map" -> ({"without", "last", "twice"} \X DOMAIN i.v)
                      \cup ({"swapped"} \X (1 .. Len(i.v) - 1)) \cup ({"foreign"} \X (0 .. 14))
    [] i.m = "array" -> {<<"empty", 0>>}
    [] i.m = "uint" -> {"number"} \X {0, 2, i.v + Word - 1, i.v + Word}
    [] OTHER -> {}

Changed(i, c) ==
  LET j == c[2]
      s == CASE c[1] = "without" -> RemoveAt(i.v, j)
             [] c[1] = "last" -> Append(i.v, i.v[j])
             [] c[1] = "twice" -> InsertAt(i.v, j, i.v[j])
             [] c[1] = "swapped" -> InsertAt(RemoveAt(i.v, j), j + 1, i.v[j])
             [] c[1] = "foreign" -> Append(i.v, <<j, Item("uint", 1)>>)
  IN CASE c[1] = "empty" -> Item("array", <<>>)
       [] c[1] = "number" -> Item("uint", j)
       [] OTHER -> MapItem(s)

RECURSIVE ChangedAt(_, _, _)
ChangedAt(i, p, c) ==
  IF p = <<>> THEN Changed(i, c)
  ELSE LET x == ChangedAt(Child(i, Head(p)), Tail(p), c)
       IN IF i.m = "map" THEN [i EXCEPT !.v[Head(p)][2] = x] ELSE [i EXCEPT !.v[Head(p)] = x]

-----------------------------------------------------------------------------
Init ==
  /\ stage = "new" /\ rec \in Samples
  /\ wire = Item("null", 0) /\ own = TRUE /\ got = {}

(* encode throws, or gives the bytes.                                      *)
Refuse ==
  /\ stage = "new" /\ ~WriterTakes(rec)
  /\ stage' = "refused"
  /\ UNCHANGED <<rec, wire, own, got>>

Encode ==
  /\ stage = "new" /\ WriterTakes(rec)
  /\ stage' = "written"
  /\ wire' = Write(Writer(rec.type), rec)
  /\ UNCHANGED <<rec, own, got>>

SpellOtherwise ==
  /\ stage = "written" /\ rec \in Spelt
  /\ \/ \E p \in Places(wire) : \E c \in Changes(Found(wire, p)) : wire' = ChangedAt(wire, p, c)
     \/ \E n \in {0, wire.n - 1, wire.n + 1} : wire' = [wire EXCEPT !.n = n]
  /\ stage' = "spelt" /\ own' = FALSE
  /\ UNCHANGED <<rec, got>>

Decode ==
  /\ stage \in {"written", "spelt"}
  /\ stage' = "read"
  /\ got' = Decoded(rec.type, wire)
  /\ UNCHANGED <<rec, wire, own>>

Next == Refuse \/ Encode \/ SpellOtherwise \/ Decode

Spec == Init /\ [][Next]_vars

-----------------------------------------------------------------------------
(* Properties.                                                             *)

(* What this code writes and cannot read: a means of production bought     *)
(* together with the link of the purchase it takes, and a work that says   *)
(* more than five of the seven things a work may say.                      *)
ToolWithLot(r) == r.type = "Tool" /\ r.lot # {}
FullWork(r) ==
  r.type = "WorkRecord" /\ Cardinality({n \in {"carry", "axes", "spends"} : r[n] # <<>>})
                           + Cardinality({n \in {"customer", "thread", "improves"} : r[n] # {}})
                           + (IF r.title # "" THEN 1 ELSE 0) > 5

\* a block travels without the partner's co-signature
AsSent(r) == IF r.type = "Block" THEN [r EXCEPT !.co_signature = 0] ELSE r

Lost(r) == ToolWithLot(r) \/ FullWork(r)

(* Whatever the writer takes is read back as it was meant, by everybody    *)
(* who fetches the block: encode and decode agree on the keys, the order,  *)
(* the width and the presence of every member.  The two kinds of records   *)
(* above are refused by every reader, the one who wrote them included; a   *)
(* block once appended cannot be taken back, so they are lost.             *)
ReadBack == stage = "read" /\ own => got = IF Lost(rec) THEN {} ELSE {AsSent(rec)}

(* The reader does not let in what the writer would refuse: a record that  *)
(* breaks the rules can be neither signed with this codec nor taken in     *)
(* from anyone else's.                                                     *)
ReadIsWritable == \A r \in got : WriterTakes(r)

RECURSIVE Layout(_)
Layout(i) ==
  CASE i.m = "map" -> [m |-> "map", v |-> [j \in 1 .. i.n |-> <<i.v[j][1], Layout(i.v[j][2])>>]]
    [] i.m = "array" -> [m |-> "array", v |-> [j \in DOMAIN i.v |-> Layout(i.v[j])]]
    [] OTHER -> [m |-> i.m, v |-> <<>>]

\* the readers that do not count their fields, and the two that count loosely
Loose(type) == ~Reader(type).counted \/ type \in {"AxisDef", "KeyPath"}

(* One record, one layout: what a counting reader accepts has exactly the  *)
(* fields, in exactly the order, that the writer would give it, whoever    *)
(* wrote it.  (What follows the announced fields is never looked at.)      *)
OneLayout ==
  stage = "read" /\ ~Loose(rec.type)
    => \A r \in got : Layout(wire) = Layout(Write(Writer(r.type), r))

=============================================================================
