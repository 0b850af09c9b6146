------------------------------ MODULE Records ------------------------------
(***************************************************************************)
(* The records a participant writes into blocks: each struct with nothing  *)
(* in it, its layout as the codec writes it (...W) and as the codec reads  *)
(* it (...R), and what it must be to exist.                                *)
(*                                                                         *)
(* Chains and hashes are numbers, 0 the all-zero one; hours, quantities    *)
(* and times are small integers, of which a number that is not finite is   *)
(* one below zero; shares are counted in parts of Whole.                   *)
(***************************************************************************)
EXTENDS Wire

CONSTANT Whole       \* the parts that make a whole

ASSUME WholeAssumption == Whole \in Nat \ {0}

SumOf(s) == FoldLeft(LAMBDA a, x : a + x, 0, s)
NoTwice(s) == \A i, j \in DOMAIN s : s[i] = s[j] => i = j
RefBelow(r, q) == r.chain < q.chain \/ (r.chain = q.chain /\ r.hash < q.hash)
Ascending(refs) == \A i \in 2 .. Len(refs) : RefBelow(refs[i - 1], refs[i])
IsWhole(shares) == (\A i \in DOMAIN shares : shares[i] > 0) /\ SumOf(shares) = Whole

-----------------------------------------------------------------------------
(* Parts of records.                                                       *)

Ref == [chain |-> 0, hash |-> 0]
RefW == Writes(<<F(0, "chain", Fixed), F(1, "hash", Fixed)>>)
RefR == Exactly(Ref, <<F(0, "chain", Fixed), F(1, "hash", Fixed)>>)

BlockPath == [chain |-> 0, node |-> 0, block |-> 0, hash |-> 0]
PathW == Writes(<<F(0, "chain", Fixed), F(1, "node", UInt), F(2, "block", UInt),
                  F(3, "hash", Fixed)>>)
PathR == Exactly(BlockPath, <<F(0, "chain", Fixed), F(1, "node", Index), F(2, "block", Index),
                              F(3, "hash", Fixed)>>)

ResourceQty == [resource |-> "", qty |-> 0, unit |-> "", share |-> {}, price |-> {},
                units |-> <<>>, life |-> {}]
QtyW == Writes(<<F(0, "resource", Text), F(1, "qty", Num), F(2, "unit", Text),
                 F(3, "share", Opt(Num)), F(5, "price", Opt(Num)), F(6, "units", Some(Text)),
                 F(7, "life", Opt(Num))>>)
\* Mutant: an output with everything a lot may say is one field too many.
QtyShort ==
  Reads(ResourceQty,
        <<F(0, "resource", Text), F(1, "qty", Num), F(2, "unit", Text)>>,
        <<F(3, "share", Opt(Num)), F(5, "price", Opt(Num)), F(6, "units", Some(Text)),
          F(7, "life", Opt(Num))>>, 3, 4, 2)

QtyR == Reads(ResourceQty,
              <<F(0, "resource", Text), F(1, "qty", Num), F(2, "unit", Text)>>,
              <<F(3, "share", Opt(Num)), F(5, "price", Opt(Num)), F(6, "units", Some(Text)),
                F(7, "life", Opt(Num))>>, 3, 7, 2)

CarryEntry == [src |-> Ref, used |-> 0, carried |-> 0, seq |-> 0, prev |-> {}, after |-> 0]
CarryW == Writes(<<F(0, "src", RefW), F(1, "used", Num), F(2, "carried", Num), F(3, "seq", UInt),
                   F(4, "prev", OrNull(RefW)), F(5, "after", Num)>>)
CarryR == Exactly(CarryEntry,
                  <<F(0, "src", RefR), F(1, "used", Num), F(2, "carried", Num), F(3, "seq", UInt),
                    F(4, "prev", OrNull(RefR)), F(5, "after", Num)>>)

LotLink == [out |-> 0, qty |-> 0, seq |-> 0, prev |-> {}, after |-> 0, returns |-> <<>>,
            units |-> <<>>]
LotW == Writes(<<F(0, "out", UInt), F(1, "qty", Num), F(2, "seq", UInt), F(3, "prev", OrNull(RefW)),
                 F(4, "after", Num), F(5, "returns", Some(RefW)), F(6, "units", Some(Text))>>)
\* Mutant: the reader of a lot link lets in lists that are there and empty.
LotEmpty ==
  Reads(LotLink,
        <<F(0, "out", Index), F(1, "qty", Num), F(2, "seq", UInt), F(3, "prev", OrNull(RefR)),
          F(4, "after", Num)>>,
        <<F(5, "returns", List(RefR)), F(6, "units", List(Text))>>, 5, 7, 4)

LotR == Reads(LotLink,
              <<F(0, "out", Index), F(1, "qty", Num), F(2, "seq", UInt), F(3, "prev", OrNull(RefR)),
                F(4, "after", Num)>>,
              <<F(5, "returns", Some(RefR)), F(6, "units", Some(Text))>>, 5, 7, 4)

CheckLotLink(l) ==
  /\ l.qty > 0 /\ l.after >= 0
  /\ (l.seq = 0) = (l.prev = {})
  /\ l.seq = 0 => l.returns = <<>>
  /\ Ascending(l.returns)
  /\ l.units # <<>> => /\ l.qty = Len(l.units)
                        /\ \A i \in 2 .. Len(l.units) : l.units[i - 1] < l.units[i]

-----------------------------------------------------------------------------
(* Knowledge, attestation and consent.                                     *)

FraudClaim == [type |-> "FraudClaim", target |-> Ref, kind |-> "", proof |-> "", reason |-> ""]
FraudClaimW == Writes(<<F(0, "type", Type), F(1, "target", RefW), F(2, "kind", Text),
                        F(3, "proof", Fixed), F(4, "reason", Text)>>)
FraudClaimR == Uncounted(FraudClaim,
                         <<F(0, "type", Type), F(1, "target", RefR), F(2, "kind", Text),
                           F(3, "proof", Fixed), F(4, "reason", Text)>>)

Concept == [type |-> "Concept", text |-> "", tags |-> <<>>]
ConceptW == Writes(<<F(0, "type", Type), F(1, "text", Text), F(2, "tags", List(Text))>>)
ConceptR == Uncounted(Concept, <<F(0, "type", Type), F(1, "text", Text), F(2, "tags", List(Text))>>)

ConceptLink == [type |-> "ConceptLink", from |-> Ref, to |-> Ref, kind |-> ""]
ConceptLinkW == Writes(<<F(0, "type", Type), F(1, "from", RefW), F(2, "to", RefW),
                         F(3, "kind", Text)>>)
ConceptLinkR == Uncounted(ConceptLink, <<F(0, "type", Type), F(1, "from", RefR), F(2, "to", RefR),
                                         F(3, "kind", Text)>>)

Composite == [type |-> "Composite", title |-> "", parts |-> <<>>]
CompositeW == Writes(<<F(0, "type", Type), F(1, "title", Text), F(2, "parts", List(RefW))>>)
CompositeR == Uncounted(Composite,
                        <<F(0, "type", Type), F(1, "title", Text), F(2, "parts", List(RefR))>>)

Copy == [type |-> "Copy", source |-> Ref]
CopyW == Writes(<<F(0, "type", Type), F(1, "source", RefW)>>)
CopyR == Uncounted(Copy, <<F(0, "type", Type), F(1, "source", RefR)>>)

Reaction == [type |-> "Reaction", target |-> Ref, value |-> 0]
ReactionW == Writes(<<F(0, "type", Type), F(1, "target", RefW), F(2, "value", SInt)>>)
ReactionR == Uncounted(Reaction, <<F(0, "type", Type), F(1, "target", RefR), F(2, "value", Int8)>>)

Attest == [type |-> "Attest", target |-> Ref, mode |-> "", note |-> ""]
AttestW == Writes(<<F(0, "type", Type), F(1, "target", RefW), F(2, "mode", Text),
                    F(3, "note", Text)>>)
AttestR == Uncounted(Attest, <<F(0, "type", Type), F(1, "target", RefR), F(2, "mode", Text),
                               F(3, "note", Text)>>)

CheckAttest(a) == a.mode \in {"blind", "open"} /\ a.target.chain # 0 /\ a.target.hash # 0

Consent == [type |-> "Consent", target |-> Ref, agreed |-> TRUE, note |-> ""]
ConsentW == Writes(<<F(0, "type", Type), F(1, "target", RefW), F(2, "agreed", Bool),
                     F(3, "note", Text)>>)
ConsentR == Uncounted(Consent, <<F(0, "type", Type), F(1, "target", RefR), F(2, "agreed", Bool),
                                 F(3, "note", Text)>>)

CheckConsent(c) == c.target.chain # 0 /\ c.target.hash # 0

-----------------------------------------------------------------------------
(* Labour.                                                                 *)

ThreadLink == [seq |-> 0, prev |-> <<>>]
AxisShare == [axis |-> BlockPath, share |-> 0]
SpendLink == [work |-> Ref, lot |-> LotLink]

ThreadW == Writes(<<F(0, "seq", UInt), F(1, "prev", List(RefW))>>)
ThreadR == Exactly(ThreadLink, <<F(0, "seq", UInt), F(1, "prev", List(RefR))>>)
ShareW == Writes(<<F(0, "axis", PathW), F(1, "share", Num)>>)
ShareR == Exactly(AxisShare, <<F(0, "axis", PathR), F(1, "share", Num)>>)
SpendW == Writes(<<F(0, "work", RefW), F(1, "lot", LotW)>>)
SpendR == Exactly(SpendLink, <<F(0, "work", RefR), F(1, "lot", LotR)>>)

WorkRecord == [type |-> "WorkRecord", action |-> "", start_ts |-> 0, hours |-> 0, inputs |-> <<>>,
               outputs |-> <<>>, carry |-> <<>>, title |-> "", customer |-> {}, thread |-> {},
               axes |-> <<>>, improves |-> {}, spends |-> <<>>]
WorkRecordW == Writes(
  <<F(0, "type", Type), F(2, "action", Text), F(3, "start_ts", SInt), F(4, "hours", Num),
    F(5, "inputs", List(QtyW)), F(6, "outputs", List(QtyW)), F(7, "carry", Some(CarryW)),
    F(8, "title", Title), F(9, "customer", Opt(Fixed)), F(10, "thread", Opt(ThreadW)),
    F(11, "axes", Some(ShareW)), F(12, "improves", Opt(RefW)), F(13, "spends", Some(SpendW))>>)
WorkRecordR == Reads(WorkRecord,
  <<F(0, "type", Type), F(2, "action", Text), F(3, "start_ts", SInt), F(4, "hours", Num),
    F(5, "inputs", List(QtyR)), F(6, "outputs", List(QtyR))>>,
  <<F(7, "carry", Some(CarryR)), F(8, "title", Title), F(9, "customer", Opt(Fixed)),
    F(10, "thread", Opt(ThreadR)), F(13, "spends", Some(SpendR)), F(12, "improves", Opt(RefR)),
    F(11, "axes", Some(ShareR))>>, 6, 11, 6)

CheckWorkRecord(w) ==
  LET outs == w.outputs
      shared == SelectSeq(outs, LAMBDA o : o.share # {})
  IN /\ \A t \in w.thread : (t.seq = 0) = (t.prev = <<>>) /\ Ascending(t.prev)
     /\ w.axes # <<>> => /\ NoTwice([i \in DOMAIN w.axes |-> w.axes[i].axis])
                         /\ IsWhole([i \in DOMAIN w.axes |-> w.axes[i].share])
     /\ \A i \in DOMAIN w.inputs : LET q == w.inputs[i]
                                   IN q.share = {} /\ q.price = {} /\ q.units = <<>> /\ q.life = {}
     /\ \A i \in DOMAIN outs : /\ \A p \in outs[i].price \cup outs[i].life : p > 0
                               /\ outs[i].units # <<>> => /\ outs[i].qty = Len(outs[i].units)
                                                          /\ NoTwice(outs[i].units)
     /\ shared # <<>> => /\ Len(shared) = Len(outs)
                         /\ IsWhole([i \in DOMAIN outs |-> The(outs[i].share)])
     /\ w.improves # {} => outs = <<>>

-----------------------------------------------------------------------------
(* Releases and write-offs.                                                *)

Addressed == [to |-> 0, until |-> 0, wear |-> FALSE]
AddressedW == Writes(<<F(0, "to", Fixed), F(1, "until", SInt), F(2, "wear", Flag)>>)
AddressedR == Reads(Addressed, <<F(0, "to", Fixed), F(1, "until", SInt)>>,
                    <<F(2, "wear", Flag)>>, 2, 3, 1)

Release == [type |-> "Release", work |-> Ref, to |-> 0, expires |-> 0, timestamp |-> 0, lot |-> {},
            holding |-> {}, addressed |-> {}]
ReleaseW == Writes(
  <<F(0, "type", Type), F(1, "work", RefW), F(2, "to", Fixed), F(3, "expires", SInt),
    F(4, "timestamp", SInt), F(5, "lot", Opt(LotW)), F(6, "holding", Opt(RefW)),
    F(7, "addressed", Opt(AddressedW))>>)
ReleaseR == Reads(Release,
  <<F(0, "type", Type), F(1, "work", RefR), F(2, "to", Fixed), F(3, "expires", SInt),
    F(4, "timestamp", SInt)>>,
  <<F(5, "lot", Opt(LotR)), F(6, "holding", Opt(RefR)), F(7, "addressed", Opt(AddressedR))>>,
  5, 8, 4)

CheckRelease(r) ==
  LET seller == IF r.holding # {} THEN The(r.holding).chain ELSE r.work.chain
  IN /\ r.expires > r.timestamp
     /\ r.to # seller
     /\ r.holding # {} => r.lot # {}
     /\ \A a \in r.addressed : a.until > r.timestamp /\ (a.wear => a.to = seller)

WriteOff == [type |-> "WriteOff", work |-> Ref, lot |-> LotLink, reason |-> "", timestamp |-> 0,
             holding |-> {}]
WriteOffW == Writes(
  <<F(0, "type", Type), F(1, "work", RefW), F(2, "lot", LotW), F(3, "reason", Text),
    F(4, "timestamp", SInt), F(5, "holding", Opt(RefW))>>)
WriteOffR == Reads(WriteOff,
  <<F(0, "type", Type), F(1, "work", RefR), F(2, "lot", LotR), F(3, "reason", Text),
    F(4, "timestamp", SInt)>>, <<F(5, "holding", Opt(RefR))>>, 5, 6, 4)

-----------------------------------------------------------------------------
(* Means of production.                                                    *)

CheckPaidSource(m) ==
  /\ m.basis \in {"paid", "est"}
  /\ (m.basis = "paid") = (m.src # {})
  /\ m.lot # {} => m.src # {}

Material == [type |-> "Material", name |-> "", unit |-> "", desc |-> "", cost |-> 0, qty |-> 0,
             basis |-> "", src |-> {}, origin |-> {}, note |-> "", lot |-> {}, days |-> {}]
MaterialW == Writes(
  <<F(0, "type", Type), F(1, "name", Text), F(2, "unit", Text), F(3, "desc", Text),
    F(4, "cost", Num), F(5, "qty", Num), F(6, "basis", Text), F(7, "src", OrNull(RefW)),
    F(8, "origin", OrNull(RefW)), F(9, "note", Text), F(10, "lot", Opt(LotW)),
    F(11, "days", Opt(UInt))>>)
MaterialR == Reads(Material,
  <<F(0, "type", Type), F(1, "name", Text), F(2, "unit", Text), F(3, "desc", Text),
    F(4, "cost", Num), F(5, "qty", Num), F(6, "basis", Text), F(7, "src", OrNull(RefR)),
    F(8, "origin", OrNull(RefR)), F(9, "note", Text)>>,
  <<F(10, "lot", Opt(LotR)), F(11, "days", Opt(Cut))>>, 10, 12, 9)

CheckMaterial(m) == CheckPaidSource(m) /\ 0 \notin m.days

Tool == [type |-> "Tool", name |-> "", desc |-> "", serial |-> "", cost |-> 0, life |-> 0,
         basis |-> "", src |-> {}, origin |-> {}, note |-> "", lot |-> {}, repair |-> {},
         days |-> {}]
ToolW == Writes(
  <<F(0, "type", Type), F(1, "name", Text), F(2, "desc", Text), F(3, "serial", Text),
    F(4, "cost", Num), F(5, "life", Num), F(6, "basis", Text), F(7, "src", OrNull(RefW)),
    F(8, "origin", OrNull(RefW)), F(9, "note", Text), F(10, "lot", Opt(LotW)),
    F(11, "repair", Opt(RefW)), F(12, "days", Opt(UInt))>>)
\* the tail must ascend from beyond key 10, the lot's own
ToolR == Reads(Tool,
  <<F(0, "type", Type), F(1, "name", Text), F(2, "desc", Text), F(3, "serial", Text),
    F(4, "cost", Num), F(5, "life", Num), F(6, "basis", Text), F(7, "src", OrNull(RefR)),
    F(8, "origin", OrNull(RefR)), F(9, "note", Text)>>,
  <<F(10, "lot", Opt(LotR)), F(11, "repair", Opt(RefR)), F(12, "days", Opt(Cut))>>, 10, 13, 10)

CheckTool(t) == CheckPaidSource(t) /\ (t.repair # {} => t.origin # {}) /\ 0 \notin t.days

=============================================================================
