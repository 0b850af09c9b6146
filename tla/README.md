# A TLA+ model of the free labour network

The program keeps a labour currency without an issuer. People write records of
work in chains of their own; a person pays for work with a *deal* that carries
portions of *paper* (hours somebody once issued as a debt); an *aggregator*
collects the blocks of all chains and says which deals happened. The modules
here model the parts of it where orders of events, lost requests, clocks,
crashes and stolen keys decide the outcome. Paths are relative to
`src/modules/` unless they say otherwise.

## 1. Inventory

| Component | State | Operations | Talks to | Hard part |
|---|---|---|---|---|
| Settlement rules (`records/src/settlement.cpp`) | a walk of one bill | `answer_of`, `deal_status`, `BillRun::judge/settle`, `check_bill` | called by client and aggregator | forks and holes of a thread, terms |
| Client commands (`cli/src/main.cpp`) | own chain, fetched blocks, key files | `bc accept`, `transfer recv/refuse/status`, `merge run/serve/prepare/...`, `release`, `return`, `revoke create`, `branch init`, ... | HTTP to aggregators | stale knowledge, lost POSTs, clocks, stopping half-way, two commands at once |
| Recognition (`aggregator/src/recognition.cpp`) | rebuilt from all blocks | `compute_deals`, `deal_standing` | reads the aggregator's storage | blocks in any order, holes, lapses |
| Key tree (`blockchain/src/blockchain.cpp`, `validator.cpp`, `revocation.cpp`) | nodes, branches, revocation index | `append_data_block`, `rotate_key`, `revoke_node`, `ensure_path`, the validator's walks | owner's storage | revoked revokers, several revocations, stolen keys |
| Key path certificates (`blockchain/src/key_path.cpp`) | none | build, verify | aggregator, clients | rotated keys on the way |
| LMDB storage (`blockchain/src/storage.cpp`) | blocks, nodes, seals, snapshots | put and get, one transaction each | all of the above | crashes between two puts |
| Merge session, dialogue, channel (`blockchain/src/merge_session.cpp`, `sync/src/merge_dialogue.cpp`, `dialogue_channel.cpp`) | pending halves, dialogue phase, state files of merges by hand | offer, tip, draft, cosig, finalize; ship, pump; prepare, create, cosign, finalize | relay mailboxes of the aggregator | lost letters, one side finishing alone, two processes at one mailbox |
| Seals, fraud proofs (`seal_manager.cpp`, `fraud.cpp`) | seals | finalize, prove | storage, aggregator | who may be accused |
| Participant cache, snapshots (`participant_cache.cpp`, `snapshot_exchange.cpp`, `merkle.cpp`, `hll.cpp`) | leaves and unions known | merge, complete, sample | merge dialogue | leaves never recorded |
| Aggregator storage and gossip (`aggregator.cpp`, `server.cpp`) | blocks, seals, certificates, mailboxes | HTTP handlers, `sync_with_peer` | clients, peers | lost lists and entries, order of arrival, conflicting blocks |
| Branch keys (`branch_keys.cpp`) | keys per branch | learn path, rotation, revocation; check; load | server | order of learning, concurrent handlers, restart |
| Goods threads (`records/src/goods_thread.cpp`, `recognition.cpp`, the goods commands) | links of a lot | release, resell, spend, write off, buy back; `check_lot` | client, recognition | a lot sold twice, late acceptances |
| Acceptance, carry, credit, drafts (`records/src`) | none, or the emission thread | self-issue, reversal, receipt, `credit_history` | client | two commands, crashes, late answers |
| Codec, serializer, catalog | none | encode, decode | all | two long functions per record that must agree |
| Views (`deal_view.cpp` and eleven others) | caches | summaries of the table | server | staleness of caches |
| Own chain (`own_chain.cpp`) | the aggregator's own chain | attest | merge session | |

What makes each correct, in one line:

- *Settlement*: the hours of one bill are never spent twice; all readers agree.
- *Clients and recognition*: an honest payer's offer is backed; a seller who
  accepted on the client's advice is paid; a counted answer is final; hours come
  back exactly when no answer can count any more.
- *Key tree*: the key nearest the root has the last word; what a thief writes
  after the compromise counts for nothing; the owner can always go on.
- *Merge*: nobody holds the partner's signature on a half whose counterpart is
  nowhere; a calm session completes; every stored snapshot is committed to and
  provable.
- *Aggregator*: what it says does not depend on the order blocks came in, nor on
  whether it was restarted; what one has, all come to have.
- *Goods*: no piece counts twice; what a seller accepted in time counts.
- *Emission*: a refusal never looks like a debt repaid; an honest owner's thread
  is no proof of fraud and agrees with itself.
- *Codec*: what is written is read back, and in one way only.

The vendored HTTP library, docker files, `aggregator/tools` and the chat history
tools are not part of the model.

## 2. Modules

    Settlement                         pure rules of deals and bills
      |- BillRun                       one bill, spend by spend
      |    \- MCBillRun
      |- Offers - OffersBook           payers, sellers, an aggregator's table
      |    |        \- Escrow          what paying promises (abstract)
      |    \- MCOffers
      \- Emission - MCEmission         own paper: the emission thread, credit history
    OwnerChain                         keys and revocations of one owner
    BranchKeys - MCBranchKeys          an aggregator's table of keys
    Merge - MCMerge                    dialogue, session, relay, disks, by hand
      \- MergePact                     what a merge promises (abstract)
    Lots                               the rule of a lot's links
      \- Goods - MCGoods               releases, deals, losses, the table's verdict
    Warehouse                          what one aggregator keeps
      \- Gossip - MCGossip             aggregators that pull from each other
    Wire                               CBOR items, layouts, readers
      |- Records - DealRecords         the records of a chain
      |- BlockForms                    blocks, nodes, certificates, proofs
      \- Codec - MCCodec               write, respell, read

The theorems about a component are in a module beside it: `BillRunProofs`,
`OffersProofs` (about `Offers` and `OffersBook`), `EmissionProofs`,
`OwnerChainProofs`, `BranchKeysProofs`, `MergeProofs`, `GossipProofs`.
`DataLemmas` has the facts about numbers, walks and sums that several of them need.

### Settlement, BillRun

`Settlement` holds the rules as operators: `FirstWord`, `Counted`, `AnswerOf`
are `answer_of`; `DealStatus` is `deal_status`; a run
`[consumed, backed, unbacked, last, broken]` is `BillState` with `BillRun`'s
private fields; `Fault`, `Judge`, `Dead`, `Settle` are the two methods. Doubles
and their 1e-9 tolerance become natural numbers. `BillRun` is the loop of
`check_bill` as a state machine: `Spend` feeds the next spend by position,
settling the one before it by the time of this one; `Close` settles the last.
The loop of the code drops repeated blocks and sorts by position and hash; the
guard of `Spend` lets through exactly the sequences that leaves.

### Offers, OffersBook, Escrow

`Offers` is a system of chains, each a client, and one aggregator's table.

| TLA+ | Code |
|---|---|
| `purse[c]` | the purse branch of chain c: offers, replies, merges, other blocks |
| `table`, `cosigned` | blocks in the aggregator's storage; merge halves with a co-signature |
| `known[c]` | blocks of others the client has in its storage (`Ledger`) |
| `deals` | all offers signed, in order; a number stands for a hash |
| `unsent[c]` | `bc accept` between posting the offer and uploading its provenance |
| `auto` | history variable: what clients accepted by themselves |
| `Offer`, `Upload` | `cmd_accept`: refresh, count the purse, sign, post; `upload_provenance` |
| `Refresh` | `refresh_offers` (also inside `Offer`) |
| `RefuseOutright`, `AcceptAuto`, `AcceptByHand`, `Refuse` | outcomes of `answer_offer` and `cmd_transfer_refuse` |
| `Note`, `Merge` | any other block; a half of a merge with its co-signature |
| `Gossip` | `sync_with_peer` bringing a block posted elsewhere |
| `Clocks` | what a device may show: the true time or up to `Lag` less |

The client reads answers without the dates of the seller's branch (`running`
FALSE), the aggregator with them, as the code does. Time is counted in units
longer than the code's clock slack of ten minutes. The state of a bill on a view
is computed deal by deal (`RunsOn`), which is what the aggregator's memoised
recursion over bills comes to when every reference names an earlier block.

Abstracted: one purse per chain and one branch; one issuer outside the model;
one portion per offer; every deal completes what it names. The first bill is
handed out before the model starts.

`OffersBook` adds the table read as GET /deal reads it - `held`, `short`, `paid`,
`void` - as an auxiliary variable, and `Escrow` is the promise: an offer is signed
`held` with hours the bill has, or `short` of them; it ends once, paid or void.
While it waits, a `short` offer may come to be `held`. The code lets that happen:
a payer who never heard that an offer was accepted in time (`cli/src/main.cpp`
5021-5024) counts its hours as free and signs two offers, of which the bill covers
the first alone; when the first is refused the second is covered. It takes two
hours and three offers, so no run with `Credit` 1 shows it: a stricter `Escrow`, in
which an offer short when signed was void for good, passed the run, resisted its
proof, and TLC then refuted it with `Credit` 3. With `Credit` 2 the present one was
checked beside the runs (385,686 states).

### OwnerChain

The owner's storage and key files along one path of the key tree, root 0 to
`Leaf`. Ancestors of a node are the nodes with smaller numbers.

| TLA+ | Code |
|---|---|
| `tree`, `branch` | nodes and blocks in storage |
| `file[n]` | the key file of node n, `NoKey` when there is none |
| `Effective` | `collect_revocations` and `effective_revocation` for all nodes, root first (the code recurses to the root) |
| `Status`, `Classify`, `NextKey` | `branch_revocation_status` |
| `Validates`, `Follow` | `validate_branch` |
| `TipAccepted`, `Invalidated`, `CertVerifies`, `PathValid` | `check_tip_against_revocations`, rule 6, `RevocationCert::verify`, `validate_path` |
| `AppendData`, `Rotate` | the facade with the key in the file |
| `Stop`, `Replace` | `bc revoke create`; `Replace` may stop after the record, after the old file stepped aside, or finish |
| `BranchInit` | `bc branch init` with its stages |
| `Steal` | blocks written past the facade with a stolen first key, as `blockchain/tests/test_blockchain.cpp` 546-570 does |

`created` is the stored `created_at`, which the code always writes as 0.
Signatures are the number of the key.

### BranchKeys

One branch as an aggregator knows it; the code's table is a map with the branch
as its key, so one stands for all. Its keys are learnt by HTTP handlers that run
at the same time, and rebuilt at a start from what is on disk.

| TLA+ | Code |
|---|---|
| `path`, `rev` | the branch's entry in `branches_` and in `revocations_` |
| `paths`, `certs`, `blocks`, `hashes` | the storage: paths, certificates, blocks by address, the index of hashes |
| `posting`, `checked`, `added` | handlers between two steps: learnt and not kept, checked and not added, added and not learnt |
| `todo` | what `load()` has still to read; `Serving` when nothing |
| `before` | history variable: the table when the aggregator stopped |
| `OwnLine`, `KeysFor`, `Accepts` | `own_line`, `keys_for`, `check` |
| `PathChecks`, `PathAfter` | `KeyPathCert::verify`, `learn_path` |
| `RevAfter`, `SameAuthor`, `LearnRotation` | `learn_revocation`, `learn_rotation` |
| `LearnPath`, `KeepPath`; `LearnRevocation` | POST /keypaths; POST /revocations; steps 4 and 5 of `sync_with_peer` |
| `CheckBlock`, `AddBlock`, `LearnAdded` | POST /blocks, step 6 of `sync_with_peer`; `AggregatorStorage::add_block` |
| `Restart`, `LoadPath`, `LoadRevocation`, `LoadRotation` | the server stops at any moment; its constructor and `load()` |

Storing and learning a revocation is one step: a stop between the two leaves
what a stop just after them does. Paths and certificates whose nodes or
signatures do not check teach nothing and are left out, and so are the caps of
the lists (8 paths per key, 256 certificates per chain): a path refused for the
cap has been learnt by then and is forgotten at the next restart. The
aggregator stores blocks of its own chain without asking the table; they are
another branch and hold no key changes.

### Merge, MergePact

Two owners, the processes of both (`bc merge run` per session, `bc merge serve`),
their disks and the mailboxes of the relay; the commands `bc merge prepare`,
`create`, `cosign`, `finalize` beside them. A block is its place in its branch, a
snapshot's root the tree it is the hash of.

| TLA+ | Code |
|---|---|
| `branch`, `stored`, `seals`, `cache` | LMDB: blocks, the branch's snapshot, co-signatures; the participant cache |
| `box`, `todo` | mailbox at the relay; letters fetched and not read yet |
| `side[<<process, session>>]` | a `MergeDialogue` with its `MergeSession` and channel |
| `slip`, `papers` | the state file between commands by hand; what they print |
| `calm` | history variable: sessions nothing outside the protocol disturbed |
| `Begin`, `Timeout`, `Crash` | `cmd_merge_run` starts, gives up, dies; so does a server |
| `Queued`, `Refused`, `SendLost` | `DialoguePump::ship` and POST /dialogue/:uid: taken, 429, no answer |
| `Poll`, `PollLost`, `Expire` | GET inbox, which empties the mailbox first; the age limit |
| `Read`, `OnMessage`, `Handle...` | `DialoguePump::feed`, `MergeDialogue::on_message` and its handlers |
| `ReadDropped` | a letter whose dialogue was dropped earlier in the batch: a null pointer |
| `Snap` | the second transaction of `create_pending` (the first is in `Read`), then the answer |
| `FillCache` | `fill_cache` after `finalize`, the best it can |
| `PrepareByHand`, `CreateByHand`, `CosignByHand`, `FinalizeByHand` | the four commands, each stopping after any of its writes |
| `Grow` | any other command that appends to the branch |
| `Below`, `Completed`, `Provable` | `merkle_path`, `complete_cache`, `build_proof` |

`MergePact` knows halves and signatures only: a half is signed when its
counterpart is in the partner's branch. `MCMerge` reads halves and signatures off
the disks and checks that `Merge` does nothing else.

Left out: the check of the partner's key path (an honest partner's path is
`OwnerChain`'s business), HyperLogLog estimates, `bc merge own` (both branches are
one owner's and no letters pass). The relay keeps the order of arrival and
nothing is sent twice, so the reorder buffer of the channel never has anything
to deliver: a letter behind a gap waits for ever.

### Lots, Goods

`Lots` is `check_lot`: the links of one lot and which of them check out. `Goods`
is a market over it: a maker, two buyers, the commands and the table.

| TLA+ | Code |
|---|---|
| `log` | every record of every owner; a place stands for a hash |
| `Table` | `compute_deals` and `recognize_deals` for goods: who was addressed, what each purchase holds, which links check out, the standing of every deal |
| `NextLinks` | `take_from_lot`: the newest own link, what came back, numbered units |
| `ReleaseWhole`, `ReleasePortion`, `Resell` | `cmd_release` |
| `WriteOff`, `TakeIntoProduction`, `LogProduct` | `cmd_write_off`, `cmd_material_add --paid`, `cmd_work_log --spend` |
| `Offer`, `BuyBack`, `Answer` | `cmd_accept`, `cmd_accept` of a pre-signed return, `answer_offer` |
| `Asked` | whether the aggregator answered the command; without it the client checks less |

`Careful` TRUE keeps owners to what the commands leave to their judgement: the
aggregator answers; an offer is due before the release or the pre-signed return
ends; only purchases that happened are sold on; one `--spend` per product and
none of a work made to order; no whole release of an ordered work or of one taken
from. Left out: prices and wear, repairs, the time of a spend link, labour
threads, works of several outputs, a buyback addressed to a third party
(`--buyback-to`: the seller is the only addressee here); `Offers` is about paper.

### Warehouse, Gossip

`Warehouse` is the storage of one aggregator as operators on a record; `Gossip`
has several that pull from each other while clients post.

| TLA+ | Code |
|---|---|
| `AddBlock`, `Served`, `Put`, `PutCosig`, `Listed`, `ListOf` | `AggregatorStorage` |
| `KeysFor`, `Accepts`, `Vouches`, `TakesCosig` | `BranchKeys::keys_for`, `check`, `vouches`; POST /cosigs |
| `TableReads`, `Stamp` | what `compute_deals` reads; what `deals_on_table` compares |
| `turn` | where `sync_loop` is: peer, table, what is left of the list |
| `NextList`, `Fetch`, `NextPeer` | `sync_with_peer`, one request at a time |
| `LoseList`, `LoseEntry`, `Restart` | a request lost; a stop and start |
| `PostBlock` ... | the POST handlers |

A branch's keys are read off the storage, as `load()` does; how they are learnt
piece by piece, and the window between learning and storing, is `BranchKeys`. At
most one revocation per branch here. Seals and snapshots are bytes nobody looks
into. The caps of the lists (8 paths per key, 256 certificates per chain, 4096
seals per block) are not reached; arrival times and the index of ideas are left
out; a list whose entries would change nothing is not fetched again.

### Wire, Records, DealRecords, BlockForms, Codec

`Wire` is CBOR down to what the readers tell apart. `Records`, `DealRecords` and
`BlockForms` give every struct twice, as its `enc_` function writes it and as its
`dec_` function reads it, with the rules (`check_...`) both sides apply. `Codec`
is one value on its way: checked and written (`Encode`, `Refuse`), perhaps spelt
otherwise by other software in one place anywhere inside (`SpellOtherwise`), read
and checked again (`Decode`).

Left out: the width of heads, bytes after the announced fields, short floats, the
bytes of strings; doubles are whole numbers, and a reader of one is given a double
(`r_float64` takes any head of major type 7; no item is spelt that way here). Type key 0 only says which decoder
runs; retired and unknown types are not written. A list index of 2^32 - 1 as
`to_node` is not sampled.

### Emission

An owner who pays with paper of his own. `chain` is his links in the order they
were stored, whatever branch they lie in.

| TLA+ | Code |
|---|---|
| `Newest`, `ThreadStates` | `emission_thread_state`: the newest link of all branches, the tip of the thread |
| `Offer`, `ReadThread`, `ReadFor` | the thread is read and a link made: for an offer in `cmd_accept` (`attach_emission_link`), for a reversal, for a receipt |
| `Store` | `append_record` stores that link, whatever was stored since |
| `Status`, `Ask`, `AskInVain`, `ToReverse` | `cmd_transfer_status`: the ledger read once, one question per open offer, a reversal of what came to nothing |
| `Payments`, `Look`, `Take` | `cmd_transfer_recv`: the deal is shown, the yes is written, the receipt is a second block |
| `Stop` | any command is stopped, between any two of its steps |
| `Phantom`, `Digested`, `Real`, `MaxRepaid`, `Redeemed` | `credit_history`: the debt curve |
| `Forked`, `Gaps`, `Inconsistent`, `Accused` | `credit_history`: `equivocated_seqs`, `gaps`, `thread_inconsistent`, and what `bc trust` reports |

Every command has a branch of its own (`--leaf`) and shares the storage. Reading
the thread and storing the link are two calls with no lock around them, and two
steps here: two commands may read one tip, and then two links have one number and
the debt of each leaves the other out. The program does not prevent it
(`EquivocationIsFraud`, section 3). `crossed` is a history variable, set by the three ways
two commands of one owner can be in each other's way (`Cross`): both have read the
thread and not stored their link; both are in `bc transfer status` and may write the
same reversals; both ask the owner about the same payment. Everything else that
happens side by side, and every stop, is left to the properties.

Offers pay with own paper only, and a holder brings all paper of an offer back at
once. `prev` of a link is left out: `credit_history` does not compare it. The debt
curve is read on views of all links up to some number: on a view that lacks a
reversal more passes for repaid than was redeemed, and the code marks such a view
"gaps". On a fork the code digests the first block of a number and reports the
fork; what the sums are then is left out, for such a view is accused anyway.
`AccusedOnlyIfCrossed` quantifies over every part of the thread a reader may hold.

## 3. Runs

| Run | Bounds | Shows |
|---|---|---|
| `bill_run` | 3 spends of one bill; hours 1-2; 2 branches, positions, times | `NeverOverdrawn`, `ThreadIsLinear`, `WalkMeetsDefinition` |
| `offers_book` | 2 chains, 1 hour, 3 offers, times 0-4, no losses, exact clocks, fair time | `NeverOverpaid`, `InformedOfferIsBacked`, `PaymentNeverHangs`; `Offers` implements `Escrow` |
| `offers_apart` | 3 chains, 2 offers, lost requests, late blocks, one note or merge | `TableNeverOverspent`, `AnswerIsFinal`, `AutoAcceptStands` |
| `offers_clocks` | 2 chains, 1 offer, clocks up to 2 behind, two notes or merges | `LapseIsFinal` |
| `branch_keys` | 6 blocks, 3 certificates by 2 authors, 3 paths (one a fork); 2 requests in progress; 1 restart | `HighestDecides`, `ReplacementLine`, `ServedPathChecks`, `OwnLineGrows`, `VerdictsSurviveRestart` |
| `owner_chain` | path of 3 nodes, leaf made later, stolen middle key, 3 blocks, rotations, crashes | `WalksAgree`, `TipSpeaksForBranch`, `HijackFails`, `RootWordStands`, `RevokedStaysSound`, `SuspicionStays` |
| `merge` | 2 owners, 2 sessions, mailbox of 2, 1 loss or crash, 1 block from elsewhere, 3 drafts by hand | `SnapshotIsCommitted`, `UnionsAreProvable`, `CalmMergeCompletes`; `Merge` implements `MergePact` |
| `goods` | a maker of 2 pieces, 2 buyers, 8 records, times 0-2, five plays of commands | `LotNeverOversold`, `LinksCheckOut`, `AcceptedCounts` |
| `codec` | every kind of record and form, each group of related members varied; words and octets of 4 values; one change of spelling | `ReadBack`, `ReadIsWritable`, `OneLayout` |
| `gossip` | 2 aggregators, 2 branches, 4 blocks, a key change, a revocation, a merge with its co-signature, 1 restart or loss | `CountsNameTheState`, `EverythingSpreads` |
| `emission` | 2 commands, 2 offers of 1 hour, 4 links, times 0-2, nothing after a fork | `RepaidIsRepaid`, `AccusedOnlyIfCrossed` |
| `gossip_fork` | as `gossip`, without faults | the finding below |

Deadlock is checked in both runs of `Gossip`, whose sync threads never stop. The
other systems stop when their bounds on blocks, commands or time are used up.

Why these bounds are enough to be interesting. The rules about a bill relate a
spend to its predecessor and to the sum before it: three spends have a first, a
middle and a last, and every fork, hole and overdraft shows in them. An offer's
history is decided by its predecessor in the thread, its source deal and one
answer: with three offers there is a lapsed one, its retry and a payment from
what it paid. A term of 1 and time 0-3 give before, at and after the term for
two offers in a row. Three nodes are the least with an author above another
author, which is what rule 10 is about; three blocks hold a stop, a replacement and a
block by the replacement or a further revocation. In `branch_keys` the owner
changes his key once before and once after the compromise, the replacement
changes it again, one author speaks twice and a higher one once, and an old key
signs a key change at a taken address and one further on: every branch of
`learn_path`, `learn_rotation` and `learn_revocation` is taken. One restart is
enough, for the disk is all that passes from one start to the next.

Two sessions in `merge` are a retry, a second `bc merge run` beside the first, or
one the other way round; a mailbox of 2 is full when both are open. One fault is
all the code means to survive: what it leaves behind is what the next session
starts from. At most one owner is out of the ordinary at a time: a clock behind,
a rotated key, an empty branch. Two pieces in `goods` are the least that can be
sold in portions, twice, or whole and in part; the five plays (`MCGoods`) give each
kind of record room with the others it meets. With two aggregators in `gossip` a
block can be at one and not the other, and nothing depends on where an entry came
from: one pulled is stored as one posted. Spelling one place otherwise meets
every check of a reader once. In `emission` the second link of a kind by another
command, a late acceptance and a missing receipt all fit in four links. Once two
links have one number the state constraint `BeforeFork` ends the behaviour: what
commands write afterwards is not explored by TLC, and the proofs of section 4,
which have no such constraint, cover it.

### Findings

`gossip_fork` checks what the aggregator says of itself and TLC finds it violated:
a second block of an address is answered "accepted", its hash is indexed, the
block is dropped, and the first block is handed out under the second one's hash
(`aggregator/src/aggregator.cpp` 151; `docs/blockchain.md` 360 has the replacement key
write at just such a place). The table of deals then reads the first block twice.

The modules state seven more properties that are known not to hold; no run checks
them, and each can be added to the `.cfg` of its module.

- `Offers!LearntOfferIsBacked`: a payer who asks after the term is never told that
  an offer was accepted in time, and offers the same hours again
  (`cli/src/main.cpp` 5021-5024; the comment at 5103-5104 says otherwise).
- `Offers!ReadersAgree`: with clocks behind, a reply dated back behind a later block
  counts for the client and not for the aggregator (`cli/src/main.cpp` 4575).
- `OwnerChain!RevocableAgain`: after stop, replace, a block by the replacement, and
  a second replacement, the branch can be neither read nor revoked
  (`blockchain/src/validator.cpp` 144; the comment at 256-258 supports that course).
- `OwnerChain!CountedRecordTravels`: a revocation signed by the author's replacement
  counts at home and fails to verify as a certificate (`revocation.cpp` 41).
- `BranchKeys!FirstStays`: of two diverging lines of key changes the first heard
  stays only until a restart, which reads paths in the order of their keys' bytes.
- `Emission!EquivocationIsFraud`: two commands of an honest owner on two branches both
  read the tip before either has stored its link (`cli/src/main.cpp` 4940, 2473) and
  take one number; the debt of one is missing from the level the next link declares.
  "Two links with one seq = equivocation, an objective fraud proof"
  (`records/include/records/types.h` 578-579; `docs/records.md` 1231,
  `docs/economy.md` 117) then speaks against him.
- `MCMerge!DroppedIsGone`: a dialogue a server drops in the middle of a batch stays
  in the map as a null pointer, and the next letter of the batch follows it
  (`cli/src/main.cpp` 4341-4350).

Seen while modelling, with no property of its own.

*Keys.* A seller's client takes the
aggregator's word that a spend breaks its thread for a fact even when an earlier
spend has only not arrived yet, and the refusal is final (`cli/src/main.cpp`
6049). A revocation may stop counting when its author is revoked as of an
earlier moment; the facade then writes with any key (`blockchain.cpp` 125), and
the branch cannot be read. The aggregator does not ask whether the author of a
revocation was himself revoked (`branch_keys.cpp` 94), as the validator does,
and an author's later word that names the same replacement drops the key changes
of its line (117) until a restart reads them again. A child created after its
parent's key was replaced is signed by the new key (`blockchain.cpp` 86), which
the path check does not try (`validator.cpp` 36); `bc revoke create --replace`
moves the key file even when a higher author's word decides (`cli/src/main.cpp`
7858); `created_at` is always written as 0 (`blockchain.cpp` 55, 86), so the
validator's rule about children made after a compromise has nothing to compare.
`bc branch init` that stops after saving its keys cannot be repeated, because a
saved key file counts as an initialised branch (`cli/src/main.cpp` 1217).

*Offers.* `AnswerIsFinal` is checked with clocks that never run back (`Lag` 0). With
clocks behind, an earlier block dated past the term that arrives late undoes an
answer already counted, because `compute_deals` dates a reply no earlier than the
blocks before it.

*Merge.* `finalize` checks the partner's signature with the key of his node only, so a
partner with a rotated key never completes a merge, and the other side has its
signature (`merge_session.cpp` 201). Nothing rolls back what `create_pending` wrote,
although the comment at `merge_session.cpp` 179 says so; the leaf of a first merge
abandoned there is recorded in no cache. The comment at `cli/src/main.cpp` 4312
says a second merge beside the first fails at `create_pending`; nothing refuses it
there, and it may go on to fail at the draft. `finalize` by hand before `cosign` removes the state file, and the partner
cannot be answered any more (4086).

*Goods.* Without `Careful`, two `--spend` of one product are worked out against the
records before the command and share one number (`cli/src/main.cpp` 1476; the
comment at `recognition.cpp` 899-901 means to rule out hours sold twice); an
acceptance after a second release makes both deals contested (`cmd_release` says
one result, one deal); a whole release does not look at what went into products;
a lapsed portion that a later link took back may still be accepted late, and then
that link no longer checks out; a purchase made by a buyback yields no holding to take from (`load_holding`).

*Codec.* A tool bought with the link of the purchase it takes is written and cannot be
read by anybody (`records/src/codec.cpp` 614 writes key 10, the tail at 1276 starts
beyond it; `docs/records.md` 970 describes the field, `bc tool add --paid` always sets
it), and neither can a work that says more than five of its seven optional
things; `ReadBack` states exactly these two. `AxisDef` takes its tail in any order
and of duplicates the last; readers that do not count take any announced number
of fields; numbers too wide for their member are cut, not refused.

*Emission.* A command stopped between taking own paper and writing the receipt
(`Take`, `Stop`) never writes it; a reversal is written as soon as one aggregator
says "expired", and an acceptance that comes to light later makes it a debt
declared away (`docs/records.md` 1233). Either way thread and wallet tell different
debts, though each agrees with itself. Two `bc transfer status` at once may write one
reversal twice, two `bc transfer recv` one receipt, two commands at once one number:
then a complete thread contradicts itself, and `bc trust` says so of an honest owner.

*Aggregator.* POST /keypaths learns a path before it looks at the cap
(`server.cpp` 916); POST /revocations keeps certificates that do not verify;
GET inbox empties the mailbox before the answer is delivered (485).
`KeyPathCert::build` puts key changes signed by a replacement into a path that
then does not verify; a fraud proof checks a block's signature with the branch's
first key (`fraud.cpp`).

### Fairness

- Time: `WF` of `Tick` in `FairBookSpec`: clocks advance whatever the clients do.
  Nobody is obliged to answer, upload or ask, as in the code, where every command
  is started by a person. `PaymentNeverHangs` holds under that alone. It is
  checked with exact clocks and nothing lost, because with losses a book entry
  may come back from `void` when a missing block arrives.
- `Merge`: `WF(Progress)`. Processes that run keep working, and a run looks at its
  timeout between batches. One condition for all is enough, for the letters and
  writes of all processes together come to an end. Nobody is obliged to begin a
  session, and no crash or loss is fair.
- `Gossip`: `WF(Pull(a))` for each aggregator: `sync_loop` runs as long as the server.
  Clients are not obliged to post.

### Mutants

Each module holds, before the definition it changes, a mutant of it: a guard
dropped (`FaultIgnoresRoom`, `CountsAlways`, `DraftOKAnywhere`), a wait forgotten
(`FreeWhileWaiting`, `DeadWhenSilent`), an order reversed (`WinnerIsNearest`,
`ProposalDraftFirst`), a part of the state not looked at (`StampBlocksOnly`,
`NewestOfSomeBranch`). Replacing the definition by it violates the property named in
`PROJECT.json`.

## 4. Proofs

Every theorem is about all values of the constants that meet the assumptions of
its module: any number of chains, owners, aggregators, sessions, blocks and hours,
any bound, any depth of a key path. The assumptions say that bounds are natural
numbers and records have their shape; those a theorem adds are named below. Each
property was checked by TLC on a small instance before it was proved.

| Module | Theorem | Property |
|---|---|---|
| `BillRunProofs` | `TypeCorrect`, `BillNeverOverdrawn`, `BillThreadIsLinear`, `WalkIsTheRule` | `TypeOK`, `NeverOverdrawn`, `ThreadIsLinear`, `WalkMeetsDefinition` |
| `OffersProofs` | `OffersTypeCorrect`, `LapsesAreFinal`, `TableIsNeverOverspent` | `TypeOK`, `LapseIsFinal`, `TableNeverOverspent` |
| | `AnswersAreFinal`, `AutoAcceptsStand` (`Lag = 0`) | `AnswerIsFinal`, `AutoAcceptStands` |
| | `NothingIsOverpaid` (`Losses = FALSE`) | `NeverOverpaid` |
| | `OffersAreAnEscrow`, `InformedOffersAreBacked` (`Lag = 0`, `Losses = FALSE`) | `ImplementsEscrow`, `InformedOfferIsBacked` |
| `EmissionProofs` | `HistoryNeverFlatters`, `HonestNeverAccused`, `RepaidIsTaken` | `RepaidIsRepaid`, `AccusedOnlyIfCrossed`, `RepaidCameHome` (in no run) |
| | `Apartness` | its own invariant of commands that never crossed |
| `OwnerChainProofs` | `ChainTypeCorrect`, `TipIsTrusted`, `WalksAlwaysAgree` | `TypeOK`, `TipSpeaksForBranch`, `WalksAgree` |
| | `RevokedBranchReadable`, `RootWordHolds`, `HijackIsPowerless`, `SuspicionNeverCleared` | `RevokedStaysSound`, `RootWordStands`, `HijackFails`, `SuspicionStays` |
| `BranchKeysProofs` | `KeysTypeCorrect`, `HighestAuthorDecides`, `OnlyTheReplacementSigns`, `ServedPathsCheck`, `KnownLineGrows` | `TypeOK`, `HighestDecides`, `ReplacementLine`, `ServedPathChecks`, `OwnLineGrows` |
| | `RestartKeepsVerdicts` (`HonestOwner`) | `VerdictsSurviveRestart` |
| `MergeProofs` | `SnapshotCommitted`, `PactKept` | `SnapshotIsCommitted`, `ImplementsPact` |
| | `LedgerKept`, `UnionsProvable` | its own invariant, `UnionsAreProvable` |
| `GossipProofs` | `StoragesAreSound`, `CountsTell` | its own invariant, `CountsNameTheState` |

`Lag = 0` is a world of exact clocks, `Losses = FALSE` one where the aggregator is
reached whenever it is asked. Neither can be dropped: with clocks behind a late
block undoes a counted answer (section 3), and with losses a block that arrives
late makes a book entry come back. `HonestOwner` says who the owner of a branch is,
not what others do (see *Keys*).

### Data

Induction is used in two forms the provers take: a set of naturals that is not
empty has a least element (`LeastNat`, `UpTo`), and so has a finite family of sets
(`LeastSubset`). A sum over a set is pinned down by a function that says what each
member adds (`Adder`, `Sums`, `Total`), and a walk along a sequence by the function of its
prefixes (`Stepwise`, `RunningSum`): those functions are shown to exist, and what is
claimed of a sum or a walk is then claimed of a function step by step.

### Settlement

That a spend fits is judged against `consumed` *after* the spend before it was
settled, so the invariant keeps the open spend apart: `consumed` with the last
backed spend still unsettled is within the credit. That two backed spends name
different predecessors rests on three more facts: `run.last` is the reference of
the last backed spend; the backed spends are a prefix of those fed; references do
not repeat. For `WalkIsTheRule` the walk's `consumed` is the running sum of the
hours still taken, and the prefix it backs is the longest the rule allows.

### Offers

The invariant of `Offers` says that an offer is a block of its payer's purse and
names the spend of its bill before it, and that a reply is the seller's one answer,
in its term, to an offer the table had. From that:

- *Lapses and answers* (`LapsesAreFinal`, `AnswersAreFinal`). A block dated at or
  past the term with no hole before it closes the question: a block that comes later
  lies behind it. With exact clocks dates do not run back along a branch, so an earlier
  block that comes late is dated no later than the reply counted.
- *The table* (`TableIsNeverOverspent`). What one bill pays is a set of offers in
  order of their places; each fits after those before it, for `consumed` of a
  payment never falls once it was counted.
- *Automatic acceptance* (`AutoAcceptsStand`). What the client vouches for counts
  all doubted lapses as taken. Whatever answers turn up, an offer before it in the
  thread takes at most that, by induction along the thread (`Vouched`).
- *The book* (`NothingIsOverpaid`). With every block on the table `TableRuns` meets
  `Rule`: an offer is backed exactly when it is the first of its bill or follows a
  backed one, its source came, and its hours fit in what is left. The hours held and
  paid from a bill are among those `consumed` (`HoursFit`).
- *The refinement* (`OffersAreAnEscrow`). Every step but an offer and a tick leaves
  all answers but one alone (`Silent`, `StepReplies`), and time alone changes a
  verdict only from pending to lapsed (`RulesFollow`). Hours once consumed by a dead
  offer come back (`DeadStays`), and so what is backed stays backed while it waits
  (`BackedStays`): the offers before it may only give hours back. What a seller
  accepts was backed when he accepted it (`AcceptedBacked`), so it is paid, and a paid
  entry stays. A step of the system is then `Sign`, `Turn` or a stutter of `Escrow`.
- *Two counts of one bill* (`InformedOffersAreBacked`). That the payer knows every
  answer *now* is no invariant: he asks only while the term is on, so an answer he
  misses then he misses for good (`Missed`, `MissedStays`). The invariant `Kept`
  says that a payer either missed an answer for good or has signed nothing but backed
  paper. An offer keeps it: who asked and missed nothing reads every answer as the
  table does (`AskedHeeds`), his walk along a bill takes what the table's takes,
  spend by spend (`ThreadAgrees`), what his purse calls free is what the next spend
  finds (`FreeIs`), and the source he accepted himself was backed (`OfferBacks`). An
  informed payer is not one who missed an answer.

### Emission

Two invariants. One (`IInv`) holds whatever commands do: a reversal or a receipt is
for an offer of a lower number and has its hours, a receipt is for paper that came
home, and a link declares the debt that follows from *some* link of the number
before. The other (`ApartUnlessCrossed`) holds while no two commands were in each
other's way: links are numbered in the order they were stored, what a command has
read is still the tip, and no offer is reversed or receipted twice, nor about to be.

From the first: in an unforked part of the thread the debt a link declares is the
sum of all links up to it (`DebtIsSum`), so the history's level is what was issued
in offers that were not reversed less what was redeemed (`RealIs`), and no fall is
deeper than the receipts: `HistoryNeverFlatters` assumes nothing of the commands but
that this part has no fork. From both: a part without a gap is all there is up to
some number (`WholeParts`), the links of a kind have the hours of the offers they
name (`NamedOnce`), and so the newest declared level is what the reader computes:
`HonestNeverAccused`. `RepaidIsTaken` adds that the offers receipts name are among
those whose paper came home. Left aside is that the reader may hold one of two links
of one number and see no fork: that takes commands that crossed.

### Keys

`OwnerChain` reads a branch by walking it and revocations by going down the path.
Both are restated for a branch given as a parameter, so that a property of the
states before and after a step is one lemma used twice. Beside its types the
invariant keeps keys apart (`KeysOK`): every key in use was generated, and a key a
revocation assigned is never the first key of a node, nor one a rotation named,
nor in the file of a node yet to be created. `WalksAlwaysAgree` shows by induction on
the place that the validator's walk and the writer's are in matching states;
`RootWordHolds` and `HijackIsPowerless` that what a later block may change in the
list of revocations is bounded by its author's depth and by its date;
`SuspicionNeverCleared` that with the same deciding author the marks of the blocks
already there stay.

With `TypeOK` each property of `BranchKeys` is inductive. `Decides(rev, heard)` -
depth, moment and replacement are the best of `heard` - passes to `heard` with one
certificate more (`DecidesAfter`), while `heard`, all certificates on disk but those
`load()` has still to read, gains one and loses none between restarts. For
`OnlyTheReplacementSigns` it is that within one author the compromise only moves
back, so a key change dated after it stays so, that any other word starts the line
anew, and that a key change is on disk before it is learnt. `ServedPathsCheck` rests
on the signature `learn_rotation` checks a second time: `check` lets old keys
through. These proofs assume nothing about who wrote keys, certificates and paths.

`RestartKeepsVerdicts` does: it is about the blocks and paths of an owner who keeps
his own rules (`HonestOwner`). He writes one block per address; a key hands over
once, and the key it names signs only further on and not dated before; his paths
start from one node and hold his own key changes; and no author of a revocation
says two things at one place of his branch. Certificates stay arbitrary otherwise.
What is known at a stop is on disk (`OnDisk`), which is why a stop between the
learning and the keeping of a path is left out. While `load()` runs, each key change
known before is in the path or in the line, or still to be read (`PathComesBack`,
`LineComesBack`). Paths of the owner's agree as far as both go (`Comparable`), so the
order of paths does not matter; key changes are read in the order of the branch, so
each finds its predecessor (`RotationJoins` for the branch's own keys, `HeirJoins` for
those of the replacement); and the same certificates, in any order, come to the same
compromise and the same replacement (`SameWord`).

### Merge

The invariant says of every letter - at the relay, fetched, or on paper between
two commands - and of every dialogue which halves stand behind it, and of every
seal that its half is answered by a half of the same merge on the partner's disk.
A step can only make branches longer, so all of it is said of branches as a
parameter and kept by branches that carry them on. A co-signature is sent by
the side whose half is written; that is the step of `MergePact`.

`UnionsProvable` needs two invariants more. `Talk`: the roots that letters, papers
and dialogues name are what their authors' branches show, and a half is over
unions that stand in a branch and leaves it brings in itself. `Ledger`: a half with the
partner's signature is in its owner's cache, union and new leaves, or a dialogue is
about to put it there, or a fault took it; with one fault at most one is
lost. The two halves of a merge bring in the same (`TwinsRecordOne`), so when all
are signed and one record is lost, the partner has it (`RecordedByOne`). What is
published is then closed: with a root it has all the root is over. `Below` walks
down as many steps as there are roots, and in a closed set it meets every leaf
(`ClosedProves`).

### Gossip

In a storage a block kept is indexed, an indexed hash has a block at its address,
and an address has one block. One put adds at most one thing, so the counts of
blocks and co-signatures tell what the table of deals reads apart, but for
an address forked, whose second hash the first block is handed out under.

### Model-checked only

- Liveness: `PaymentNeverHangs`, `CalmMergeCompletes`, `EverythingSpreads`. Liveness
  under fairness is out of the provers' reach.
- `Codec`: recursion over nested items (`Wire`), which the provers cannot take.
- `Goods`: the table's verdict is computed by recursion along the log and that on a
  lot by a fold over its links. What they come to for every log would be an
  induction over data.

## 5. What is not modelled, and what comes next

Not modelled:

- sums of real numbers over one record or one table: `carry.cpp`, prices, wear,
  HyperLogLog, most views of the aggregator;
- seals and fraud proofs beyond their encoding and their transport;
- `bc merge own`, the publishing of caches and `snapshot_exchange`;
- deposits and buybacks of bills, moves between own branches, births and repairs in
  recognition; the consumer's form of an offer;
- the aggregator's own chain, the catalogue, the shape of the key tree off one path,
  `KeyPathCert::build`;
- commands of one person that append one record, HTTP, LMDB, files.

Next, in this order:

1. `Goods` with its verdict as a state of its own, one link per step as `BillRun` does
   for bills; then `LotNeverOversold` can be proved.
2. Deposits and buybacks of bills, in `Settlement` and `Offers`.
3. Seals and fraud proofs: who may be accused by whom.
4. `bc merge own` and the completion of caches from a warehouse.
