------------------------------ MODULE MCMerge ------------------------------
(***************************************************************************)
(* Two owners, two sessions: the second a retry of the first, a second     *)
(* `bc merge run` beside it, or one the other way round; or merges by      *)
(* hand, with a session of the relay after them.                           *)
(***************************************************************************)
EXTENDS Merge

CONSTANTS a, b, s1, s2

MCParty   == {a, b}
MCSession == {s1, s2}

VARIABLE together  \* sessions may be open side by side

\* What is out of the ordinary about the owners when they begin.
Odd ==
  {<<p, "clock">> : p \in {q \in Party : clock[q] # 0}}
    \cup {<<p, "key">> : p \in {q \in Party : key[q] = "rotated"}}
    \cup {<<p, "empty">> : p \in {q \in Party : branch[q] = <<>>}}

\* The first session is a's, for the owners are alike, and b serves it.
\* Either two sessions side by side and nothing else goes wrong; or a second
\* one when the first is over, and one loss, crash or block from elsewhere; or
\* one session of owners of whom at most one is not ordinary, perhaps beside a
\* server of the initiator's own, with all of these; or merges by hand, before
\* one session in a world without faults, or of owners of whom at most one is
\* not ordinary, with one loss, crash or block from elsewhere.
MCInit ==
  /\ Init
  /\ ends[s1] = <<a, b>> /\ b \in serves /\ together \in BOOLEAN
  /\ \/ /\ byHand = MaxByHand /\ begun = {} /\ Odd = {} /\ serves = {b} /\ ends[s2] = <<a, b>>
        /\ \/ together /\ faults = MaxFaults /\ grown = MaxGrow
           \/ ~together /\ faults + grown = MaxFaults + MaxGrow - 1
     \/ /\ byHand = MaxByHand /\ begun = {s2} /\ ends[s2] = <<b, a>> /\ Cardinality(Odd) <= 1 /\ ~together
        /\ faults = 0 /\ grown = 0
     \/ /\ ends[s2] = <<a, b>> /\ serves = {b} /\ ~together
        /\ \/ /\ byHand = 1 /\ begun = {s2} /\ Odd = {}
              /\ faults = MaxFaults /\ grown = MaxGrow
           \/ /\ byHand = 0 /\ begun = {s1, s2} /\ Cardinality(Odd) <= 1
              /\ faults + grown = MaxFaults + MaxGrow - 1

MCNext ==
  /\ Next
  /\ begun' # begun => together \/ \A s \in begun : ~Alive(Run(s))
  /\ hand' # hand => side[<<Run(s1), s1>>].st = "none"   \* before the session
  /\ UNCHANGED together

MCSpec == MCInit /\ [][MCNext]_<<vars, together>> /\ WF_vars(Progress)

\* Both owners hold each other's signature for the session.
SealedBoth(s) ==
  LET v == side[<<Run(s), s>>]  p == ends[s][1]  q == ends[s][2] IN
  /\ v.st = "DONE"
  /\ \E j \in DOMAIN branch[q] : branch[q][j].takes = <<p, v.mine>> /\ <<q, j>> \in seals

\* "Stalled and abandoned (safe to retry)": a run of `bc merge run` that starts
\* when no other run of the owners is open, whatever earlier ones left in the
\* branches, mailboxes and servers, ends with both signatures, unless something
\* outside the protocol gets in its way.
CalmMergeCompletes == \A s \in Session : s \in calm ~> SealedBoth(s) \/ s \notin calm

\* A dialogue dropped when the relay refused a letter ("dropping dialogue") is
\* gone: no letter of the same batch is handed to it.
DroppedIsGone ==
  \A p \in Party : todo[Serve(p)] # <<>> =>
    side[<<Serve(p), Head(todo[Serve(p)]).s>>].st # "null"

=============================================================================
