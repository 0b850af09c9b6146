------------------------------ MODULE Emission ------------------------------
(***************************************************************************)
(* The emission thread (economy.md 4.3, records.md 11.5, 11.6).  Whoever   *)
(* pays with paper of his own declares, in the deal itself, the debt he    *)
(* has after it; whoever takes his own paper back writes a receipt; an     *)
(* offer that was refused, or that nobody answered in time, gets a         *)
(* reversal.  These links are numbered through the whole chain, whatever   *)
(* branch they lie in, and everybody who holds them draws the owner's      *)
(* credit history from them.                                               *)
(*                                                                         *)
(* One owner, whose commands may run at the same time on one storage and   *)
(* stop at any moment; the aggregator he asks; sellers whose answers reach *)
(* the table late; holders who bring his paper back.  A command that has a *)
(* link to write first reads where the thread stands and then stores the   *)
(* link, and nothing keeps another command from doing so in between.       *)
(* Every offer here pays with own paper only: other paper leaves no link.  *)
(* A block is named by its place in `chain`, the order the owner's blocks  *)
(* were stored in.                                                         *)
(***************************************************************************)
EXTENDS Settlement, FiniteSetsExt

CONSTANTS
  Commands,    \* commands of bc that may run at once, each on a branch of its own (--leaf)
  Hours,       \* the hours of own paper an offer may issue
  Term,        \* an offer waits this long for its answer
  MaxOffers,   \* bound: with so many offers in the chain none is begun
  MaxChain,    \* bound: links in the chain; nothing is done once it is full
  MaxTime      \* bound: the last moment of the clock

ASSUME EmissionAssumption ==
  /\ Hours \subseteq Nat \ {0} /\ Term \in Nat \ {0}
  /\ MaxOffers \in Nat /\ MaxChain \in Nat /\ MaxTime \in Nat

VARIABLES
  now,
  chain,      \* the owner's links: [kind, branch, of, units, until, seq, debt]
  command,    \* what each command is about
  answers,    \* the seller's answer to each offer: "none" until given
  known,      \* offers whose answer the owner's storage has
  taken,      \* offers whose paper came home: a deal paid the owner with it, and he took it
  crossed     \* history: two commands were once in each other's way (Cross)

vars == <<now, chain, command, answers, known, taken, crossed>>

Idle == [at |-> "idle"]

Links == 1 .. Len(chain)

Offers == {d \in Links : chain[d].kind = "offer"}

Reversals == {r \in Links : chain[r].kind = "reversal"}

Receipts == {r \in Links : chain[r].kind = "receipt"}

Reversed(d) == \E r \in Reversals : chain[r].of = d

Sum(S) == MapThenSumSet(LAMBDA d : chain[d].units, S)

\* The answer the client counts: what its storage has, and every answer was
\* dated in time by the client that gave it.
Known(d) == IF d \in known THEN answers[d] ELSE "none"

-----------------------------------------------------------------------------
(* Commands at work.                                                       *)

\* bc transfer status, until it has written its last reversal.
Settling(c) == \/ c.at = "ask"
               \/ c.at = "due" /\ c.kind = "reversal"
               \/ c.at = "link" /\ c.link.kind = "reversal"

\* The only ways two commands are in each other's way: both have read the
\* thread and not stored their link; both settle offers; both ask the owner
\* about the same deal.
Cross(c, e) == \/ c.at = "link" /\ e.at = "link"
               \/ Settling(c) /\ Settling(e)
               \/ c.at = "prompt" /\ e = c

Do(p, step) ==
  /\ command' = [command EXCEPT ![p] = step]
  /\ crossed' = (crossed \/ \E q \in Commands \ {p} : Cross(step, command[q]))

\* A reversal or a receipt is due; afterwards the command goes on with `then`.
Due(kind, of, then) == [at |-> "due", kind |-> kind, of |-> of, then |-> then]

-----------------------------------------------------------------------------
(* The thread.                                                             *)

\* Mutant of Newest: the last link of whichever branch is scanned last.
NewestOfSomeBranch ==
  {i \in Links : \A j \in Links : chain[j].branch = chain[i].branch =>
                                  chain[j].seq <= chain[i].seq}

\* The newest link over all local branches; of equals, the one scanned first,
\* and the branches are scanned in no particular order.
Newest == {i \in Links : \A j \in Links : chain[j].seq <= chain[i].seq}

\* What emission_thread_state may give.
ThreadStates ==
  IF Links = {} THEN {[seq |-> 0, debt |-> 0]}
  ELSE {[seq |-> chain[i].seq + 1, debt |-> chain[i].debt] : i \in Newest}

\* The thread is read and the link that follows is made, not yet stored.
ReadFor(p, kind, of, units, until, then) ==
  \E thread \in ThreadStates :
    Do(p, [at   |-> "link",
           link |-> [kind |-> kind, branch |-> p, of |-> of, units |-> units, until |-> until,
                     seq |-> thread.seq,
                     debt |-> thread.debt + (IF kind = "offer" THEN -units ELSE units)],
           then |-> then])

\* An offer may issue own paper; attach_emission_link.
Offer(p) ==
  /\ command[p].at = "idle"
  /\ Cardinality(Offers) < MaxOffers
  /\ \E hours \in Hours : ReadFor(p, "offer", 0, hours, now + Term, Idle)
  /\ UNCHANGED <<now, chain, answers, known, taken>>

\* The thread is read for a reversal or a receipt.
ReadThread(p) ==
  /\ command[p].at = "due"
  /\ LET c == command[p]
     IN  ReadFor(p, c.kind, c.of, chain[c.of].units, 0, c.then)
  /\ UNCHANGED <<now, chain, answers, known, taken>>

\* append_record stores it, whatever was stored since.
Store(p) ==
  /\ command[p].at = "link"
  /\ chain' = Append(chain, command[p].link)
  /\ answers' = Append(answers, "none")
  /\ Do(p, command[p].then)
  /\ UNCHANGED <<now, known, taken>>

-----------------------------------------------------------------------------
(* bc transfer status: what became of my offers.                           *)

\* Only what is still open is asked about: offers waiting, and those that ended
\* without effect and have no reversal.
Open(d) ==
  CASE Known(d) = "accepted" -> FALSE
    [] Known(d) = "refused"  -> ~Reversed(d)
    [] OTHER                 -> now <= chain[d].until \/ ~Reversed(d)

\* The ledger is read once, when the command starts.
Status(p) ==
  /\ command[p].at = "idle"
  /\ \E d \in Offers : Open(d)
  /\ Do(p, [at |-> "ask", todo |-> {d \in Offers : Open(d)},
            reversed |-> {d \in Offers : Open(d) /\ Reversed(d)}])
  /\ UNCHANGED <<now, chain, answers, known, taken>>

\* What GET /deal says of an offer.  Any aggregator may be asked, and it may not
\* have the answer yet.
Told(d, has) == DealStatus(chain[d].until, IF has THEN answers[d] ELSE "none", now)

ToReverse(d, status, reversed) == status \in {"refused", "expired"} /\ d \notin reversed

Without(p, d) ==
  IF command[p].todo = {d} THEN Idle ELSE [command[p] EXCEPT !.todo = @ \ {d}]

\* The request fails, or the aggregator does not know the offer.
AskInVain(p, d) ==
  /\ command[p].at = "ask" /\ d \in command[p].todo
  /\ Do(p, Without(p, d))
  /\ UNCHANGED <<now, chain, answers, known, taken>>

\* The answer that counts is fetched, if it can be, and stored; own paper of an
\* offer that came to nothing is to be taken back.
Ask(p, d) ==
  /\ command[p].at = "ask" /\ d \in command[p].todo
  /\ \E has \in {FALSE, answers[d] # "none"} :
       /\ known' \in {known, IF has THEN known \cup {d} ELSE known}
       /\ Do(p, IF ToReverse(d, Told(d, has), command[p].reversed)
                THEN Due("reversal", d, Without(p, d))
                ELSE Without(p, d))
  /\ UNCHANGED <<now, chain, answers, taken>>

-----------------------------------------------------------------------------
(* bc transfer recv: own paper comes home.                                 *)

\* A holder pays the owner with the paper of an offer; he has not answered.
Payments == {d \in Offers \ taken : answers[d] = "accepted"}

\* The command finds such a deal, shows it and asks him.
Look(p, d) ==
  /\ command[p].at = "idle"
  /\ d \in Payments
  /\ Do(p, [at |-> "prompt", of |-> d])
  /\ UNCHANGED <<now, chain, answers, known, taken>>

\* He says yes, and that answer is written without another look; the receipt is
\* a second block.
Take(p) ==
  /\ command[p].at = "prompt"
  /\ taken' = taken \cup {command[p].of}
  /\ Do(p, Due("receipt", command[p].of, Idle))
  /\ UNCHANGED <<now, chain, answers, known>>

\* A command is stopped.  One started again finds the deal answered and writes
\* no receipt.
Stop(p) ==
  /\ command[p].at # "idle"
  /\ Do(p, Idle)
  /\ UNCHANGED <<now, chain, answers, known, taken>>

-----------------------------------------------------------------------------
(* The others.                                                             *)

\* A seller answers in time; he may have the offer from another aggregator.
Answer(d, a) ==
  /\ d \in Offers /\ answers[d] = "none" /\ now <= chain[d].until
  /\ answers' = [answers EXCEPT ![d] = a]
  /\ UNCHANGED <<now, chain, command, known, taken, crossed>>

Tick ==
  /\ now < MaxTime
  /\ now' = now + 1
  /\ UNCHANGED <<chain, command, answers, known, taken, crossed>>

Init ==
  /\ now = 0
  /\ chain = <<>> /\ answers = <<>>
  /\ command = [p \in Commands |-> Idle]
  /\ known = {} /\ taken = {} /\ crossed = FALSE

Next ==
  /\ Len(chain) < MaxChain
  /\ \/ \E p \in Commands :
          \/ Offer(p)
          \/ ReadThread(p)
          \/ Store(p)
          \/ Status(p)
          \/ Take(p)
          \/ Stop(p)
          \/ \E d \in Offers : Look(p, d) \/ Ask(p, d) \/ AskInVain(p, d)
     \/ \E d \in Offers, a \in {"accepted", "refused"} : Answer(d, a)
     \/ Tick

Spec == Init /\ [][Next]_vars
-----------------------------------------------------------------------------
(* The credit history a reader draws from the links it holds               *)
(* (records::credit_history).  `seen` is a set of links.                   *)

Before(i, seen) == {j \in seen : chain[j].seq <= chain[i].seq}

\* Mutant of Phantom: declared levels are taken as they stand.
PhantomIgnored(i, seen) == 0

\* What the levels up to link i declare of offers that came to nothing: every
\* offer some reversal among the links names, less the reversals so far.
Phantom(i, seen) ==
  Sum({d \in Before(i, seen) \cap Offers : \E r \in seen \cap Reversals : chain[r].of = d})
    - Sum(Before(i, seen) \cap Reversals)

\* The links that make the debt curve.
Digested(seen) ==
  {i \in seen \ Reversals : \A r \in seen \cap Reversals : chain[r].of # i}

Real(i, seen) == -chain[i].debt - Phantom(i, seen)

\* "trusted with that much, gave it back": the deepest fall from a peak.
MaxRepaid(seen) ==
  LET digested == Digested(seen)
      peak(i)  == Max({0} \cup {Real(j, seen) : j \in Before(i, seen) \cap digested})
  IN  Max({0} \cup {peak(i) - Real(i, seen) : i \in digested})

Redeemed(seen) == Sum(seen \cap Receipts)

\* equivocated_seqs: one number in two different blocks.
Forked(seen) == \E i, j \in seen : i # j /\ chain[i].seq = chain[j].seq

\* Fewer links than the newest one's number says.
Gaps(seen) ==
  \E i \in seen : \E n \in 0 .. chain[i].seq : \A j \in seen : chain[j].seq # n

\* thread_inconsistent: the newest level is not what was issued less what was
\* redeemed.
Inconsistent(seen) ==
  \E i \in seen : /\ Before(i, seen) = seen
                  /\ -chain[i].debt # Sum(Digested(seen) \cap Offers) - Redeemed(seen)

\* What bc trust reports as proof of fraud, or as a chain at odds with itself.
Accused(seen) == Forked(seen) \/ (~Gaps(seen) /\ Inconsistent(seen))

-----------------------------------------------------------------------------
(* Properties.                                                             *)

\* All links up to some number.
Views == {{i \in Links : chain[i].seq < n} : n \in 0 .. Len(chain)}

(* Nobody passes for one who paid back what he never did: on any view of   *)
(* the thread without a gap and without a fork the credit history shows no *)
(* more repaid than the receipts in it, however many offers were refused   *)
(* or lapsed, were reversed twice by two commands, or accepted after all   *)
(* (records.md 11.6: "otherwise a friend's refusal would pass for a debt   *)
(* repaid").  It needs no luck with the commands.                          *)
RepaidIsRepaid ==
  \A seen \in Views : ~Forked(seen) => MaxRepaid(seen) <= Redeemed(seen)

(* An honest owner is not taken for a cheat: whatever part of his thread a *)
(* reader holds, it proves no fraud and does not contradict itself, though *)
(* his commands ran side by side, were stopped between any two steps,      *)
(* learnt answers late or never, and reversed what was accepted after all. *)
(* The only exceptions are the three ways two commands can be in each      *)
(* other's way (Cross), which nothing in the client prevents.              *)
AccusedOnlyIfCrossed == ~crossed => \A seen \in SUBSET Links : ~Accused(seen)

(* What passes for repaid did come home, and each piece once: but for two  *)
(* commands in each other's way no reader sees more repaid than the owner  *)
(* took back, wherever his commands were stopped between the answer and    *)
(* the receipt.                                                            *)
RepaidCameHome == ~crossed => \A seen \in Views : MaxRepaid(seen) <= Sum(taken)

(* "Two links with one seq = equivocation, an objective fraud proof"       *)
(* (records/types.h): the owner here is honest, so no two of his links     *)
(* have one number.  Known not to hold: two commands on two branches may   *)
(* both read the thread before either stores its link.                     *)
EquivocationIsFraud == ~Forked(Links)
=============================================================================
