--------------------------- MODULE EmissionProofs ---------------------------
(***************************************************************************)
(* Proofs about Emission: what the credit history makes of the thread, for *)
(* any number of commands, hours and links.                                *)
(***************************************************************************)
EXTENDS Emission, DataLemmas

LinkType ==
  [kind : {"offer", "reversal", "receipt"}, branch : Commands, of : Nat,
   units : Nat, until : Nat, seq : Nat, debt : Int]

\* What a command goes on with after a reversal.
AfterType == {Idle} \cup [at : {"ask"}, todo : SUBSET Offers, reversed : SUBSET Offers]

CommandType ==
  AfterType \cup [at : {"prompt"}, of : Offers]
            \cup [at : {"due"}, kind : {"reversal"}, of : Offers, then : AfterType]
            \cup [at : {"due"}, kind : {"receipt"}, of : taken, then : AfterType]
            \cup [at : {"link"}, link : LinkType, then : AfterType]

TypeOK ==
  /\ now \in Nat
  /\ chain \in Seq(LinkType)
  /\ answers \in Seq({"none", "accepted", "refused"}) /\ Len(answers) = Len(chain)
  /\ command \in [Commands -> CommandType]
  /\ known \subseteq Offers /\ taken \subseteq Offers
  /\ crossed \in BOOLEAN

\* A reversal and a receipt name an offer of a lower number, with its hours; a
\* receipt is for paper that came home.
Fits(l) ==
  l.kind # "offer" => /\ l.of \in Offers /\ chain[l.of].seq < l.seq
                      /\ l.units = chain[l.of].units
                      /\ l.kind = "receipt" => l.of \in taken

Up(l) == IF l.kind = "offer" THEN -l.units ELSE l.units

\* A link is the first one, or declares the debt that follows from some link of
\* the number before.
Follows(l) ==
  \/ l.seq = 0 /\ l.debt = Up(l)
  \/ \E j \in Links : l.seq = chain[j].seq + 1 /\ l.debt = chain[j].debt + Up(l)

Sound(l) == Fits(l) /\ Follows(l)

IInv ==
  /\ TypeOK
  /\ \A i \in Links : Sound(chain[i])
  /\ \A p \in Commands : command[p].at = "link" => Sound(command[p].link)

-----------------------------------------------------------------------------
(* Sums of hours over links.                                               *)

Units == [d \in Links |-> chain[d].units]

\* h is the sum of hours of any set of links.
Sums(h) == Adder(Units, h, Links) /\ \A S \in SUBSET Links : Sum(S) = h[S]

LEMMA SumsExist ==
  ASSUME TypeOK
  PROVE  /\ IsFiniteSet(Links) /\ Units \in [Links -> Nat]
         /\ \E h : Sums(h)
<1>1. Len(chain) \in Nat /\ Links = 1..Len(chain)
  BY DEF TypeOK, Links
<1>2. IsFiniteSet(Links)
  BY <1>1, FS_Interval
<1>3. \A d \in Links : chain[d] \in LinkType
  BY <1>1 DEF TypeOK
<1>4. Units \in [Links -> Nat]
  BY <1>3 DEF Units, LinkType
<1>5. Units \in [Links -> Int]
  BY <1>4
<1>6. PICK h : Adder(Units, h, Links)
  BY <1>2, <1>5, AdderExists
<1>7. ASSUME NEW S \in SUBSET Links
      PROVE  Sum(S) = h[S]
  <2> DEFINE Is(it) == it = [s \in SUBSET S |->
                               IF s = {} THEN 0
                               ELSE chain[Pick(s)].units + it[s \ {Pick(s)}]]
  <2>1. Sum(S) = (CHOOSE it : Is(it))[S]
    BY DEF Sum, MapThenSumSet, MapThenFoldSet, Pick
  <2>2. ASSUME NEW it
        PROVE  Is(it) <=> Solves(it, Units, S)
    <3>1. \A s \in SUBSET S : s # {} => Units[Pick(s)] = chain[Pick(s)].units
      BY PickIn DEF Units
    <3>2. [s \in SUBSET S |-> IF s = {} THEN 0
                              ELSE chain[Pick(s)].units + it[s \ {Pick(s)}]]
        = [s \in SUBSET S |-> IF s = {} THEN 0
                              ELSE Units[Pick(s)] + it[s \ {Pick(s)}]]
      BY <3>1
    <3> QED BY <3>2 DEF Solves
  <2> HIDE DEF Is
  <2>3. \E it : Is(it)
    BY <1>2, <1>5, <1>6, <2>2, SumSolved
  <2>4. Is(CHOOSE it : Is(it))
    BY <2>3
  <2>5. PICK c : c = CHOOSE it : Is(it)
    OBVIOUS
  <2>6. Solves(c, Units, S)
    BY <2>2, <2>4, <2>5
  <2>7. c[S] = h[S]
    BY <1>2, <1>5, <1>6, <2>6, SumSolved
  <2> QED BY <2>1, <2>5, <2>7
<1> QED BY <1>2, <1>4, <1>6, <1>7 DEF Sums


-----------------------------------------------------------------------------
(* The invariant.                                                          *)

LEMMA LinkFields ==
  ASSUME TypeOK
  PROVE  /\ Len(chain) \in Nat /\ Links = 1..Len(chain)
         /\ \A i \in Links : /\ chain[i] \in LinkType
                             /\ chain[i].kind \in {"offer", "reversal", "receipt"}
                             /\ chain[i].of \in Nat /\ chain[i].units \in Nat
                             /\ chain[i].seq \in Nat /\ chain[i].debt \in Int
         /\ Offers \subseteq Links /\ Reversals \subseteq Links /\ Receipts \subseteq Links
         /\ Links = Offers \cup Reversals \cup Receipts
<1>1. Len(chain) \in Nat /\ Links = 1..Len(chain)
  BY DEF TypeOK, Links
<1>2. \A i \in Links : chain[i] \in LinkType
  BY <1>1 DEF TypeOK
<1> QED BY <1>1, <1>2 DEF LinkType, Offers, Reversals, Receipts

\* What is sound stays so, as links and paper taken only get more.
LEMMA SoundStays ==
  ASSUME IInv, NEW l, Sound(l), taken \subseteq taken',
         Offers \subseteq Offers', Links \subseteq Links',
         \A i \in Links : chain'[i] = chain[i]
  PROVE  Sound(l)'
<1>1. Offers \subseteq Links
  BY LinkFields DEF IInv
<1>2. Fits(l)'
  BY <1>1 DEF Sound, Fits
<1>3. Follows(l)'
  BY DEF Sound, Follows, Up
<1> QED BY <1>2, <1>3 DEF Sound

\* What commands are about stays: offers and paper taken only get more.
LEMMA CommandsStay ==
  ASSUME Offers \subseteq Offers', taken \subseteq taken'
  PROVE  AfterType \subseteq AfterType' /\ CommandType \subseteq CommandType'
<1>1. AfterType \subseteq AfterType'
  BY DEF AfterType, Idle
<1>2. /\ [at : {"prompt"}, of : Offers] \subseteq [at : {"prompt"}, of : Offers']
      /\ [at : {"due"}, kind : {"reversal"}, of : Offers, then : AfterType]
           \subseteq [at : {"due"}, kind : {"reversal"}, of : Offers', then : AfterType']
      /\ [at : {"due"}, kind : {"receipt"}, of : taken, then : AfterType]
           \subseteq [at : {"due"}, kind : {"receipt"}, of : taken', then : AfterType']
      /\ [at : {"link"}, link : LinkType, then : AfterType]
           \subseteq [at : {"link"}, link : LinkType, then : AfterType']
  BY <1>1
<1>3. LinkType' = LinkType
  BY DEF LinkType
<1> QED BY <1>1, <1>2, <1>3 DEF CommandType

LEMMA InitHolds ==
  ASSUME Init
  PROVE  IInv
<1>1. Len(chain) = 0 /\ Links = {} /\ Len(answers) = 0
  BY DEF Init, Links
<1>2. chain \in Seq(LinkType) /\ answers \in Seq({"none", "accepted", "refused"})
  BY DEF Init
<1>3. command \in [Commands -> CommandType]
  BY DEF Init, CommandType, AfterType
<1>4. TypeOK
  BY <1>1, <1>2, <1>3 DEF Init, TypeOK
<1>5. \A p \in Commands : command[p].at # "link"
  BY DEF Init, Idle
<1> QED BY <1>1, <1>4, <1>5 DEF IInv

\* A step that leaves the chain alone.
LEMMA ChainStays ==
  ASSUME IInv, chain' = chain
  PROVE  /\ Links' = Links /\ Offers' = Offers
         /\ Reversals' = Reversals /\ Receipts' = Receipts
BY DEF Links, Offers, Reversals, Receipts

\* A command goes on to a step it may be at, the chain being left alone.
LEMMA CommandSteps ==
  ASSUME IInv, NEW p \in Commands, NEW step, Do(p, step),
         now' = now, chain' = chain, answers' = answers,
         known' \subseteq Offers, taken \subseteq taken', taken' \subseteq Offers,
         step \in CommandType', step.at = "link" => Sound(step.link)
  PROVE  IInv'
<1>1. /\ TypeOK /\ command \in [Commands -> CommandType] /\ crossed \in BOOLEAN
      /\ command' = [command EXCEPT ![p] = step] /\ crossed' \in BOOLEAN
  BY DEF IInv, TypeOK, Do
<1>2. Links' = Links /\ Offers' = Offers
  BY ChainStays
<1>3. CommandType \subseteq CommandType'
  BY <1>2, CommandsStay
<1>4. command' \in [Commands -> CommandType']
  BY <1>1, <1>3
<1>5. TypeOK'
  BY <1>1, <1>2, <1>4 DEF TypeOK, LinkType
<1>6. \A l : Sound(l) => Sound(l)'
  BY <1>2, SoundStays
<1>7. \A i \in Links' : Sound(chain[i])'
  BY <1>2, <1>6 DEF IInv
<1>8. ASSUME NEW q \in Commands, command'[q].at = "link"
      PROVE  Sound(command[q].link)'
  <2>1. CASE q = p
    <3>1. command'[q] = step
      BY <1>1, <2>1
    <3>2. PICK l : l = step.link
      OBVIOUS
    <3>3. Sound(l)'
      BY <1>6, <1>8, <3>1, <3>2
    <3> QED BY <3>1, <3>2, <3>3
  <2>2. CASE q # p
    <3>1. command'[q] = command[q]
      BY <1>1, <2>2
    <3>2. PICK l : l = command[q].link
      OBVIOUS
    <3>3. Sound(l)'
      BY <1>6, <1>8, <3>1, <3>2 DEF IInv
    <3> QED BY <3>1, <3>2, <3>3
  <2> QED BY <2>1, <2>2
<1> QED BY <1>5, <1>7, <1>8 DEF IInv

\* Neither commands nor the chain change.
LEMMA OthersStep ==
  ASSUME IInv, chain' = chain, command' = command, known' = known, taken' = taken,
         crossed' = crossed, now' \in Nat,
         answers' \in Seq({"none", "accepted", "refused"}), Len(answers') = Len(answers)
  PROVE  IInv'
<1>1. /\ TypeOK /\ command \in [Commands -> CommandType]
  BY DEF IInv, TypeOK
<1>2. Links' = Links /\ Offers' = Offers
  BY ChainStays
<1>3. CommandType \subseteq CommandType'
  BY <1>2, CommandsStay
<1>4. command' \in [Commands -> CommandType']
  BY <1>1, <1>3
<1>5. TypeOK'
  BY <1>1, <1>2, <1>4 DEF TypeOK, LinkType
<1>6. \A l : Sound(l) => Sound(l)'
  BY <1>2, SoundStays
<1> QED BY <1>2, <1>5, <1>6 DEF IInv

\* The link made after the thread was read is sound.
LEMMA ReadIsSound ==
  ASSUME IInv, NEW p \in Commands, NEW kind \in {"offer", "reversal", "receipt"},
         NEW of \in Nat, NEW units \in Nat, NEW until \in Nat, NEW then \in AfterType,
         kind # "offer" => of \in Offers /\ units = chain[of].units,
         kind = "receipt" => of \in taken,
         ReadFor(p, kind, of, units, until, then),
         now' = now, chain' = chain, answers' = answers, known' = known, taken' = taken
  PROVE  IInv'
<1>1. PICK thread, l :
        /\ thread \in ThreadStates
        /\ l = [kind |-> kind, branch |-> p, of |-> of, units |-> units, until |-> until,
                seq |-> thread.seq,
                debt |-> thread.debt + (IF kind = "offer" THEN -units ELSE units)]
        /\ Do(p, [at |-> "link", link |-> l, then |-> then])
  BY DEF ReadFor
<1>2. /\ l.kind = kind /\ l.of = of /\ l.units = units /\ l.seq = thread.seq
      /\ l.debt = thread.debt + (IF kind = "offer" THEN -units ELSE units)
      /\ Up(l) = IF kind = "offer" THEN -units ELSE units
  BY <1>1 DEF Up
<1>3. /\ Offers \subseteq Links
      /\ \A i \in Links : chain[i].seq \in Nat /\ chain[i].debt \in Int
  BY LinkFields DEF IInv
<1>4. CASE Links = {}
  <2>1. thread.seq = 0 /\ thread.debt = 0
    BY <1>1, <1>4 DEF ThreadStates
  <2>2. l \in LinkType
    BY <1>1, <2>1 DEF LinkType
  <2>3. Sound(l)
    BY <1>2, <1>3, <1>4, <2>1 DEF Sound, Fits, Follows
  <2>4. [at |-> "link", link |-> l, then |-> then] \in CommandType'
    <3>1. [at |-> "link", link |-> l, then |-> then] \in CommandType
      BY <2>2 DEF CommandType
    <3> QED BY <3>1, ChainStays, CommandsStay
  <2>5. PICK step : step = [at |-> "link", link |-> l, then |-> then]
    OBVIOUS
  <2>6. known' \subseteq Offers /\ taken' \subseteq Offers
    BY DEF IInv, TypeOK
  <2> QED BY <1>1, <2>3, <2>4, <2>5, <2>6, CommandSteps
<1>5. CASE Links # {}
  <2>1. PICK j \in Newest : thread.seq = chain[j].seq + 1 /\ thread.debt = chain[j].debt
    BY <1>1, <1>5 DEF ThreadStates
  <2>2. j \in Links /\ \A i \in Links : chain[i].seq <= chain[j].seq
    BY <2>1 DEF Newest
  <2>3. l \in LinkType
    BY <1>1, <1>3, <2>1, <2>2 DEF LinkType
  <2>4. Follows(l)
    BY <1>2, <2>1, <2>2 DEF Follows
  <2>5. Fits(l)
    BY <1>2, <1>3, <2>1, <2>2 DEF Fits
  <2>6. [at |-> "link", link |-> l, then |-> then] \in CommandType'
    <3>1. [at |-> "link", link |-> l, then |-> then] \in CommandType
      BY <2>3 DEF CommandType
    <3> QED BY <3>1, ChainStays, CommandsStay
  <2>7. PICK step : step = [at |-> "link", link |-> l, then |-> then]
    OBVIOUS
  <2>8. known' \subseteq Offers /\ taken' \subseteq Offers
    BY DEF IInv, TypeOK
  <2> QED BY <1>1, <2>4, <2>5, <2>6, <2>7, <2>8, CommandSteps DEF Sound
<1> QED BY <1>4, <1>5

\* A link more.
LEMMA ChainGrows ==
  ASSUME IInv, NEW p \in Commands, Store(p)
  PROVE  /\ command[p].link \in LinkType /\ command[p].then \in AfterType
         /\ Len(chain) \in Nat /\ Len(chain') = Len(chain) + 1
         /\ chain' \in Seq(LinkType)
         /\ \A i \in Links : chain'[i] = chain[i]
         /\ chain'[Len(chain) + 1] = command[p].link
         /\ Links' = Links \cup {Len(chain) + 1} /\ Len(chain) + 1 \notin Links
         /\ Offers \subseteq Offers'
<1> DEFINE n == Len(chain)
<1>1. PICK l : l = command[p].link
  OBVIOUS
<1>2. command[p] \in CommandType /\ command[p].at = "link"
  BY DEF IInv, TypeOK, Store
<1>3. l \in LinkType /\ command[p].then \in AfterType
  BY <1>1, <1>2 DEF CommandType, AfterType, Idle
<1>4. chain \in Seq(LinkType) /\ n \in Nat /\ Links = 1..n
  BY LinkFields DEF IInv, TypeOK
<1>5. chain' = Append(chain, l)
  BY <1>1 DEF Store
<1>6. /\ chain' \in Seq(LinkType) /\ Len(chain') = n + 1
      /\ \A i \in 1..n : chain'[i] = chain[i]
      /\ chain'[n + 1] = l
  BY <1>3, <1>4, <1>5
<1>7. Links' = 1..n + 1 /\ Links' = Links \cup {n + 1} /\ n + 1 \notin Links
  BY <1>4, <1>6 DEF Links
<1>8. Offers \subseteq Offers'
  BY <1>4, <1>6, <1>7 DEF Offers
<1> QED BY <1>1, <1>3, <1>4, <1>6, <1>7, <1>8

LEMMA StoreHolds ==
  ASSUME IInv, NEW p \in Commands, Store(p)
  PROVE  IInv'
<1> DEFINE n == Len(chain)
<1>1. PICK l, then : l = command[p].link /\ then = command[p].then
  OBVIOUS
<1>2. /\ l \in LinkType /\ then \in AfterType
      /\ n \in Nat /\ Len(chain') = n + 1 /\ chain' \in Seq(LinkType)
      /\ \A i \in Links : chain'[i] = chain[i]
      /\ chain'[n + 1] = l
      /\ Links' = Links \cup {n + 1} /\ n + 1 \notin Links
      /\ Offers \subseteq Offers'
  BY <1>1, ChainGrows
<1>3. /\ command[p].at = "link" /\ answers' = Append(answers, "none") /\ Do(p, then)
      /\ now' = now /\ known' = known /\ taken' = taken
  BY <1>1 DEF Store
<1>4. /\ TypeOK /\ command \in [Commands -> CommandType]
      /\ command' = [command EXCEPT ![p] = then] /\ crossed' \in BOOLEAN
  BY <1>3 DEF IInv, TypeOK, Do
<1>5. \A k : Sound(k) => Sound(k)'
  BY <1>2, <1>3, SoundStays
<1>6. AfterType \subseteq AfterType' /\ CommandType \subseteq CommandType'
  BY <1>2, <1>3, CommandsStay
<1>7. command' \in [Commands -> CommandType']
  <2>1. then \in CommandType'
    BY <1>2, <1>6 DEF CommandType
  <2> QED BY <1>4, <1>6, <2>1
<1>8. answers' \in Seq({"none", "accepted", "refused"}) /\ Len(answers') = Len(chain')
  <2>1. answers \in Seq({"none", "accepted", "refused"}) /\ Len(answers) = n
    BY <1>4 DEF TypeOK
  <2> QED BY <1>2, <1>3, <2>1
<1>9. TypeOK'
  <2>1. now' \in Nat /\ known' \subseteq Offers' /\ taken' \subseteq Offers'
    BY <1>2, <1>3, <1>4 DEF TypeOK
  <2>2. chain' \in Seq(LinkType')
    BY <1>2 DEF LinkType
  <2> QED BY <1>4, <1>7, <1>8, <2>1, <2>2 DEF TypeOK
<1>10. ASSUME NEW i \in Links'
       PROVE  Sound(chain[i])'
  <2>1. PICK k : k = chain'[i]
    OBVIOUS
  <2>2. Sound(k)
    <3>1. CASE i \in Links
      BY <1>2, <2>1, <3>1 DEF IInv
    <3>2. CASE i = n + 1
      BY <1>1, <1>2, <1>3, <2>1, <3>2 DEF IInv
    <3> QED BY <1>2, <1>10, <3>1, <3>2
  <2>3. Sound(k)'
    BY <1>5, <2>2
  <2> QED BY <2>1, <2>3
<1>11. ASSUME NEW q \in Commands, command'[q].at = "link"
       PROVE  Sound(command[q].link)'
  <2>1. q # p
    <3>1. then.at # "link"
      BY <1>2 DEF AfterType, Idle
    <3> QED BY <1>4, <1>11, <3>1
  <2>2. command'[q] = command[q]
    BY <1>4, <2>1
  <2>3. PICK k : k = command[q].link
    OBVIOUS
  <2>4. Sound(k)
    BY <1>11, <2>2, <2>3 DEF IInv
  <2>5. Sound(k)'
    BY <1>5, <2>4
  <2> QED BY <2>2, <2>3, <2>5
<1> QED BY <1>9, <1>10, <1>11 DEF IInv

LEMMA NextHolds ==
  ASSUME IInv, [Next]_vars
  PROVE  IInv'
<1>1. /\ TypeOK /\ command \in [Commands -> CommandType]
      /\ known \subseteq Offers /\ taken \subseteq Offers
      /\ Offers \subseteq Links
      /\ \A i \in Links : i \in Nat /\ chain[i].units \in Nat
  BY LinkFields DEF IInv, TypeOK
<1>2. ASSUME NEW p \in Commands, NEW step, step \in CommandType, step.at # "link", Do(p, step),
             now' = now, chain' = chain, answers' = answers, known' \subseteq Offers,
             taken' = taken
      PROVE  IInv'
  <2>1. step \in CommandType'
    BY <1>2, ChainStays, CommandsStay
  <2> QED BY <1>1, <1>2, <2>1, CommandSteps
<1>3. ASSUME NEW p \in Commands, Offer(p)
      PROVE  IInv'
  <2>1. PICK hours \in Hours : ReadFor(p, "offer", 0, hours, now + Term, Idle)
    BY <1>3 DEF Offer
  <2>2. hours \in Nat /\ now + Term \in Nat /\ Idle \in AfterType
    BY <1>1, EmissionAssumption DEF TypeOK, AfterType
  <2>3. now' = now /\ chain' = chain /\ answers' = answers /\ known' = known /\ taken' = taken
    BY <1>3 DEF Offer
  <2> QED BY <2>1, <2>2, <2>3, ReadIsSound
<1>4. ASSUME NEW p \in Commands, ReadThread(p)
      PROVE  IInv'
  <2>1. PICK kind, of, then :
          /\ kind = command[p].kind /\ of = command[p].of /\ then = command[p].then
    OBVIOUS
  <2>2. /\ command[p].at = "due" /\ ReadFor(p, kind, of, chain[of].units, 0, then)
        /\ now' = now /\ chain' = chain /\ answers' = answers /\ known' = known /\ taken' = taken
    BY <1>4, <2>1 DEF ReadThread
  <2>3. /\ kind \in {"offer", "reversal", "receipt"} /\ of \in Offers /\ then \in AfterType
        /\ kind = "receipt" => of \in taken
    <3>1. command[p] \in CommandType
      BY <1>1
    <3> QED BY <1>1, <2>1, <2>2, <3>1 DEF CommandType, AfterType, Idle
  <2>4. PICK units : units = chain[of].units
    OBVIOUS
  <2>5. of \in Nat /\ units \in Nat
    BY <1>1, <2>3, <2>4
  <2> QED BY <2>2, <2>3, <2>4, <2>5, ReadIsSound
<1>5. ASSUME NEW p \in Commands, NEW d \in Offers, command[p].at = "ask"
      PROVE  Without(p, d) \in AfterType
  <2>1. command[p] \in CommandType
    BY <1>1
  <2>2. command[p] \in [at : {"ask"}, todo : SUBSET Offers, reversed : SUBSET Offers]
    BY <1>5, <2>1 DEF CommandType, AfterType, Idle
  <2>3. [command[p] EXCEPT !.todo = @ \ {d}]
          \in [at : {"ask"}, todo : SUBSET Offers, reversed : SUBSET Offers]
    BY <2>2
  <2> QED BY <2>3 DEF Without, AfterType
<1>6. ASSUME NEW p \in Commands, Status(p)
      PROVE  IInv'
  <2>1. PICK step : step = [at |-> "ask", todo |-> {d \in Offers : Open(d)},
                            reversed |-> {d \in Offers : Open(d) /\ Reversed(d)}]
    OBVIOUS
  <2>2. step \in CommandType /\ step.at # "link"
    BY <2>1 DEF CommandType, AfterType
  <2>3. Do(p, step) /\ UNCHANGED <<now, chain, answers, known, taken>>
    BY <1>6, <2>1 DEF Status
  <2> QED BY <1>1, <1>2, <2>2, <2>3
<1>7. ASSUME NEW p \in Commands, NEW d \in Offers, AskInVain(p, d)
      PROVE  IInv'
  <2>1. PICK step : step = Without(p, d)
    OBVIOUS
  <2>2. command[p].at = "ask" /\ Do(p, step) /\ UNCHANGED <<now, chain, answers, known, taken>>
    BY <1>7, <2>1 DEF AskInVain
  <2>3. step \in CommandType /\ step.at # "link"
    BY <1>5, <2>1, <2>2 DEF CommandType, AfterType, Idle
  <2> QED BY <1>1, <1>2, <2>2, <2>3
<1>8. ASSUME NEW p \in Commands, NEW d \in Offers, Ask(p, d)
      PROVE  IInv'
  <2>1. PICK w : w = Without(p, d)
    OBVIOUS
  <2>2. /\ command[p].at = "ask" /\ known' \subseteq Offers
        /\ UNCHANGED <<now, chain, answers, taken>>
        /\ \/ Do(p, w)
           \/ Do(p, Due("reversal", d, w))
    BY <1>1, <1>8, <2>1 DEF Ask
  <2>3. w \in CommandType /\ w.at # "link"
    BY <1>5, <2>1, <2>2 DEF CommandType, AfterType, Idle
  <2>4. PICK step : step = Due("reversal", d, w)
    OBVIOUS
  <2>5. step \in CommandType /\ step.at # "link"
    BY <1>5, <2>1, <2>2, <2>4 DEF CommandType, Due
  <2> QED BY <1>2, <2>2, <2>3, <2>4, <2>5
<1>9. ASSUME NEW p \in Commands, NEW d \in Offers, Look(p, d)
      PROVE  IInv'
  <2>1. PICK step : step = [at |-> "prompt", of |-> d]
    OBVIOUS
  <2>2. step \in CommandType /\ step.at # "link"
    BY <2>1 DEF CommandType
  <2>3. Do(p, step) /\ UNCHANGED <<now, chain, answers, known, taken>>
    BY <1>9, <2>1 DEF Look
  <2> QED BY <1>1, <1>2, <2>2, <2>3
<1>10. ASSUME NEW p \in Commands, Take(p)
       PROVE  IInv'
  <2>1. PICK d, step : d = command[p].of /\ step = Due("receipt", d, Idle)
    OBVIOUS
  <2>2. /\ command[p].at = "prompt" /\ taken' = taken \cup {d} /\ Do(p, step)
        /\ UNCHANGED <<now, chain, answers, known>>
    BY <1>10, <2>1 DEF Take
  <2>3. d \in Offers
    <3>1. command[p] \in CommandType
      BY <1>1
    <3> QED BY <2>1, <2>2, <3>1 DEF CommandType, AfterType, Idle
  <2>4. step \in CommandType' /\ step.at # "link"
    BY <2>1, <2>2 DEF CommandType, AfterType, Due, Idle
  <2> QED BY <1>1, <2>2, <2>3, <2>4, CommandSteps
<1>11. ASSUME NEW p \in Commands, Stop(p)
       PROVE  IInv'
  <2>1. PICK step : step = Idle
    OBVIOUS
  <2>2. Do(p, step) /\ UNCHANGED <<now, chain, answers, known, taken>>
    BY <1>11, <2>1 DEF Stop
  <2>3. step \in CommandType /\ step.at # "link"
    BY <2>1 DEF CommandType, AfterType, Idle
  <2> QED BY <1>1, <1>2, <2>2, <2>3
<1>12. ASSUME NEW d \in Offers, NEW a \in {"accepted", "refused"}, Answer(d, a)
       PROVE  IInv'
  <2>1. /\ UNCHANGED <<now, chain, command, known, taken, crossed>>
        /\ answers' = [answers EXCEPT ![d] = a]
    BY <1>12 DEF Answer
  <2>2. answers' \in Seq({"none", "accepted", "refused"}) /\ Len(answers') = Len(answers)
    <3>1. PICK A : A = {"none", "accepted", "refused"}
      OBVIOUS
    <3>2. answers \in Seq(A) /\ a \in A
      BY <1>1, <3>1 DEF TypeOK
    <3>3. PICK m \in Nat : m = Len(answers) /\ DOMAIN answers = 1..m
      BY <3>2
    <3>4. answers \in [1..m -> A]
      BY <3>2, <3>3
    <3>5. answers' \in [1..m -> A]
      BY <2>1, <3>2, <3>4
    <3> QED BY <3>1, <3>3, <3>5
  <2>3. now' \in Nat
    BY <1>1, <2>1 DEF TypeOK
  <2> QED BY <2>1, <2>2, <2>3, OthersStep
<1>13. ASSUME Tick
       PROVE  IInv'
  <2>1. now' = now + 1 /\ UNCHANGED <<chain, command, answers, known, taken, crossed>>
    BY <1>13 DEF Tick
  <2>2. /\ now' \in Nat /\ answers' \in Seq({"none", "accepted", "refused"})
        /\ Len(answers') = Len(answers)
    BY <1>1, <2>1 DEF TypeOK
  <2> QED BY <2>1, <2>2, OthersStep
<1>14. CASE UNCHANGED vars
  <2>1. UNCHANGED <<now, chain, command, answers, known, taken, crossed>>
    BY <1>14 DEF vars
  <2>2. /\ now' \in Nat /\ answers' \in Seq({"none", "accepted", "refused"})
        /\ Len(answers') = Len(answers)
    BY <1>1, <2>1 DEF TypeOK
  <2> QED BY <2>1, <2>2, OthersStep
<1>15. ASSUME NEW p \in Commands, Store(p)
       PROVE  IInv'
  BY <1>15, StoreHolds
<1> QED BY <1>3, <1>4, <1>6, <1>7, <1>8, <1>9, <1>10, <1>11, <1>12, <1>13, <1>14, <1>15
        DEF Next

\* Whatever two commands do to each other, each link names an offer of a lower
\* number with its hours, and declares the debt that follows from a link of the
\* number before it.
THEOREM Invariance == Spec => []IInv
<1>1. Init => IInv
  BY InitHolds
<1>2. IInv /\ [Next]_vars => IInv'
  BY NextHolds
<1> QED BY <1>1, <1>2, PTL DEF Spec

-----------------------------------------------------------------------------
(* While no two commands are in each other's way.                          *)

\* A command has a link of that kind to write.
Owes(c, kind) == \/ c.at = "due" /\ c.kind = kind
                 \/ c.at = "link" /\ c.link.kind = kind

OfOwed(c) == IF c.at = "due" THEN c.of ELSE c.link.of

\* The offers a command still asks about and does not know to be reversed are
\* not reversed.
Fresh(c) == c.at = "ask" => \A d \in c.todo : Reversed(d) => d \in c.reversed

\* What holds of a command nobody was in the way of.
Alone(c) ==
  /\ c.at = "link" => c.link.seq = Len(chain)
  /\ Fresh(c)
  /\ Owes(c, "reversal") => /\ ~Reversed(OfOwed(c)) /\ Fresh(c.then)
                            /\ c.then.at = "ask" => OfOwed(c) \notin c.then.todo
  /\ Owes(c, "offer") \/ Owes(c, "receipt") => c.then = Idle
  /\ c.at = "prompt" => c.of \notin taken
  /\ Owes(c, "receipt") => \A r \in Receipts : chain[r].of # OfOwed(c)

\* Two links of a kind other than an offer are about different offers.
Once ==
  \A r, s \in Links :
    r # s /\ chain[r].kind = chain[s].kind /\ chain[r].kind # "offer"
      => chain[r].of # chain[s].of

\* What holds while no two commands were in each other's way.
Apart ==
  /\ \A i \in Links : chain[i].seq = i - 1
  /\ Once
  /\ \A p \in Commands : Alone(command[p])
  /\ \A p, q \in Commands : p # q =>
       /\ ~Cross(command[p], command[q])
       /\ Owes(command[p], "receipt") /\ Owes(command[q], "receipt")
            => OfOwed(command[p]) # OfOwed(command[q])

ApartUnlessCrossed == ~crossed => Apart

LEMMA CrossIsMutual == \A c, e : Cross(c, e) <=> Cross(e, c)
BY DEF Cross

\* A command steps aside from all others.
LEMMA StepsAside ==
  ASSUME IInv, Apart, NEW p \in Commands, NEW step, Do(p, step), ~crossed'
  PROVE  /\ command'[p] = step
         /\ \A q \in Commands : q # p => command'[q] = command[q]
         /\ \A q, r \in Commands : q # r => ~Cross(command'[q], command'[r])
<1>1. command \in [Commands -> CommandType] /\ command' = [command EXCEPT ![p] = step]
  BY DEF IInv, TypeOK, Do
<1>2. \A q \in Commands \ {p} : ~Cross(step, command[q])
  BY DEF Do
<1>3. \A q, r \in Commands : q # r => ~Cross(command[q], command[r])
  BY DEF Apart
<1>4. command'[p] = step /\ \A q \in Commands : q # p => command'[q] = command[q]
  BY <1>1
<1> QED BY <1>2, <1>3, <1>4, CrossIsMutual

\* A step that leaves the chain alone.
LEMMA ApartStays ==
  ASSUME IInv, Apart, NEW p \in Commands, NEW step, Do(p, step), ~crossed', chain' = chain,
         Alone(step)', step.at # "due" => taken' = taken,
         \A q \in Commands : q # p =>
           /\ command[q].at = "prompt" => command[q].of \notin taken'
           /\ Owes(step, "receipt") /\ Owes(command[q], "receipt")
                => OfOwed(step) # OfOwed(command[q])
  PROVE  Apart'
<1>1. /\ command'[p] = step
      /\ \A q \in Commands : q # p => command'[q] = command[q]
      /\ \A q, r \in Commands : q # r => ~Cross(command'[q], command'[r])
  BY StepsAside
<1>2. /\ Links' = Links /\ Reversals' = Reversals /\ Receipts' = Receipts
  BY ChainStays
<1>3. (\A i \in Links : chain[i].seq = i - 1)' /\ Once'
  BY <1>2 DEF Apart, Once
<1>4. ASSUME NEW q \in Commands, q # p
      PROVE  Alone(command[q])'
  <2>1. PICK c : c = command[q]
    OBVIOUS
  <2>2. Alone(c) /\ (c.at = "prompt" => c.of \notin taken')
    BY <1>4, <2>1 DEF Apart
  <2>3. \A d : Reversed(d)' <=> Reversed(d)
    BY <1>2 DEF Reversed
  <2>4. \A e : Fresh(e)' <=> Fresh(e)
    BY <2>3 DEF Fresh
  <2>5. Alone(c)'
    BY <1>2, <2>2, <2>3, <2>4 DEF Alone, Owes, OfOwed
  <2> QED BY <1>1, <1>4, <2>1, <2>5
<1>5. \A q \in Commands : Alone(command[q])'
  BY <1>1, <1>4
<1>6. ASSUME NEW q \in Commands, NEW r \in Commands, q # r,
             Owes(command'[q], "receipt"), Owes(command'[r], "receipt")
      PROVE  OfOwed(command'[q]) # OfOwed(command'[r])
  <2>1. CASE q # p /\ r # p
    BY <1>1, <1>6, <2>1 DEF Apart
  <2>2. CASE q = p \/ r = p
    BY <1>1, <1>6, <2>2
  <2> QED BY <2>1, <2>2
<1>7. (\A q, r \in Commands : q # r =>
       /\ ~Cross(command[q], command[r])
       /\ Owes(command[q], "receipt") /\ Owes(command[r], "receipt")
            => OfOwed(command[q]) # OfOwed(command[r]))'
  <2>1. \A c : Owes(c, "receipt")' = Owes(c, "receipt") /\ OfOwed(c)' = OfOwed(c)
    BY DEF Owes, OfOwed
  <2>2. \A c, e : Cross(c, e)' <=> Cross(c, e)
    BY DEF Cross, Settling
  <2> QED BY <1>1, <1>6, <2>1, <2>2
<1> QED BY <1>3, <1>5, <1>7 DEF Apart

\* The next link goes after the last one.
LEMMA ThreadIsLast ==
  ASSUME IInv, Apart, NEW thread \in ThreadStates
  PROVE  thread.seq = Len(chain)
<1>1. /\ Len(chain) \in Nat /\ Links = 1..Len(chain)
      /\ \A i \in Links : chain[i].seq = i - 1
  BY LinkFields DEF IInv, Apart
<1>2. CASE Links = {}
  <2>1. Len(chain) = 0
    BY <1>1, <1>2
  <2> QED BY <1>2, <2>1 DEF ThreadStates
<1>3. CASE Links # {}
  <2>1. PICK i \in Newest : thread.seq = chain[i].seq + 1
    BY <1>3 DEF ThreadStates
  <2>2. Len(chain) \in Links
    BY <1>1, <1>3
  <2>3. i \in Links /\ chain[Len(chain)].seq <= chain[i].seq
    BY <2>1, <2>2 DEF Newest
  <2> QED BY <1>1, <2>1, <2>2, <2>3
<1> QED BY <1>2, <1>3

\* The thread is read by a command that was alone and owes that link, or begins
\* an offer.
LEMMA ReadApart ==
  ASSUME IInv, Apart, NEW p \in Commands, ~crossed', chain' = chain, taken' = taken,
         NEW kind \in {"offer", "reversal", "receipt"}, NEW of, NEW units, NEW until, NEW then,
         ReadFor(p, kind, of, units, until, then),
         \/ kind = "offer" /\ then = Idle
         \/ /\ Owes(command[p], kind) /\ of = OfOwed(command[p]) /\ then = command[p].then
            /\ kind # "offer"
  PROVE  Apart'
<1>1. PICK thread, step, l :
        /\ thread \in ThreadStates
        /\ l = [kind |-> kind, branch |-> p, of |-> of, units |-> units, until |-> until,
                seq |-> thread.seq,
                debt |-> thread.debt + (IF kind = "offer" THEN -units ELSE units)]
        /\ step = [at |-> "link", link |-> l, then |-> then]
        /\ Do(p, step)
  BY DEF ReadFor
<1>2. /\ step.at = "link" /\ step.link = l /\ step.then = then
      /\ l.kind = kind /\ l.of = of /\ l.seq = Len(chain)
  BY <1>1, ThreadIsLast
<1>3. /\ \A k : Owes(step, k) <=> k = kind
      /\ OfOwed(step) = of
  BY <1>2 DEF Owes, OfOwed
<1>4. Alone(command[p])
  BY DEF Apart
<1>5. /\ Links' = Links /\ Reversals' = Reversals /\ Receipts' = Receipts
  BY ChainStays
<1>6. Alone(step)
  <2>1. kind # "reversal" => then = Idle
    BY <1>4 DEF Alone
  <2>2. kind = "reversal" => /\ ~Reversed(of) /\ Fresh(then)
                             /\ then.at = "ask" => of \notin then.todo
    BY <1>4 DEF Alone
  <2>3. kind = "receipt" => \A r \in Receipts : chain[r].of # of
    BY <1>4 DEF Alone
  <2> QED BY <1>2, <1>3, <2>1, <2>2, <2>3 DEF Alone, Fresh
<1>7. Alone(step)'
  <2>1. \A d : Reversed(d)' <=> Reversed(d)
    BY <1>5 DEF Reversed
  <2>2. \A e : Fresh(e)' <=> Fresh(e)
    BY <2>1 DEF Fresh
  <2> QED BY <1>5, <1>6, <2>1, <2>2 DEF Alone, Owes, OfOwed
<1>8. ASSUME NEW q \in Commands, q # p
      PROVE  /\ command[q].at = "prompt" => command[q].of \notin taken'
             /\ Owes(step, "receipt") /\ Owes(command[q], "receipt")
                  => OfOwed(step) # OfOwed(command[q])
  <2>1. Alone(command[q])
    BY DEF Apart
  <2>2. Owes(step, "receipt") => Owes(command[p], "receipt") /\ OfOwed(step) = OfOwed(command[p])
    BY <1>3
  <2> QED BY <1>8, <2>1, <2>2 DEF Apart, Alone
<1> QED BY <1>1, <1>7, <1>8, ApartStays

LEMMA StoreApart ==
  ASSUME IInv, Apart, NEW p \in Commands, Store(p), ~crossed'
  PROVE  Apart'
<1> DEFINE n == Len(chain)
<1>1. PICK c, l, then : c = command[p] /\ l = c.link /\ then = c.then
  OBVIOUS
<1>2. /\ then \in AfterType
      /\ n \in Nat /\ Len(chain') = n + 1 /\ Links = 1..n
      /\ \A i \in Links : chain'[i] = chain[i]
      /\ chain'[n + 1] = l
      /\ Links' = Links \cup {n + 1} /\ n + 1 \notin Links
  BY <1>1, ChainGrows DEF Links
<1>3. c.at = "link" /\ Do(p, then) /\ taken' = taken
  BY <1>1 DEF Store
<1>4. /\ command'[p] = then
      /\ \A q \in Commands : q # p => command'[q] = command[q]
      /\ \A q, r \in Commands : q # r => ~Cross(command'[q], command'[r])
  BY <1>3, StepsAside
<1>5. Alone(c) /\ l.seq = n
  BY <1>1, <1>3 DEF Apart, Alone
<1>6. /\ \A k : Owes(c, k) <=> l.kind = k
      /\ OfOwed(c) = l.of
  BY <1>1, <1>3 DEF Owes, OfOwed
<1>7. /\ \A d : Reversed(d)' <=> Reversed(d) \/ (l.kind = "reversal" /\ l.of = d)
      /\ \A d : (\E r \in Receipts' : chain'[r].of = d)
                  <=> (\E r \in Receipts : chain[r].of = d) \/ (l.kind = "receipt" /\ l.of = d)
  BY <1>2 DEF Reversed, Reversals, Receipts
<1>8. \A i \in Links' : chain'[i].seq = i - 1
  BY <1>2, <1>5 DEF Apart
<1>9. Once'
  <2>1. ASSUME NEW s \in Links, chain[s].kind = l.kind, l.kind # "offer"
        PROVE  chain[s].of # l.of
    <3>1. l.kind \in {"offer", "reversal", "receipt"}
      BY <2>1, LinkFields DEF IInv
    <3>2. CASE l.kind = "reversal"
      BY <1>5, <1>6, <2>1, <3>2 DEF Alone, Reversed, Reversals
    <3>3. CASE l.kind = "receipt"
      BY <1>5, <1>6, <2>1, <3>3 DEF Alone, Receipts
    <3> QED BY <2>1, <3>1, <3>2, <3>3
  <2>2. ASSUME NEW r \in Links', NEW s \in Links', r # s, chain'[r].kind = chain'[s].kind,
               chain'[r].kind # "offer"
        PROVE  chain'[r].of # chain'[s].of
    <3>1. CASE r \in Links /\ s \in Links
      BY <1>2, <2>2, <3>1 DEF Apart, Once
    <3>2. CASE r = n + 1 /\ s \in Links
      BY <1>2, <2>1, <2>2, <3>2
    <3>3. CASE r \in Links /\ s = n + 1
      BY <1>2, <2>1, <2>2, <3>3
    <3> QED BY <1>2, <2>2, <3>1, <3>2, <3>3
  <2> QED BY <2>2 DEF Once
<1>10. Alone(then)'
  <2>1. then.at \in {"idle", "ask"}
    BY <1>2 DEF AfterType, Idle
  <2>2. Fresh(then)'
    <3>1. CASE l.kind = "reversal"
      <4>1. Fresh(then) /\ (then.at = "ask" => l.of \notin then.todo)
        BY <1>1, <1>5, <1>6, <3>1 DEF Alone
      <4> QED BY <1>7, <4>1 DEF Fresh
    <3>2. CASE l.kind # "reversal"
      <4>1. l.kind \in {"offer", "receipt"}
        BY <1>1, <3>2, ChainGrows DEF LinkType
      <4>2. then = Idle
        BY <1>1, <1>5, <1>6, <4>1 DEF Alone
      <4> QED BY <4>2 DEF Fresh, Idle
    <3> QED BY <3>1, <3>2
  <2> QED BY <2>1, <2>2 DEF Alone, Owes
<1>11. ASSUME NEW q \in Commands, q # p
       PROVE  Alone(command[q])'
  <2>1. PICK e : e = command[q]
    OBVIOUS
  <2>2. /\ Alone(e) /\ ~Cross(c, e)
        /\ Owes(c, "receipt") /\ Owes(e, "receipt") => OfOwed(c) # OfOwed(e)
    BY <1>1, <1>11, <2>1 DEF Apart
  <2>3. e.at # "link"
    BY <1>3, <2>2 DEF Cross
  <2>4. Fresh(e)' /\ (Owes(e, "reversal") => ~Reversed(OfOwed(e))' /\ Fresh(e.then)')
    <3>1. CASE l.kind = "reversal"
      <4>1. ~Settling(e)
        BY <1>1, <1>3, <2>2, <3>1 DEF Cross, Settling
      <4> QED BY <4>1 DEF Settling, Fresh, Owes
    <3>2. CASE l.kind # "reversal"
      <4>1. \A d : Reversed(d)' <=> Reversed(d)
        BY <1>7, <3>2
      <4>2. \A x : Fresh(x)' <=> Fresh(x)
        BY <4>1 DEF Fresh
      <4> QED BY <2>2, <4>1, <4>2 DEF Alone
    <3> QED BY <3>1, <3>2
  <2>5. Owes(e, "receipt") => \A r \in Receipts' : chain'[r].of # OfOwed(e)
    BY <1>6, <1>7, <2>2 DEF Alone
  <2>6. Alone(e)'
    BY <1>3, <2>2, <2>3, <2>4, <2>5 DEF Alone, Owes, OfOwed
  <2> QED BY <1>4, <1>11, <2>1, <2>6
<1>12. \A q \in Commands : Alone(command[q])'
  BY <1>4, <1>10, <1>11
<1>13. ASSUME NEW q \in Commands, NEW r \in Commands, q # r,
              Owes(command'[q], "receipt"), Owes(command'[r], "receipt")
       PROVE  OfOwed(command'[q]) # OfOwed(command'[r])
  <2>1. ~Owes(then, "receipt")
    BY <1>2 DEF AfterType, Idle, Owes
  <2> QED BY <1>4, <1>13, <2>1 DEF Apart
<1>14. (\A q, r \in Commands : q # r =>
       /\ ~Cross(command[q], command[r])
       /\ Owes(command[q], "receipt") /\ Owes(command[r], "receipt")
            => OfOwed(command[q]) # OfOwed(command[r]))'
  <2>1. \A x : Owes(x, "receipt")' = Owes(x, "receipt") /\ OfOwed(x)' = OfOwed(x)
    BY DEF Owes, OfOwed
  <2>2. \A x, y : Cross(x, y)' <=> Cross(x, y)
    BY DEF Cross, Settling
  <2> QED BY <1>4, <1>13, <2>1, <2>2
<1> QED BY <1>8, <1>9, <1>12, <1>14 DEF Apart

LEMMA ApartHolds ==
  ASSUME IInv, ApartUnlessCrossed, [Next]_vars
  PROVE  ApartUnlessCrossed'
<1> SUFFICES ASSUME ~crossed'
             PROVE  Apart'
  BY DEF ApartUnlessCrossed
<1>1. ASSUME ~crossed
      PROVE  Apart
  BY <1>1 DEF ApartUnlessCrossed
<1>2. ASSUME NEW p \in Commands, NEW step, Do(p, step)
      PROVE  Apart
  BY <1>1, <1>2 DEF Do
<1>3. /\ command \in [Commands -> CommandType] /\ taken \subseteq Offers
  BY DEF IInv, TypeOK
<1>4. ASSUME NEW p \in Commands, NEW step, Do(p, step), chain' = chain, taken' = taken,
             Alone(step), ~Owes(step, "receipt")
      PROVE  Apart'
  <2>1. Apart
    BY <1>2, <1>4
  <2>2. Alone(step)'
    <3>1. /\ Links' = Links /\ Reversals' = Reversals /\ Receipts' = Receipts
      BY <1>4, ChainStays
    <3>2. \A d : Reversed(d)' <=> Reversed(d)
      BY <1>4, <3>1 DEF Reversed
    <3>3. \A e : Fresh(e)' <=> Fresh(e)
      BY <3>2 DEF Fresh
    <3> QED BY <1>4, <3>1, <3>2, <3>3 DEF Alone, Owes, OfOwed
  <2>3. \A q \in Commands : command[q].at = "prompt" => command[q].of \notin taken'
    BY <1>4, <2>1 DEF Apart, Alone
  <2> QED BY <1>4, <2>1, <2>2, <2>3, ApartStays
<1>5. ASSUME NEW p \in Commands, Offer(p)
      PROVE  Apart'
  <2>1. PICK hours : ReadFor(p, "offer", 0, hours, now + Term, Idle)
    BY <1>5 DEF Offer
  <2>2. chain' = chain /\ taken' = taken /\ Apart
    BY <1>2, <1>5, <2>1 DEF Offer, ReadFor
  <2> QED BY <2>1, <2>2, ReadApart
<1>6. ASSUME NEW p \in Commands, ReadThread(p)
      PROVE  Apart'
  <2>1. PICK kind, of, then, units :
          /\ kind = command[p].kind /\ of = command[p].of /\ then = command[p].then
          /\ units = chain[of].units
    OBVIOUS
  <2>2. /\ command[p].at = "due" /\ ReadFor(p, kind, of, units, 0, then)
        /\ chain' = chain /\ taken' = taken
    BY <1>6, <2>1 DEF ReadThread
  <2>3. kind \in {"reversal", "receipt"}
    BY <1>3, <2>1, <2>2 DEF CommandType, AfterType, Idle
  <2>4. Owes(command[p], kind) /\ of = OfOwed(command[p])
    BY <2>1, <2>2 DEF Owes, OfOwed
  <2>5. Apart
    BY <1>2, <2>2 DEF ReadFor
  <2> QED BY <2>1, <2>2, <2>3, <2>4, <2>5, ReadApart
<1>7. ASSUME NEW p \in Commands, Store(p)
      PROVE  Apart'
  <2>1. Apart
    BY <1>2, <1>7 DEF Store
  <2> QED BY <1>7, <2>1, StoreApart
<1>8. ASSUME NEW p \in Commands, Status(p)
      PROVE  Apart'
  <2>1. PICK step : step = [at |-> "ask", todo |-> {d \in Offers : Open(d)},
                            reversed |-> {d \in Offers : Open(d) /\ Reversed(d)}]
    OBVIOUS
  <2>2. Do(p, step) /\ chain' = chain /\ taken' = taken
    BY <1>8, <2>1 DEF Status
  <2>3. Alone(step) /\ ~Owes(step, "receipt")
    BY <2>1 DEF Alone, Owes, Fresh
  <2> QED BY <1>4, <2>2, <2>3
<1>9. ASSUME NEW p \in Commands, NEW d, command[p].at = "ask", Fresh(command[p])
      PROVE  /\ Fresh(Without(p, d)) /\ Without(p, d).at \in {"idle", "ask"}
             /\ Without(p, d).at = "ask" => d \notin Without(p, d).todo
  <2>1. CASE command[p].todo = {d}
    BY <2>1 DEF Without, Fresh, Idle
  <2>2. CASE command[p].todo # {d}
    <3>1. PICK c, w : c = command[p] /\ w = [c EXCEPT !.todo = @ \ {d}]
      OBVIOUS
    <3>2. c \in [at : {"ask"}, todo : SUBSET Offers, reversed : SUBSET Offers]
      BY <1>3, <1>9, <3>1 DEF CommandType, AfterType, Idle
    <3>3. /\ w.at = "ask" /\ w.todo = c.todo \ {d} /\ w.reversed = c.reversed
      BY <3>1, <3>2
    <3>4. Without(p, d) = w
      BY <2>2, <3>1 DEF Without
    <3> QED BY <1>9, <3>1, <3>3, <3>4 DEF Fresh
  <2> QED BY <2>1, <2>2
<1>10. ASSUME NEW p \in Commands, NEW d, AskInVain(p, d)
       PROVE  Apart'
  <2>1. PICK step : step = Without(p, d)
    OBVIOUS
  <2>2. command[p].at = "ask" /\ Do(p, step) /\ chain' = chain /\ taken' = taken
    BY <1>10, <2>1 DEF AskInVain
  <2>3. Fresh(command[p])
    BY <1>2, <2>2 DEF Apart, Alone
  <2>4. Alone(step) /\ ~Owes(step, "receipt")
    BY <1>9, <2>1, <2>2, <2>3 DEF Alone, Owes
  <2> QED BY <1>4, <2>2, <2>4
<1>11. ASSUME NEW p \in Commands, NEW d, Ask(p, d)
       PROVE  Apart'
  <2>1. PICK w, due : w = Without(p, d) /\ due = Due("reversal", d, w)
    OBVIOUS
  <2>2. /\ command[p].at = "ask" /\ d \in command[p].todo /\ chain' = chain /\ taken' = taken
        /\ \/ Do(p, w)
           \/ Do(p, due) /\ d \notin command[p].reversed
    BY <1>11, <2>1 DEF Ask, ToReverse
  <2>3. Fresh(command[p])
    BY <1>2, <2>2 DEF Apart, Alone
  <2>4. Alone(w) /\ ~Owes(w, "receipt")
    BY <1>9, <2>1, <2>2, <2>3 DEF Alone, Owes
  <2>5. ASSUME d \notin command[p].reversed
        PROVE  Alone(due) /\ ~Owes(due, "receipt")
    <3>1. ~Reversed(d)
      BY <2>2, <2>3, <2>5 DEF Fresh
    <3>2. Fresh(w) /\ (w.at = "ask" => d \notin w.todo)
      BY <1>9, <2>1, <2>2, <2>3
    <3>3. /\ due.at = "due" /\ due.kind = "reversal" /\ due.of = d /\ due.then = w
      BY <2>1 DEF Due
    <3> QED BY <3>1, <3>2, <3>3 DEF Alone, Owes, OfOwed, Fresh
  <2> QED BY <1>4, <2>2, <2>4, <2>5
<1>12. ASSUME NEW p \in Commands, NEW d, Look(p, d)
       PROVE  Apart'
  <2>1. PICK step : step = [at |-> "prompt", of |-> d]
    OBVIOUS
  <2>2. Do(p, step) /\ chain' = chain /\ taken' = taken /\ d \notin taken
    BY <1>12, <2>1 DEF Look, Payments
  <2>3. Alone(step) /\ ~Owes(step, "receipt")
    BY <2>1, <2>2 DEF Alone, Owes, Fresh
  <2> QED BY <1>4, <2>2, <2>3
<1>13. ASSUME NEW p \in Commands, Take(p)
       PROVE  Apart'
  <2>1. PICK d, step : d = command[p].of /\ step = Due("receipt", d, Idle)
    OBVIOUS
  <2>2. command[p].at = "prompt" /\ Do(p, step) /\ chain' = chain /\ taken' = taken \cup {d}
    BY <1>13, <2>1 DEF Take
  <2>3. /\ step.at = "due" /\ step.kind = "receipt" /\ step.of = d /\ step.then = Idle
    BY <2>1 DEF Due
  <2>4. Apart /\ d \notin taken
    BY <1>2, <2>1, <2>2 DEF Apart, Alone
  <2>5. \A r \in Receipts : chain[r].of # d
    <3>1. \A r \in Receipts : r \in Links /\ chain[r].kind = "receipt"
      BY DEF Receipts
    <3> QED BY <2>4, <3>1 DEF IInv, Sound, Fits
  <2>6. Alone(step)'
    <3>1. Receipts' = Receipts
      BY <2>2, ChainStays
    <3> QED BY <2>2, <2>3, <2>5, <3>1 DEF Alone, Owes, OfOwed, Fresh
  <2>7. ASSUME NEW q \in Commands, q # p
        PROVE  /\ command[q].at = "prompt" => command[q].of \notin taken'
               /\ Owes(step, "receipt") /\ Owes(command[q], "receipt")
                    => OfOwed(step) # OfOwed(command[q])
    <3>1. command[q] \in CommandType /\ command[p] \in CommandType
      BY <1>3
    <3>2. ASSUME command[q].at = "prompt"
          PROVE  command[q].of \notin taken'
      <4>1. command[q].of \notin taken /\ ~Cross(command[p], command[q])
        BY <2>4, <2>7, <3>2 DEF Apart, Alone
      <4>2. /\ command[p] \in [at : {"prompt"}, of : Offers]
            /\ command[q] \in [at : {"prompt"}, of : Offers]
        BY <2>2, <3>1, <3>2 DEF CommandType, AfterType, Idle
      <4>3. command[q].of # d
        BY <2>1, <2>2, <4>1, <4>2 DEF Cross
      <4> QED BY <2>2, <4>1, <4>3
    <3>3. ASSUME Owes(command[q], "receipt")
          PROVE  OfOwed(step) # OfOwed(command[q])
      <4>1. OfOwed(command[q]) \in taken
        <5>1. CASE command[q].at = "due"
          BY <3>1, <3>3, <5>1 DEF CommandType, AfterType, Idle, Owes, OfOwed
        <5>2. CASE command[q].at = "link"
          <6>1. Sound(command[q].link) /\ command[q].link.kind = "receipt"
            BY <3>3, <5>2 DEF IInv, Owes
          <6> QED BY <5>2, <6>1 DEF Sound, Fits, OfOwed
        <5> QED BY <3>3, <5>1, <5>2 DEF Owes
      <4>2. OfOwed(step) = d
        BY <2>3 DEF OfOwed
      <4> QED BY <2>4, <4>1, <4>2
    <3> QED BY <3>2, <3>3
  <2> QED BY <2>2, <2>3, <2>4, <2>6, <2>7, ApartStays
<1>14. ASSUME NEW p \in Commands, Stop(p)
       PROVE  Apart'
  <2>1. PICK step : step = Idle
    OBVIOUS
  <2>2. Do(p, step) /\ chain' = chain /\ taken' = taken
    BY <1>14, <2>1 DEF Stop
  <2>3. Alone(step) /\ ~Owes(step, "receipt")
    BY <2>1 DEF Alone, Owes, Fresh, Idle
  <2> QED BY <1>4, <2>2, <2>3
<1>15. ASSUME chain' = chain, command' = command, taken' = taken, crossed' = crossed
       PROVE  Apart'
  BY <1>1, <1>15 DEF Apart, Alone, Once, Fresh, Reversed, Reversals, Receipts, Links, Cross,
                     Settling, Owes, OfOwed
<1>16. ASSUME NEW d \in Offers, NEW a \in {"accepted", "refused"}, Answer(d, a)
       PROVE  Apart'
  BY <1>15, <1>16 DEF Answer
<1>17. ASSUME Tick
       PROVE  Apart'
  BY <1>15, <1>17 DEF Tick
<1>18. CASE UNCHANGED vars
  BY <1>15, <1>18 DEF vars
<1> QED BY <1>5, <1>6, <1>7, <1>8, <1>10, <1>11, <1>12, <1>13, <1>14, <1>16, <1>17, <1>18
        DEF Next

\* While no two commands were in each other's way the links are numbered in the
\* order they were stored, no two reversals and no two receipts are about one
\* offer, and what is under way keeps it so.
THEOREM Apartness == Spec => []ApartUnlessCrossed
<1>1. Init => ApartUnlessCrossed
  <2> SUFFICES ASSUME Init
               PROVE  Apart
    BY DEF ApartUnlessCrossed
  <2>1. Links = {}
    BY DEF Init, Links
  <2>2. \A p \in Commands : command[p] = Idle
    BY DEF Init
  <2>3. Alone(Idle) /\ ~Owes(Idle, "receipt") /\ ~Cross(Idle, Idle)
    BY DEF Alone, Fresh, Owes, Idle, Cross, Settling
  <2> QED BY <2>1, <2>2, <2>3 DEF Apart, Once
<1>2. IInv /\ ApartUnlessCrossed /\ [Next]_vars => ApartUnlessCrossed'
  BY ApartHolds
<1> QED BY <1>1, <1>2, Invariance, PTL DEF Spec

-----------------------------------------------------------------------------
(* Sums of hours, link by link and set by set.                             *)

LEMMA SumFacts ==
  ASSUME IInv, NEW h, Sums(h)
  PROVE  /\ h[{}] = 0
         /\ \A S \in SUBSET Links : h[S] \in Nat
<1>1. /\ IsFiniteSet(Links) /\ Units \in [Links -> Nat] /\ Adder(Units, h, Links)
  BY SumsExist DEF IInv, Sums
<1>2. h[{}] = 0
  BY <1>1 DEF Adder
<1>3. ASSUME NEW S \in SUBSET Links
      PROVE  h[S] \in Nat
  <2>1. S \in SUBSET S
    OBVIOUS
  <2> QED BY <1>1, <2>1, SumGrows
<1> QED BY <1>2, <1>3

LEMMA SumMore ==
  ASSUME IInv, NEW h, Sums(h)
  PROVE  \A S \in SUBSET Links : \A x \in Links \ S : h[S \cup {x}] = h[S] + chain[x].units
<1>1. IsFiniteSet(Links) /\ Units \in [Links -> Nat] /\ Adder(Units, h, Links)
  BY SumsExist DEF IInv, Sums
<1>2. ASSUME NEW S \in SUBSET Links, NEW x \in Links \ S
      PROVE  h[S \cup {x}] = h[S] + chain[x].units
  <2>1. Units \in [Links -> Int] /\ Units[x] = chain[x].units
    BY <1>1 DEF Units
  <2>2. h[S \cup {x}] = h[S] + Units[x]
    BY <1>1, <2>1, AdderAdds
  <2> QED BY <2>1, <2>2
<1> QED BY <1>2

LEMMA SumOfTwo ==
  ASSUME IInv, NEW h, Sums(h), NEW S \in SUBSET Links, NEW T \in SUBSET Links,
         S \cap T = {}
  PROVE  h[S \cup T] = h[S] + h[T]
<1>1. IsFiniteSet(Links) /\ Units \in [Links -> Nat] /\ Adder(Units, h, Links)
  BY SumsExist DEF IInv, Sums
<1>2. Units \in [Links -> Int]
  BY <1>1
<1> QED BY <1>1, <1>2, SumSplit

-----------------------------------------------------------------------------
(* The thread up to a number.                                              *)

\* The links of a number below n, those of one kind among them and the offers
\* these name.
Below(n) == {i \in Links : chain[i].seq < n}

OfKind(K, n) == {r \in Below(n) : chain[r].kind = K}

Named(K, n) == {d \in Offers : \E r \in OfKind(K, n) : chain[r].of = d}

LEMMA BelowFacts ==
  ASSUME IInv, NEW n \in Nat
  PROVE  /\ Below(n) \subseteq Links
         /\ \A K : OfKind(K, n) \subseteq Links
         /\ \A i \in Below(n) : chain[i].seq \in Nat /\ chain[i].seq + 1 \in 0..n
         /\ \A m \in 0..n : Below(m) \subseteq Below(n)
         /\ \A K : \A m \in 0..n : OfKind(K, m) \subseteq OfKind(K, n)
         /\ \A i \in Below(n) : Before(i, Below(n)) = Below(chain[i].seq + 1)
<1>1. \A i \in Links : chain[i].seq \in Nat
  BY LinkFields DEF IInv
<1> QED BY <1>1 DEF Below, OfKind, Before

\* In an unforked part of the thread one link more has the next number.
LEMMA OneMore ==
  ASSUME IInv, NEW n \in Nat, ~Forked(Below(n)), NEW i \in Below(n), NEW K
  PROVE  /\ OfKind(K, chain[i].seq + 1) =
              (IF chain[i].kind = K THEN OfKind(K, chain[i].seq) \cup {i}
                                    ELSE OfKind(K, chain[i].seq))
         /\ i \notin OfKind(K, chain[i].seq)
<1>1. /\ \A j \in Links : chain[j].seq \in Nat
      /\ i \in Links /\ chain[i].seq < n
  BY LinkFields DEF IInv, Below
<1>2. \A j \in Links : chain[j].seq < chain[i].seq + 1 <=> chain[j].seq < chain[i].seq \/ j = i
  <2>1. \A j \in Links : chain[j].seq = chain[i].seq => j = i
    BY <1>1 DEF Forked, Below
  <2> QED BY <1>1, <2>1
<1>3. Below(chain[i].seq + 1) = Below(chain[i].seq) \cup {i} /\ i \notin Below(chain[i].seq)
  BY <1>1, <1>2 DEF Below
<1> QED BY <1>3 DEF OfKind

\* There the debt declared in a link is what all links up to it add up to.
LEMMA DebtIsSum ==
  ASSUME IInv, NEW h, Sums(h), NEW n \in Nat, ~Forked(Below(n)), NEW i \in Below(n)
  PROVE  chain[i].debt = h[OfKind("reversal", chain[i].seq + 1)]
                         + h[OfKind("receipt", chain[i].seq + 1)]
                         - h[OfKind("offer", chain[i].seq + 1)]
<1> DEFINE D(m) == h[OfKind("reversal", m)] + h[OfKind("receipt", m)] - h[OfKind("offer", m)]
           In == {m \in 0..n : \A j \in Below(n) : chain[j].seq + 1 = m => chain[j].debt = D(m)}
<1>1. /\ Below(n) \subseteq Links
      /\ \A j \in Links : /\ chain[j].kind \in {"offer", "reversal", "receipt"}
                          /\ chain[j].units \in Nat /\ chain[j].debt \in Int
                          /\ chain[j].seq \in Nat
  BY LinkFields, BelowFacts DEF IInv
<1>2. h[{}] = 0 /\ \A S \in SUBSET Links : h[S] \in Nat
  BY SumFacts
<1>3. \A K, m : OfKind(K, m) \in SUBSET Links
  BY DEF OfKind, Below
<1>4. 0 \in In
  BY <1>1
<1>5. ASSUME NEW m \in 0..n - 1, m \in In
      PROVE  m + 1 \in In
  <2>1. m \in Nat /\ m + 1 \in 0..n
    OBVIOUS
  <2>2. SUFFICES ASSUME NEW j \in Below(n), chain[j].seq + 1 = m + 1
                 PROVE  chain[j].debt = D(m + 1)
    BY <2>1
  <2>3. chain[j].seq = m /\ j \in Links
    BY <1>1, <2>1, <2>2
  <2>4. PICK u, kind : u = chain[j].units /\ kind = chain[j].kind
    OBVIOUS
  <2>5. u \in Nat /\ kind \in {"offer", "reversal", "receipt"}
    BY <1>1, <2>3, <2>4
  <2>6. PICK d \in Int : d = D(m) /\ chain[j].debt = d + (IF kind = "offer" THEN -u ELSE u)
    <3>1. Follows(chain[j])
      BY <2>3 DEF IInv, Sound
    <3>2. CASE m = 0
      <4>1. \A K : OfKind(K, 0) = {}
        BY <1>1 DEF OfKind, Below
      <4>2. D(0) = 0
        <5>1. \A K : h[OfKind(K, 0)] = 0
          BY <1>2, <4>1
        <5>2. /\ h[OfKind("reversal", 0)] = 0
              /\ h[OfKind("receipt", 0)] = 0
              /\ h[OfKind("offer", 0)] = 0
          BY <5>1
        <5> QED BY <5>2
      <4>3. chain[j].debt = 0 + (IF kind = "offer" THEN -u ELSE u)
        BY <1>1, <2>3, <2>4, <2>5, <3>1, <3>2 DEF Follows, Up
      <4> QED BY <3>2, <4>2, <4>3
    <3>3. CASE m # 0
      <4>1. PICK k \in Links : /\ chain[j].seq = chain[k].seq + 1
                               /\ chain[j].debt = chain[k].debt + Up(chain[j])
        BY <2>3, <3>1, <3>3 DEF Follows
      <4>2. k \in Below(n) /\ chain[k].seq + 1 = m
        BY <1>1, <2>1, <2>3, <4>1 DEF Below
      <4>3. chain[k].debt = D(m) /\ chain[k].debt \in Int
        BY <1>1, <1>5, <4>1, <4>2
      <4> QED BY <2>4, <4>1, <4>3 DEF Up
    <3> QED BY <3>2, <3>3
  <2>7. ASSUME NEW K
        PROVE  h[OfKind(K, m + 1)] = h[OfKind(K, m)] + (IF kind = K THEN u ELSE 0)
    <3>1. PICK S : S = OfKind(K, m)
      OBVIOUS
    <3>2. S \in SUBSET Links /\ j \in Links \ S /\ h[S] \in Nat
      BY <1>2, <1>3, <2>3, <3>1, OneMore
    <3>3. OfKind(K, m + 1) = IF kind = K THEN S \cup {j} ELSE S
      BY <2>3, <2>4, <3>1, OneMore
    <3>4. h[S \cup {j}] = h[S] + u
      BY <2>4, <3>2, SumMore
    <3> QED BY <3>1, <3>2, <3>3, <3>4
  <2>8. PICK a, b, c : /\ a = h[OfKind("offer", m)]
                       /\ b = h[OfKind("reversal", m)]
                       /\ c = h[OfKind("receipt", m)]
    OBVIOUS
  <2>9. /\ h[OfKind("offer", m + 1)] = a + (IF kind = "offer" THEN u ELSE 0)
        /\ h[OfKind("reversal", m + 1)] = b + (IF kind = "reversal" THEN u ELSE 0)
        /\ h[OfKind("receipt", m + 1)] = c + (IF kind = "receipt" THEN u ELSE 0)
    BY <2>7, <2>8
  <2>10. d = b + c - a /\ a \in Nat /\ b \in Nat /\ c \in Nat
    BY <1>2, <1>3, <2>6, <2>8
  <2>11. chain[j].debt = d + (IF kind = "offer" THEN -u ELSE u)
    BY <2>6
  <2> QED BY <2>5, <2>9, <2>10, <2>11
<1>6. \A m \in 0..n : m \in In
  <2> HIDE DEF In
  <2>1. \A m \in 0..n - 1 : m \in In => m + 1 \in In
    BY <1>5
  <2> QED BY <1>4, <2>1, UpTo
<1>7. chain[i].seq + 1 \in 0..n
  BY BelowFacts
<1> QED BY <1>6, <1>7

-----------------------------------------------------------------------------
(* What the credit history shows as repaid.                                *)

\* There a level counts what was issued in offers that did not come to nothing,
\* less what was redeemed: declared debt less the phantom.
LEMMA RealIs ==
  ASSUME IInv, NEW h, Sums(h), NEW n \in Nat, ~Forked(Below(n)), NEW i \in Below(n)
  PROVE  Real(i, Below(n)) = h[OfKind("offer", chain[i].seq + 1) \ Named("reversal", n)]
                             - h[OfKind("receipt", chain[i].seq + 1)]
<1>1. PICK m : m = chain[i].seq + 1
  OBVIOUS
<1> DEFINE O == OfKind("offer", m)
           M == Named("reversal", n)
<1>2. Before(i, Below(n)) = Below(m) /\ m \in 0..n /\ Below(m) \subseteq Below(n)
  BY <1>1, BelowFacts
<1>3. \A K, k : OfKind(K, k) \in SUBSET Links
  BY DEF OfKind, Below
<1>4. h[{}] = 0 /\ \A S \in SUBSET Links : h[S] \in Nat /\ Sum(S) = h[S]
  BY SumFacts DEF Sums
<1>5. chain[i].debt = h[OfKind("reversal", m)] + h[OfKind("receipt", m)] - h[O]
  BY <1>1, DebtIsSum
<1>6. Phantom(i, Below(n)) = h[O \cap M] - h[OfKind("reversal", m)]
  <2>1. \A k : Below(k) \cap Reversals = OfKind("reversal", k)
    BY DEF Reversals, OfKind, Below
  <2>2. Below(m) \cap Offers = O
    BY DEF Offers, OfKind, Below
  <2>3. {d \in Below(m) \cap Offers : \E r \in Below(n) \cap Reversals : chain[r].of = d}
          = O \cap M
    BY <2>1, <2>2 DEF Named
  <2>4. O \cap M \in SUBSET Links /\ OfKind("reversal", m) \in SUBSET Links
    BY <1>3
  <2> QED BY <1>2, <1>4, <2>1, <2>3, <2>4 DEF Phantom
<1>7. h[O] = h[O \cap M] + h[O \ M]
  <2>1. PICK X, Y : X = O \cap M /\ Y = O \ M
    OBVIOUS
  <2>2. X \in SUBSET Links /\ Y \in SUBSET Links /\ X \cap Y = {} /\ X \cup Y = O
    BY <1>3, <2>1
  <2>3. h[X \cup Y] = h[X] + h[Y]
    BY <2>2, SumOfTwo
  <2> QED BY <2>1, <2>2, <2>3
<1>8. PICK o, p, q, v, c, d, ph :
        /\ o = h[O] /\ p = h[O \cap M] /\ q = h[O \ M] /\ v = h[OfKind("reversal", m)]
        /\ c = h[OfKind("receipt", m)] /\ d = chain[i].debt /\ ph = Phantom(i, Below(n))
  OBVIOUS
<1>9. o \in Nat /\ p \in Nat /\ q \in Nat /\ v \in Nat /\ c \in Nat
  BY <1>3, <1>4, <1>8
<1>10. d = v + c - o /\ ph = p - v /\ o = p + q
  BY <1>5, <1>6, <1>7, <1>8
<1>11. Real(i, Below(n)) = -d - ph
  BY <1>8 DEF Real
<1>12. -d - ph = q - c
  BY <1>9, <1>10
<1> QED BY <1>1, <1>8, <1>11, <1>12

\* No fall between two levels is deeper than what was redeemed.
LEMMA FallsAreRepaid ==
  ASSUME IInv, NEW n \in Nat, ~Forked(Below(n))
  PROVE  /\ Redeemed(Below(n)) \in Nat
         /\ \A i \in Below(n) :
              /\ Real(i, Below(n)) \in Int
              /\ 0 - Real(i, Below(n)) <= Redeemed(Below(n))
              /\ \A j \in Before(i, Below(n)) :
                   Real(j, Below(n)) - Real(i, Below(n)) <= Redeemed(Below(n))
<1>1. PICK h : Sums(h)
  BY SumsExist DEF IInv
<1>2. /\ IsFiniteSet(Links) /\ Units \in [Links -> Nat] /\ Adder(Units, h, Links)
      /\ \A S \in SUBSET Links : h[S] \in Nat /\ Sum(S) = h[S]
  BY <1>1, SumsExist, SumFacts DEF IInv, Sums
<1>3. \A K, k : OfKind(K, k) \in SUBSET Links
  BY DEF OfKind, Below
<1> DEFINE P(m) == OfKind("offer", m) \ Named("reversal", n)
           Q(m) == OfKind("receipt", m)
<1>4. Redeemed(Below(n)) = h[Q(n)] /\ h[Q(n)] \in Nat
  <2>1. Below(n) \cap Receipts = Q(n) /\ Q(n) \in SUBSET Links
    BY <1>3 DEF OfKind, Receipts, Below
  <2> QED BY <1>2, <2>1 DEF Redeemed
<1>5. ASSUME NEW m \in 0..n, NEW k \in 0..m
      PROVE  /\ h[P(m)] \in Nat /\ h[P(k)] \in Nat /\ h[P(k)] <= h[P(m)]
             /\ h[Q(m)] \in Nat /\ h[Q(k)] \in Nat /\ h[Q(m)] <= h[Q(n)]
  <2>1. /\ OfKind("offer", k) \subseteq OfKind("offer", m)
        /\ OfKind("receipt", m) \subseteq OfKind("receipt", n)
    BY <1>5, BelowFacts
  <2>2. PICK pm, pk, qm, qk, qn : /\ pm = P(m) /\ pk = P(k)
                                  /\ qm = Q(m) /\ qk = Q(k) /\ qn = Q(n)
    OBVIOUS
  <2>3. /\ pm \in SUBSET Links /\ pk \in SUBSET pm /\ pk \in SUBSET Links
        /\ qn \in SUBSET Links /\ qm \in SUBSET qn /\ qm \in SUBSET Links /\ qk \in SUBSET Links
    BY <1>3, <2>1, <2>2
  <2>4. h[pk] <= h[pm] /\ h[qm] <= h[qn]
    BY <1>2, <2>3, SumGrows
  <2> QED BY <1>2, <2>2, <2>3, <2>4
<1>6. ASSUME NEW i \in Below(n)
      PROVE  /\ chain[i].seq + 1 \in 0..n
             /\ Real(i, Below(n)) = h[P(chain[i].seq + 1)] - h[Q(chain[i].seq + 1)]
  BY <1>1, <1>6, RealIs, BelowFacts
<1>7. ASSUME NEW i \in Below(n), NEW j \in Before(i, Below(n))
      PROVE  j \in Below(n) /\ chain[j].seq + 1 \in 0..chain[i].seq + 1
  BY <1>7, BelowFacts DEF Before
<1> HIDE DEF P, Q
<1>8. ASSUME NEW i \in Below(n)
      PROVE  /\ Real(i, Below(n)) \in Int
             /\ 0 - Real(i, Below(n)) <= h[Q(n)]
             /\ \A j \in Before(i, Below(n)) : Real(j, Below(n)) - Real(i, Below(n)) <= h[Q(n)]
  <2>1. PICK m, r : m = chain[i].seq + 1 /\ r = Real(i, Below(n))
    OBVIOUS
  <2>2. m \in 0..n /\ m \in 0..m /\ r = h[P(m)] - h[Q(m)]
    BY <1>6, <2>1
  <2>3. h[P(m)] \in Nat /\ h[Q(m)] \in Nat /\ h[Q(m)] <= h[Q(n)]
    BY <1>5, <2>2
  <2>4. ASSUME NEW j \in Before(i, Below(n))
        PROVE  Real(j, Below(n)) - r <= h[Q(n)]
    <3>1. PICK k, s : k = chain[j].seq + 1 /\ s = Real(j, Below(n))
      OBVIOUS
    <3>2. k \in 0..m /\ s = h[P(k)] - h[Q(k)]
      BY <1>6, <1>7, <2>1, <3>1
    <3>3. h[P(k)] \in Nat /\ h[P(k)] <= h[P(m)] /\ h[Q(k)] \in Nat
      BY <1>5, <2>2, <3>2
    <3>4. s - r <= h[Q(n)]
      BY <1>4, <2>2, <2>3, <3>2, <3>3
    <3> QED BY <3>1, <3>4
  <2>5. r \in Int /\ 0 - r <= h[Q(n)]
    BY <1>4, <2>2, <2>3
  <2> QED BY <2>1, <2>4, <2>5
<1> QED BY <1>4, <1>8

\* So nothing shows as repaid but what was redeemed.
LEMMA RepaidBelow ==
  ASSUME IInv, NEW n \in Nat, ~Forked(Below(n))
  PROVE  /\ MaxRepaid(Below(n)) \in Int
         /\ MaxRepaid(Below(n)) <= Redeemed(Below(n))
<1>1. PICK seen, digested, top :
        seen = Below(n) /\ digested = Digested(seen) /\ top = Redeemed(seen)
  OBVIOUS
<1>2. /\ top \in Nat
      /\ \A i \in seen : /\ Real(i, seen) \in Int
                         /\ 0 - Real(i, seen) <= top
                         /\ \A j \in Before(i, seen) : Real(j, seen) - Real(i, seen) <= top
  BY <1>1, FallsAreRepaid
<1>3. digested \subseteq seen /\ IsFiniteSet(digested)
  <2>1. digested \subseteq seen /\ seen \subseteq Links
    BY <1>1 DEF Digested, Below
  <2>2. IsFiniteSet(Links)
    BY SumsExist DEF IInv
  <2> QED BY <2>1, <2>2, FS_Subset
<1> DEFINE Peak(i) == Max({0} \cup {Real(j, seen) : j \in Before(i, seen) \cap digested})
<1>4. ASSUME NEW i \in digested
      PROVE  Peak(i) - Real(i, seen) \in Int /\ Peak(i) - Real(i, seen) <= top
  <2>1. PICK S, f, r : /\ S = Before(i, seen) \cap digested
                       /\ f = [j \in S |-> Real(j, seen)]
                       /\ r = Real(i, seen)
    OBVIOUS
  <2>2. IsFiniteSet(S)
    BY <1>3, <2>1, FS_Subset
  <2>3. i \in seen /\ r \in Int /\ 0 - r <= top
    BY <1>2, <1>3, <1>4, <2>1
  <2>4. \A j \in S : /\ f[j] = Real(j, seen) /\ f[j] \in Int /\ f[j] - r <= top
    BY <1>2, <1>3, <2>1, <2>3
  <2>5. f \in [S -> Int]
    BY <2>1, <2>4
  <2>6. PICK b \in Nat : b = top + r
    BY <1>2, <2>3
  <2>7. \A j \in S : f[j] <= b
    BY <1>2, <2>3, <2>4, <2>6
  <2>8. /\ Max({0} \cup {f[j] : j \in S}) \in Int
        /\ Max({0} \cup {f[j] : j \in S}) <= b
    BY <2>2, <2>5, <2>7, LargestBelow
  <2>9. {f[j] : j \in S} = {Real(j, seen) : j \in Before(i, seen) \cap digested}
    BY <2>1
  <2>10. PICK k : k = Peak(i)
    OBVIOUS
  <2>11. k \in Int /\ k <= b
    BY <2>8, <2>9, <2>10
  <2>12. k - r \in Int /\ k - r <= top
    BY <1>2, <2>3, <2>6, <2>11
  <2> QED BY <2>1, <2>10, <2>12
<1>5. PICK g : g = [i \in digested |-> Peak(i) - Real(i, seen)]
  OBVIOUS
<1>6. MaxRepaid(seen) = Max({0} \cup {g[i] : i \in digested})
  <2>1. {g[i] : i \in digested} = {Peak(i) - Real(i, seen) : i \in digested}
    BY <1>5
  <2>2. MaxRepaid(seen) = Max({0} \cup {Peak(i) - Real(i, seen) : i \in digested})
    BY <1>1 DEF MaxRepaid
  <2> QED BY <2>1, <2>2
<1>7. g \in [digested -> Int] /\ \A i \in digested : g[i] <= top
  <2> HIDE DEF Peak
  <2> QED BY <1>4, <1>5
<1>8. /\ Max({0} \cup {g[i] : i \in digested}) \in Int
      /\ Max({0} \cup {g[i] : i \in digested}) <= top
  BY <1>2, <1>3, <1>7, LargestBelow
<1> QED BY <1>1, <1>6, <1>8

\* Nobody passes for one who paid back what he never did: whatever was refused,
\* lapsed, reversed twice or accepted after all, a history without a gap and
\* without a fork shows no more repaid than the receipts in it
\* (records::credit_history).
THEOREM HistoryNeverFlatters == Spec => []RepaidIsRepaid
<1>1. IInv => RepaidIsRepaid
  <2> SUFFICES ASSUME IInv, NEW n \in 0..Len(chain), ~Forked(Below(n))
               PROVE  MaxRepaid(Below(n)) <= Redeemed(Below(n))
    BY DEF RepaidIsRepaid, Views, Below
  <2>1. n \in Nat
    BY LinkFields DEF IInv
  <2> QED BY <2>1, RepaidBelow
<1> QED BY <1>1, Invariance, PTL

-----------------------------------------------------------------------------
(* A thread whose commands were never in each other's way.                 *)

\* It is numbered without a fork, and any part of it without a gap is all there
\* is up to some link.
LEMMA WholeParts ==
  ASSUME IInv, Apart
  PROVE  /\ \A n \in 0..Len(chain) : Below(n) = 1..n
         /\ \A seen \in SUBSET Links : ~Forked(seen)
         /\ \A seen \in SUBSET Links : \A i \in seen :
              ~Gaps(seen) /\ Before(i, seen) = seen => seen = Below(i)
<1>1. /\ Len(chain) \in Nat /\ Links = 1..Len(chain)
      /\ \A i \in Links : chain[i].seq = i - 1
  BY LinkFields DEF IInv, Apart
<1>2. \A n \in 0..Len(chain) : Below(n) = 1..n
  BY <1>1 DEF Below
<1>3. \A seen \in SUBSET Links : ~Forked(seen)
  <2>1. \A i, j \in Links : chain[i].seq = chain[j].seq => i = j
    BY <1>1
  <2> QED BY <2>1 DEF Forked
<1>4. ASSUME NEW seen \in SUBSET Links, NEW i \in seen, ~Gaps(seen), Before(i, seen) = seen
      PROVE  seen = Below(i)
  <2>1. i \in Links /\ i \in 0..Len(chain) /\ chain[i].seq = i - 1
    BY <1>1
  <2>2. \A j \in seen : j \in 1..i
    <3>1. \A j \in seen : j \in Links /\ chain[j].seq <= chain[i].seq
      BY <1>4 DEF Before
    <3> QED BY <1>1, <2>1, <3>1
  <2>3. ASSUME NEW k \in 1..i
        PROVE  k \in seen
    <3>1. k - 1 \in 0..chain[i].seq
      BY <1>1, <2>1
    <3>2. PICK j \in seen : chain[j].seq = k - 1
      BY <1>4, <3>1 DEF Gaps
    <3>3. j = k
      BY <1>1, <2>1, <3>2
    <3> QED BY <3>2, <3>3
  <2> QED BY <1>2, <2>1, <2>2, <2>3
<1> QED BY <1>2, <1>3, <1>4

\* There the links of one kind have the hours of the offers they name: no offer
\* is named twice.
LEMMA NamedOnce ==
  ASSUME IInv, Apart, NEW h, Sums(h), NEW K \in {"reversal", "receipt"},
         NEW n \in 0..Len(chain)
  PROVE  h[OfKind(K, n)] = h[Named(K, n)]
<1> DEFINE Same == {m \in 0..n : h[OfKind(K, m)] = h[Named(K, m)]}
<1>1. /\ Len(chain) \in Nat /\ Links = 1..Len(chain) /\ Offers \subseteq Links
      /\ \A i \in Links : chain[i].seq = i - 1
  BY LinkFields DEF IInv, Apart
<1>2. n \in Nat /\ Below(n) \subseteq Links /\ Below(n) = 1..n /\ ~Forked(Below(n))
  BY <1>1, WholeParts DEF Below
<1>3. \A T \in SUBSET Links : \A x \in Links \ T : h[T \cup {x}] = h[T] + chain[x].units
  BY SumMore
<1>4. 0 \in Same
  <2>1. Below(0) = {}
    BY <1>1 DEF Below
  <2>2. OfKind(K, 0) = {} /\ Named(K, 0) = {}
    BY <2>1 DEF OfKind, Named
  <2> QED BY <1>2, <2>2
<1>5. ASSUME NEW m \in 0..n - 1, m \in Same
      PROVE  m + 1 \in Same
  <2>1. PICK i : i = m + 1
    OBVIOUS
  <2>2. /\ i \in Below(n) /\ i \in Links /\ chain[i].seq = m /\ m \in Nat
        /\ chain[i].seq + 1 = i /\ i \in 0..n
    BY <1>1, <1>2, <2>1
  <2>3. PICK S, N, d : S = OfKind(K, m) /\ N = Named(K, m) /\ d = chain[i].of
    OBVIOUS
  <2>4. h[S] = h[N]
    BY <1>5, <2>3
  <2>5. /\ OfKind(K, i) = (IF chain[i].kind = K THEN S \cup {i} ELSE S)
        /\ i \notin S /\ S \in SUBSET Links /\ N \in SUBSET Links
    <3>1. S \in SUBSET Links /\ N \in SUBSET Links
      BY <1>1, <2>3 DEF OfKind, Below, Named
    <3> QED BY <1>2, <2>2, <2>3, <3>1, OneMore
  <2>6. CASE chain[i].kind # K
    <3>1. OfKind(K, i) = S
      BY <2>5, <2>6
    <3>2. Named(K, i) = N
      BY <2>3, <3>1 DEF Named
    <3> QED BY <2>1, <2>2, <2>4, <3>1, <3>2
  <2>7. CASE chain[i].kind = K
    <3>1. OfKind(K, i) = S \cup {i}
      BY <2>5, <2>7
    <3>2. d \in Offers /\ chain[i].units = chain[d].units
      BY <2>2, <2>3, <2>7 DEF IInv, Sound, Fits
    <3>3. Named(K, i) = N \cup {d}
      BY <2>3, <3>1, <3>2 DEF Named
    <3>4. d \notin N
      <4>1. \A r \in S : r \in Links /\ chain[r].kind = K /\ r # i
        BY <2>3, <2>5 DEF OfKind, Below
      <4>2. \A r \in S : chain[r].of # d
        BY <2>2, <2>3, <2>7, <4>1 DEF Apart, Once
      <4> QED BY <2>3, <4>2 DEF Named
    <3>5. h[S \cup {i}] = h[S] + chain[i].units
      <4>1. i \in Links \ S /\ S \in SUBSET Links
        BY <2>2, <2>5
      <4> QED BY <1>3, <4>1
    <3>6. h[N \cup {d}] = h[N] + chain[d].units
      <4>1. d \in Links \ N /\ N \in SUBSET Links
        BY <1>1, <2>5, <3>2, <3>4
      <4> QED BY <1>3, <4>1
    <3>7. h[OfKind(K, i)] = h[Named(K, i)]
      BY <2>4, <3>1, <3>2, <3>3, <3>5, <3>6
    <3> QED BY <2>1, <2>2, <3>7
  <2> QED BY <2>6, <2>7
<1>6. n \in Same
  <2> HIDE DEF Same
  <2>1. \A m \in 0..n - 1 : m \in Same => m + 1 \in Same
    BY <1>5
  <2>2. \A m \in 0..n : m \in Same
    BY <1>2, <1>4, <2>1, UpTo
  <2> QED BY <1>2, <2>2
<1> QED BY <1>6

\* The newest of all links up to a number declares what they come to.
LEMMA NewestAgrees ==
  ASSUME IInv, Apart, NEW i \in Links
  PROVE  -chain[i].debt = Sum(Digested(Below(i)) \cap Offers) - Redeemed(Below(i))
<1>1. PICK h : Sums(h)
  BY SumsExist DEF IInv
<1>2. \A S \in SUBSET Links : h[S] \in Nat /\ Sum(S) = h[S]
  BY <1>1, SumFacts DEF Sums
<1>3. /\ Len(chain) \in Nat /\ Links = 1..Len(chain) /\ Offers \subseteq Links
      /\ \A j \in Links : chain[j].seq = j - 1
      /\ i \in Nat /\ i \in 0..Len(chain) /\ chain[i].seq + 1 = i
  BY LinkFields DEF IInv, Apart
<1>4. /\ Below(i) = 1..i /\ i \in Below(i) /\ Below(i) \subseteq Links
      /\ ~Forked(Below(i))
  BY <1>3, WholeParts DEF Below
<1> DEFINE O == OfKind("offer", i)
           V == OfKind("reversal", i)
           C == OfKind("receipt", i)
           M == Named("reversal", i)
<1>5. /\ O \in SUBSET Links /\ V \in SUBSET Links /\ C \in SUBSET Links /\ M \in SUBSET Links
  BY <1>3, <1>4 DEF OfKind, Named
<1>6. chain[i].debt = h[V] + h[C] - h[O]
  <2>1. chain[i].debt = h[OfKind("reversal", chain[i].seq + 1)]
                        + h[OfKind("receipt", chain[i].seq + 1)]
                        - h[OfKind("offer", chain[i].seq + 1)]
    BY <1>1, <1>3, <1>4, DebtIsSum
  <2> QED BY <1>3, <2>1
<1>7. h[V] = h[M]
  BY <1>1, <1>3, NamedOnce
<1>8. M \subseteq O
  <2> SUFFICES ASSUME NEW d \in M
               PROVE  d \in O
    OBVIOUS
  <2>1. PICK r \in V : chain[r].of = d /\ d \in Offers
    BY DEF Named
  <2>2. r \in Links /\ r <= i /\ chain[r].kind = "reversal" /\ r \in Nat
    BY <1>3, <1>4 DEF OfKind
  <2>3. chain[d].seq < chain[r].seq /\ d \in Links /\ d \in Nat
    <3>1. Fits(chain[r])
      BY <2>2 DEF IInv, Sound
    <3>2. chain[d].seq < chain[r].seq
      BY <2>1, <2>2, <3>1 DEF Fits
    <3> QED BY <1>3, <2>1, <3>2
  <2>4. d \in Below(i)
    BY <1>3, <1>4, <2>2, <2>3
  <2> QED BY <2>1, <2>4 DEF OfKind, Offers
<1>9. h[O] = h[M] + h[O \ M]
  <2>1. PICK X, Y : X = M /\ Y = O \ M
    OBVIOUS
  <2>2. X \in SUBSET Links /\ Y \in SUBSET Links /\ X \cap Y = {} /\ X \cup Y = O
    BY <1>5, <1>8, <2>1
  <2>3. h[X \cup Y] = h[X] + h[Y]
    BY <1>1, <2>2, SumOfTwo
  <2> QED BY <2>1, <2>2, <2>3
<1>10. Digested(Below(i)) \cap Offers = O \ M
  <2>1. Below(i) \cap Reversals = V
    BY <1>4 DEF Reversals, OfKind
  <2>2. Below(i) \cap Offers = O
    BY <1>4 DEF Offers, OfKind
  <2>3. \A d \in O : d \in Offers /\ d \notin Reversals
    BY <2>2 DEF Offers, Reversals
  <2> QED BY <2>1, <2>2, <2>3 DEF Digested, Named
<1>11. Redeemed(Below(i)) = h[C]
  <2>1. Below(i) \cap Receipts = C
    BY <1>4 DEF Receipts, OfKind
  <2> QED BY <1>2, <1>5, <2>1 DEF Redeemed
<1>12. PICK o, q, v, c, m, d : /\ o = h[O] /\ q = h[O \ M] /\ v = h[V] /\ c = h[C]
                               /\ m = h[M] /\ d = chain[i].debt
  OBVIOUS
<1>13. /\ o \in Nat /\ q \in Nat /\ v \in Nat /\ c \in Nat /\ m \in Nat
  BY <1>2, <1>5, <1>12
<1>14. d = v + c - o /\ v = m /\ o = m + q
  BY <1>6, <1>7, <1>9, <1>12
<1>15. -d = q - c
  BY <1>13, <1>14
<1>16. Sum(O \ M) = q
  BY <1>2, <1>5, <1>12
<1> QED BY <1>10, <1>11, <1>12, <1>15, <1>16

\* An honest owner is never taken for a cheat, whatever part of his thread a
\* reader holds, as long as no two of his commands were in each other's way:
\* stopped commands, late answers and reversals of what was accepted after all
\* leave a thread that agrees with itself (records::credit_history).
THEOREM HonestNeverAccused == Spec => []AccusedOnlyIfCrossed
<1>1. IInv /\ ApartUnlessCrossed => AccusedOnlyIfCrossed
  <2> SUFFICES ASSUME IInv, Apart, NEW seen \in SUBSET Links
               PROVE  ~Accused(seen)
    BY DEF ApartUnlessCrossed, AccusedOnlyIfCrossed
  <2>1. ~Forked(seen)
    BY WholeParts
  <2>2. ASSUME ~Gaps(seen)
        PROVE  ~Inconsistent(seen)
    <3> SUFFICES ASSUME NEW i \in seen, Before(i, seen) = seen
                 PROVE  -chain[i].debt = Sum(Digested(seen) \cap Offers) - Redeemed(seen)
      BY DEF Inconsistent
    <3>1. seen = Below(i)
      BY <2>2, WholeParts
    <3>2. i \in Links
      OBVIOUS
    <3> QED BY <3>1, <3>2, NewestAgrees
  <2> QED BY <2>1, <2>2 DEF Accused
<1> QED BY <1>1, Invariance, Apartness, PTL

\* What passes for repaid did come home, and each piece once: the receipts name
\* offers whose paper the owner took back, and no two of them the same one
\* (bc transfer recv, records::credit_history).
THEOREM RepaidIsTaken == Spec => []RepaidCameHome
<1>1. IInv /\ ApartUnlessCrossed => RepaidCameHome
  <2> SUFFICES ASSUME IInv, Apart, NEW n \in 0..Len(chain)
               PROVE  MaxRepaid(Below(n)) <= Sum(taken)
    BY DEF ApartUnlessCrossed, RepaidCameHome, Views, Below
  <2>1. PICK h : Sums(h)
    BY SumsExist DEF IInv
  <2>2. \A S \in SUBSET Links : h[S] \in Nat /\ Sum(S) = h[S]
    BY <2>1, SumFacts DEF Sums
  <2>3. n \in Nat /\ taken \subseteq Links /\ Below(n) \subseteq Links
    BY LinkFields DEF IInv, TypeOK, Below
  <2>4. MaxRepaid(Below(n)) \in Int /\ MaxRepaid(Below(n)) <= Redeemed(Below(n))
    BY <2>3, WholeParts, RepaidBelow
  <2>5. Redeemed(Below(n)) = h[OfKind("receipt", n)]
    <3>1. /\ Below(n) \cap Receipts = OfKind("receipt", n)
          /\ OfKind("receipt", n) \in SUBSET Links
      BY <2>3 DEF Receipts, OfKind
    <3> QED BY <2>2, <3>1 DEF Redeemed
  <2>6. h[OfKind("receipt", n)] = h[Named("receipt", n)]
    BY <2>1, NamedOnce
  <2>7. Named("receipt", n) \subseteq taken
    BY <2>3 DEF Named, OfKind, IInv, Sound, Fits
  <2>8. h[Named("receipt", n)] <= h[taken]
    <3>1. IsFiniteSet(Links) /\ Units \in [Links -> Nat] /\ Adder(Units, h, Links)
      BY <2>1, SumsExist DEF IInv, Sums
    <3> QED BY <2>3, <2>7, <3>1, SumGrows
  <2>9. h[taken] = Sum(taken)
    BY <2>2, <2>3
  <2>10. PICK a, b, c, d : /\ a = MaxRepaid(Below(n)) /\ b = h[OfKind("receipt", n)]
                           /\ c = h[taken] /\ d = Sum(taken)
    OBVIOUS
  <2>11. /\ b \in Nat /\ c \in Nat /\ a <= b /\ b <= c /\ c = d
    BY <2>2, <2>3, <2>4, <2>5, <2>6, <2>8, <2>9, <2>10 DEF OfKind
  <2>12. a \in Int
    BY <2>4, <2>10
  <2>13. a <= d
    BY <2>11, <2>12
  <2> QED BY <2>10, <2>13
<1> QED BY <1>1, Invariance, Apartness, PTL

=============================================================================
