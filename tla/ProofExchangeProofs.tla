------------------------- MODULE ProofExchangeProofs -------------------------
(***************************************************************************)
(* Proofs about ProofExchange, for every budget, every bound and every set  *)
(* of intruding methods.  The inductive invariant says where the driver may *)
(* stand for each state of the session, which of the forgotten time stamps   *)
(* can be recovered from what the driver has read, and what a failure that   *)
(* nobody has reported yet will be blamed on.                               *)
(***************************************************************************)
EXTENDS ProofExchange, TLAPS

\* A session in this state has accepted an envelope and can still use it.
Frozen == {"PRECOMMIT_ACCEPTED", "HARD_SELECTED", "NONCE_REVEALED", "VERIFYING"}

\* The session is where the driver expects it, if nobody else ended it.
AsExpected ==
  /\ pc = "stream" => state = "AWAITING_PRECOMMIT"
  /\ pc = "select" => state = "PRECOMMIT_ACCEPTED"
  /\ pc \in {"tail", "hold", "finalize"} =>
       state = IF tier THEN "HARD_SELECTED" ELSE "LIGHT_REVEALED"
  /\ pc \in {"opening", "verify"} => state = "NONCE_REVEALED"
  /\ pc = "verifying" => state = "VERIFYING"

Tracked ==
  /\ pc # "ended" =>
       /\ outcome = "none"
       /\ AsExpected \/ (intruded /\ state \in {"FAILED", "EXPIRED", "ABORTED"})
       /\ cancelled => pc = "select"
  /\ pc = "ended" =>
       /\ outcome # "none"
       /\ outcome # "cancelled" =>
            /\ state \in Terminal
            /\ outcome = "verified" <=> state = "VERIFIED"
            /\ outcome = "light" => state = "LIGHT_REVEALED"
  /\ state = "LIGHT_REVEALED" => ~tier
  /\ pc \in {"tail", "hold", "finalize", "release"} /\ ~tier => state = "LIGHT_REVEALED"
  /\ pc = "release" => ~tier
  /\ pc = "ended" /\ cancelled => outcome = "cancelled"
  /\ outcome = "cancelled" => state # "VERIFIED"

Disclosure ==
  /\ pc \in {"opening", "verify", "verifying"} => sent
  /\ pc \notin {"opening", "verify", "verifying", "ended"} => ~sent
  /\ state \in {"NONCE_REVEALED", "VERIFYING", "VERIFIED"} => sent
  /\ sent => state \notin {"AWAITING_PRECOMMIT", "PRECOMMIT_ACCEPTED",
                           "HARD_SELECTED", "LIGHT_REVEALED"}
  /\ sent => tier

Forgotten == state \in Terminal => retained = {}

\* What the driver has read, in the order in which it read it.
Read ==
  /\ tokenAt # None => tokenAt <= now
  /\ stamp # None => stamp <= now
  /\ envelope # None =>
       /\ tokenAt # None
       /\ tokenAt <= envelope.at
       /\ envelope.at <= now
  /\ pc \notin {"stream", "ended"} =>
       /\ envelope # None
       /\ stamp # None
       /\ envelope.at <= stamp
  /\ sent => envelope # None /\ stamp # None

\* What the session's stamps are, while it keeps them.
Stamps ==
  /\ state \in Frozen =>
       /\ envelope # None
       /\ envelope.sound
       /\ envelope.at <= tokenAt + PrecommitBudget
       /\ precommitAt = envelope.at
  /\ state = "HARD_SELECTED" =>
       /\ deadline = IF hold = None THEN stamp + RevealWindow ELSE precommitAt + hold
       /\ selectedAt = stamp
       /\ tier
  /\ state \in {"NONCE_REVEALED", "VERIFYING"} =>
       /\ revealedAt # None
       /\ revealedAt <= now
       /\ deadline = revealedAt + HardBudget
  /\ state = "VERIFYING" => revealedAt <= stamp /\ stamp <= deadline
  /\ state = "NONCE_REVEALED" /\ pc = "verify" => revealedAt <= stamp

\* What will be blamed on the miner is already its fault.
Blame ==
  /\ pc = "select" /\ hold # None /\ stamp > envelope.at + hold => peerFault
  /\ pc = "verify" /\ state = "NONCE_REVEALED" /\ stamp > deadline => peerFault
  /\ pc \in {"verify", "verifying"} /\ ~proof => peerFault

IInv ==
  /\ TypeOK
  /\ Tracked
  /\ Disclosure
  /\ Forgotten
  /\ Read
  /\ Stamps
  /\ Blame
  /\ DisclosedIsSettled
  /\ VerifiedIsTimely
  /\ BlameIsExplained

\* The budgets one by one, and the two kinds of hold.
LEMMA Budgets ==
  /\ PrecommitBudget \in Nat /\ RevealWindow \in Nat /\ HardBudget \in Nat
  /\ TimeLimit \in Nat /\ MaxTime \in Nat /\ MaxTokens \in Nat
  /\ None \notin Nat /\ None \notin Envelope
  /\ \A h \in HoldBudgets : h = None \/ h \in Nat
  BY BudgetAssumption, ExchangeAssumption

\* An exchange that raises: what the error is blamed on was known.
LEMMA RaiseIInv ==
  ASSUME NEW error \in {"proof", "http", "local", "unavailable"}, NEW blame \in BOOLEAN,
         IInv, pc # "ended", Raise(error, blame),
         UNCHANGED <<now, tier, intruded, hold>>,
         slip' \in {slip, "clock", "wrapped"},
         state' \in Terminal \ {"VERIFIED"}, retained' = {},
         state' = "LIGHT_REVEALED" => ~tier /\ ~sent,
         deadline' \in Stamp, precommitAt' \in Stamp, selectedAt' \in Stamp,
         revealedAt' \in Stamp,
         \/ error \in {"local", "unavailable"} \/ blame \/ peerFault \/ intruded
         \/ slip' = "clock" /\ ~sent
         \/ slip' = "wrapped"
         \/ error = "http" /\ ~sent /\ envelope = None
         \/ tier /\ ~sent /\ state' = "EXPIRED"
         \/ \E budget \in {PrecommitBudget, RevealWindow, HardBudget, hold} \ {None} :
              now + budget >= TimeLimit
  PROVE  IInv'
<1>1. TypeOK'
  BY Budgets DEF Raise, Classified, IInv, TypeOK, Live, Terminal, Locations,
     Outcomes, Stamp, Envelope, Slips
<1>2. Tracked'
  BY Budgets DEF Raise, Classified, IInv, TypeOK, Tracked, AsExpected, Terminal,
     Outcomes
<1>3. Disclosure'
  BY Budgets DEF Raise, Classified, IInv, TypeOK, Tracked, AsExpected,
     Disclosure, Terminal
<1>4. Forgotten'
  BY Budgets DEF Raise, Classified, IInv, Forgotten, Terminal, Tracked,
     AsExpected
<1>5. Read'
  BY Budgets DEF Raise, Classified, IInv, TypeOK, Read, Disclosure, Stamp,
     Envelope
<1>6. Stamps'
  BY Budgets DEF Raise, Classified, IInv, TypeOK, Tracked, AsExpected, Stamps,
     Read, Frozen, Stamp, Envelope, Terminal
<1>7. Blame'
  BY Budgets DEF Raise, Classified, IInv, TypeOK, Tracked, AsExpected, Read,
     Stamps, Blame, Frozen, Stamp, Envelope
<1>8. DisclosedIsSettled'
  BY Budgets DEF Raise, Classified, IInv, TypeOK, Tracked, Disclosure,
     DisclosedIsSettled
<1>9. VerifiedIsTimely'
  BY Budgets DEF Raise, Classified, IInv, TypeOK, Tracked, Disclosure, Read,
     Stamps, VerifiedIsTimely, Frozen, Stamp, Envelope
<1>10. BlameIsExplained'
  BY Budgets DEF Raise, Classified, IInv, TypeOK, Tracked, Disclosure, Blame,
     BlameIsExplained
<1> QED
  BY <1>1, <1>2, <1>3, <1>4, <1>5, <1>6, <1>7, <1>8, <1>9, <1>10 DEF IInv

LEMMA ReadTokenIInv ==
  ASSUME IInv, ReadToken, UNCHANGED <<now, tier, intruded, slip>>
  PROVE  IInv'
<1>1. TypeOK'
  BY Budgets DEF ReadToken, sessionVars, IInv, TypeOK, Live, Terminal, Locations,
     Outcomes, Stamp, Envelope
<1>2. Tracked'
  BY Budgets DEF ReadToken, sessionVars, IInv, TypeOK, Tracked, AsExpected,
     Terminal, Outcomes
<1>3. Disclosure'
  BY Budgets DEF ReadToken, sessionVars, IInv, TypeOK, Tracked, AsExpected,
     Disclosure, Terminal
<1>4. Forgotten'
  BY Budgets DEF ReadToken, sessionVars, IInv, Forgotten, Terminal, Tracked,
     AsExpected
<1>5. Read'
  BY Budgets DEF ReadToken, sessionVars, IInv, TypeOK, Read, Disclosure, Stamp,
     Envelope
<1>6. Stamps'
  BY Budgets DEF ReadToken, sessionVars, IInv, TypeOK, Tracked, AsExpected,
     Stamps, Read, Frozen, Stamp, Envelope, Terminal
<1>7. Blame'
  BY Budgets DEF ReadToken, sessionVars, IInv, TypeOK, Tracked, AsExpected, Read,
     Stamps, Blame, Frozen, Stamp, Envelope
<1>8. DisclosedIsSettled'
  BY Budgets DEF ReadToken, sessionVars, IInv, TypeOK, Tracked, Disclosure,
     DisclosedIsSettled
<1>9. VerifiedIsTimely'
  BY Budgets DEF ReadToken, sessionVars, IInv, TypeOK, Tracked, Disclosure, Read,
     Stamps, VerifiedIsTimely, Frozen, Stamp, Envelope
<1>10. BlameIsExplained'
  BY Budgets DEF ReadToken, sessionVars, IInv, TypeOK, Tracked, Disclosure,
     Blame, BlameIsExplained
<1> QED
  BY <1>1, <1>2, <1>3, <1>4, <1>5, <1>6, <1>7, <1>8, <1>9, <1>10 DEF IInv

\* An exchange that fails its session and raises.
LEMMA QuitIInv ==
  ASSUME NEW error \in {"proof", "http", "local", "unavailable"}, NEW blame \in BOOLEAN,
         IInv, pc # "ended", Quit(error, blame), UNCHANGED <<now, tier, intruded>>,
         slip' \in {slip, "clock", "wrapped"},
         \/ error \in {"local", "unavailable"} \/ blame \/ peerFault \/ intruded
         \/ slip' = "clock" /\ ~sent
         \/ slip' = "wrapped"
  PROVE  IInv'
<1>1. /\ Raise(error, blame) /\ FailClosed
  BY DEF Quit
<1>2. /\ state' \in Terminal \ {"VERIFIED"} /\ retained' = {} /\ hold' = hold
      /\ state' = "LIGHT_REVEALED" => ~tier /\ ~sent
      /\ deadline' \in Stamp /\ precommitAt' \in Stamp
      /\ selectedAt' \in Stamp /\ revealedAt' \in Stamp
  BY <1>1 DEF FailClosed, Clear, sessionVars, IInv, TypeOK, Tracked, AsExpected,
     Disclosure, Forgotten, Stamp, Terminal
<1> QED
  BY <1>1, <1>2, RaiseIInv

LEMMA ReadPrecommitIInv ==
  ASSUME IInv, ReadPrecommit, UNCHANGED <<now, tier, intruded, slip>>
  PROVE  IInv'
<1>1. TypeOK'
  BY Budgets DEF ReadPrecommit, sessionVars, IInv, TypeOK, Live, Terminal,
     Locations, Outcomes, Stamp, Envelope
<1>2. Tracked'
  BY Budgets DEF ReadPrecommit, sessionVars, IInv, TypeOK, Tracked, AsExpected,
     Terminal, Outcomes
<1>3. Disclosure'
  BY Budgets DEF ReadPrecommit, sessionVars, IInv, TypeOK, Tracked, AsExpected,
     Disclosure, Terminal
<1>4. Forgotten'
  BY Budgets DEF ReadPrecommit, sessionVars, IInv, Forgotten, Terminal, Tracked,
     AsExpected
<1>5. Read'
  BY Budgets DEF ReadPrecommit, sessionVars, IInv, TypeOK, Read, Disclosure,
     Stamp, Envelope
<1>6. Stamps'
  BY Budgets DEF ReadPrecommit, sessionVars, IInv, TypeOK, Tracked, AsExpected,
     Stamps, Read, Frozen, Stamp, Envelope, Terminal
<1>7. Blame'
  BY Budgets DEF ReadPrecommit, sessionVars, IInv, TypeOK, Tracked, AsExpected,
     Read, Stamps, Blame, Frozen, Stamp, Envelope
<1>8. DisclosedIsSettled'
  BY Budgets DEF ReadPrecommit, sessionVars, IInv, TypeOK, Tracked, Disclosure,
     DisclosedIsSettled
<1>9. VerifiedIsTimely'
  BY Budgets DEF ReadPrecommit, sessionVars, IInv, TypeOK, Tracked, Disclosure,
     Read, Stamps, VerifiedIsTimely, Frozen, Stamp, Envelope
<1>10. BlameIsExplained'
  BY Budgets DEF ReadPrecommit, sessionVars, IInv, TypeOK, Tracked, Disclosure,
     Blame, BlameIsExplained
<1> QED
  BY <1>1, <1>2, <1>3, <1>4, <1>5, <1>6, <1>7, <1>8, <1>9, <1>10 DEF IInv

LEMMA ReadBadIInv ==
  ASSUME IInv, ReadBad, UNCHANGED <<now, tier, intruded, slip>>
  PROVE  IInv'
<1>1. pc # "ended" /\ Quit("proof", TRUE)
  BY DEF ReadBad, Locations
<1> QED
  BY <1>1, QuitIInv

LEMMA StreamLostIInv ==
  ASSUME IInv, StreamLost, UNCHANGED <<now, tier, intruded, slip>>
  PROVE  IInv'
<1>1. pc # "ended" /\ Quit("http", TRUE)
  BY DEF StreamLost, Locations
<1> QED
  BY <1>1, QuitIInv

LEMMA PostFailsIInv ==
  ASSUME IInv, PostFails, UNCHANGED <<now, tier, intruded, slip>>
  PROVE  IInv'
<1>1. pc # "ended" /\ Quit("http", TRUE)
  BY DEF PostFails, Locations
<1> QED
  BY <1>1, QuitIInv

LEMMA OpeningLostIInv ==
  ASSUME IInv, OpeningLost, UNCHANGED <<now, tier, intruded, slip>>
  PROVE  IInv'
<1>1. pc # "ended" /\ Quit("http", TRUE)
  BY DEF OpeningLost, Locations
<1> QED
  BY <1>1, QuitIInv

LEMMA LocalErrorIInv ==
  ASSUME IInv, LocalError, UNCHANGED <<now, tier, intruded, slip>>
  PROVE  IInv'
<1>1. PICK error \in {"local", "unavailable"} : Quit(error, FALSE)
  BY DEF LocalError
<1>2. pc # "ended"
  BY DEF LocalError
<1> QED
  BY <1>1, <1>2, QuitIInv

LEMMA WallClockBackIInv ==
  ASSUME IInv, WallClockBack, UNCHANGED <<now, tier, intruded>>
  PROVE  IInv'
<1>1. /\ pc # "ended" /\ Quit("proof", FALSE) /\ slip' = "clock" /\ ~sent
  BY DEF WallClockBack, IInv, Disclosure
<1> QED
  BY <1>1, QuitIInv

LEMMA WrappedErrorIInv ==
  ASSUME IInv, WrappedError, UNCHANGED <<now, tier, intruded>>
  PROVE  IInv'
<1>1. pc # "ended" /\ slip' = "wrapped"
  BY DEF WrappedError
<1>2. CASE Quit("proof", FALSE)
  BY <1>1, <1>2, QuitIInv
<1>3. CASE /\ envelope # None
           /\ AcceptPrecommit(tokenAt, envelope.at, FALSE)
           /\ state' = "FAILED"
           /\ Raise("proof", FALSE)
  <2>1. tokenAt \in Nat
    BY <1>3 DEF IInv, TypeOK, Read, Stamp
  <2>2. /\ retained' = {} /\ hold' = hold /\ precommitAt' = None
        /\ selectedAt' = None /\ revealedAt' = None
        /\ deadline' \in {deadline, tokenAt + PrecommitBudget}
    BY <1>3 DEF AcceptPrecommit, Clear
  <2>3. /\ deadline' \in Stamp /\ precommitAt' \in Stamp /\ selectedAt' \in Stamp
        /\ revealedAt' \in Stamp /\ state' \in Terminal \ {"VERIFIED"}
    BY <1>3, <2>1, <2>2, Budgets DEF IInv, TypeOK, Stamp, Terminal
  <2> QED
    BY <1>1, <1>3, <2>2, <2>3, RaiseIInv
<1> QED
  BY <1>2, <1>3 DEF WrappedError

LEMMA EndStreamIInv ==
  ASSUME IInv, EndStream, UNCHANGED <<now, tier, intruded, slip>>
  PROVE  IInv'
<1>1. TypeOK'
  BY Budgets DEF EndStream, DelaysReveal, sessionVars, IInv, TypeOK, Live,
     Terminal, Locations, Outcomes, Stamp, Envelope
<1>2. Tracked'
  BY Budgets DEF EndStream, DelaysReveal, sessionVars, IInv, TypeOK, Tracked,
     AsExpected, Terminal, Outcomes
<1>3. Disclosure'
  BY Budgets DEF EndStream, DelaysReveal, sessionVars, IInv, TypeOK, Tracked,
     AsExpected, Disclosure, Terminal
<1>4. Forgotten'
  BY Budgets DEF EndStream, DelaysReveal, sessionVars, IInv, Forgotten, Terminal,
     Tracked, AsExpected
<1>5. Read'
  BY Budgets DEF EndStream, DelaysReveal, sessionVars, IInv, TypeOK, Read,
     Disclosure, Stamp, Envelope
<1>6. Stamps'
  BY Budgets DEF EndStream, DelaysReveal, sessionVars, IInv, TypeOK, Tracked,
     AsExpected, Stamps, Read, Frozen, Stamp, Envelope, Terminal
<1>7. Blame'
  BY Budgets DEF EndStream, DelaysReveal, sessionVars, IInv, TypeOK, Tracked,
     AsExpected, Read, Stamps, Blame, Frozen, Stamp, Envelope
<1>8. DisclosedIsSettled'
  BY Budgets DEF EndStream, DelaysReveal, sessionVars, IInv, TypeOK, Tracked,
     Disclosure, DisclosedIsSettled
<1>9. VerifiedIsTimely'
  BY Budgets DEF EndStream, DelaysReveal, sessionVars, IInv, TypeOK, Tracked,
     Disclosure, Read, Stamps, VerifiedIsTimely, Frozen, Stamp, Envelope
<1>10. BlameIsExplained'
  BY Budgets DEF EndStream, DelaysReveal, sessionVars, IInv, TypeOK, Tracked,
     Disclosure, Blame, BlameIsExplained
<1> QED
  BY <1>1, <1>2, <1>3, <1>4, <1>5, <1>6, <1>7, <1>8, <1>9, <1>10 DEF IInv

LEMMA PostRetriedIInv ==
  ASSUME IInv, PostRetried, UNCHANGED <<now, tier, intruded, slip>>
  PROVE  IInv'
<1>1. TypeOK'
  BY Budgets DEF PostRetried, sessionVars, IInv, TypeOK, Live, Terminal,
     Locations, Outcomes, Stamp, Envelope
<1>2. Tracked'
  BY Budgets DEF PostRetried, sessionVars, IInv, TypeOK, Tracked, AsExpected,
     Terminal, Outcomes
<1>3. Disclosure'
  BY Budgets DEF PostRetried, sessionVars, IInv, TypeOK, Tracked, AsExpected,
     Disclosure, Terminal
<1>4. Forgotten'
  BY Budgets DEF PostRetried, sessionVars, IInv, Forgotten, Terminal, Tracked,
     AsExpected
<1>5. Read'
  BY Budgets DEF PostRetried, sessionVars, IInv, TypeOK, Read, Disclosure, Stamp,
     Envelope
<1>6. Stamps'
  BY Budgets DEF PostRetried, sessionVars, IInv, TypeOK, Tracked, AsExpected,
     Stamps, Read, Frozen, Stamp, Envelope, Terminal
<1>7. Blame'
  BY Budgets DEF PostRetried, sessionVars, IInv, TypeOK, Tracked, AsExpected,
     Read, Stamps, Blame, Frozen, Stamp, Envelope
<1>8. DisclosedIsSettled'
  BY Budgets DEF PostRetried, sessionVars, IInv, TypeOK, Tracked, Disclosure,
     DisclosedIsSettled
<1>9. VerifiedIsTimely'
  BY Budgets DEF PostRetried, sessionVars, IInv, TypeOK, Tracked, Disclosure,
     Read, Stamps, VerifiedIsTimely, Frozen, Stamp, Envelope
<1>10. BlameIsExplained'
  BY Budgets DEF PostRetried, sessionVars, IInv, TypeOK, Tracked, Disclosure,
     Blame, BlameIsExplained
<1> QED
  BY <1>1, <1>2, <1>3, <1>4, <1>5, <1>6, <1>7, <1>8, <1>9, <1>10 DEF IInv

LEMMA HoldIInv ==
  ASSUME IInv, Hold, UNCHANGED <<now, tier, intruded, slip>>
  PROVE  IInv'
<1>1. TypeOK'
  BY Budgets DEF Hold, PostSucceeds, DelaysReveal, sessionVars, IInv, TypeOK,
     Live, Terminal, Locations, Outcomes, Stamp, Envelope
<1>2. Tracked'
  BY Budgets DEF Hold, PostSucceeds, DelaysReveal, sessionVars, IInv, TypeOK,
     Tracked, AsExpected, Terminal, Outcomes
<1>3. Disclosure'
  BY Budgets DEF Hold, PostSucceeds, DelaysReveal, sessionVars, IInv, TypeOK,
     Tracked, AsExpected, Disclosure, Terminal
<1>4. Forgotten'
  BY Budgets DEF Hold, PostSucceeds, DelaysReveal, sessionVars, IInv, Forgotten,
     Terminal, Tracked, AsExpected
<1>5. Read'
  BY Budgets DEF Hold, PostSucceeds, DelaysReveal, sessionVars, IInv, TypeOK,
     Read, Disclosure, Stamp, Envelope
<1>6. Stamps'
  BY Budgets DEF Hold, PostSucceeds, DelaysReveal, sessionVars, IInv, TypeOK,
     Tracked, AsExpected, Stamps, Read, Frozen, Stamp, Envelope, Terminal
<1>7. Blame'
  BY Budgets DEF Hold, PostSucceeds, DelaysReveal, sessionVars, IInv, TypeOK,
     Tracked, AsExpected, Read, Stamps, Blame, Frozen, Stamp, Envelope
<1>8. DisclosedIsSettled'
  BY Budgets DEF Hold, PostSucceeds, DelaysReveal, sessionVars, IInv, TypeOK,
     Tracked, Disclosure, DisclosedIsSettled
<1>9. VerifiedIsTimely'
  BY Budgets DEF Hold, PostSucceeds, DelaysReveal, sessionVars, IInv, TypeOK,
     Tracked, Disclosure, Read, Stamps, VerifiedIsTimely, Frozen, Stamp, Envelope
<1>10. BlameIsExplained'
  BY Budgets DEF Hold, PostSucceeds, DelaysReveal, sessionVars, IInv, TypeOK,
     Tracked, Disclosure, Blame, BlameIsExplained
<1> QED
  BY <1>1, <1>2, <1>3, <1>4, <1>5, <1>6, <1>7, <1>8, <1>9, <1>10 DEF IInv

LEMMA ReleaseIInv ==
  ASSUME IInv, Release, UNCHANGED <<now, tier, intruded, slip>>
  PROVE  IInv'
<1>1. TypeOK'
  BY Budgets DEF Release, PostSucceeds, DelaysReveal, sessionVars, IInv, TypeOK,
     Live, Terminal, Locations, Outcomes, Stamp, Envelope
<1>2. Tracked'
  BY Budgets DEF Release, PostSucceeds, DelaysReveal, sessionVars, IInv, TypeOK,
     Tracked, AsExpected, Terminal, Outcomes
<1>3. Disclosure'
  BY Budgets DEF Release, PostSucceeds, DelaysReveal, sessionVars, IInv, TypeOK,
     Tracked, AsExpected, Disclosure, Terminal
<1>4. Forgotten'
  BY Budgets DEF Release, PostSucceeds, DelaysReveal, sessionVars, IInv,
     Forgotten, Terminal, Tracked, AsExpected
<1>5. Read'
  BY Budgets DEF Release, PostSucceeds, DelaysReveal, sessionVars, IInv, TypeOK,
     Read, Disclosure, Stamp, Envelope
<1>6. Stamps'
  BY Budgets DEF Release, PostSucceeds, DelaysReveal, sessionVars, IInv, TypeOK,
     Tracked, AsExpected, Stamps, Read, Frozen, Stamp, Envelope, Terminal
<1>7. Blame'
  BY Budgets DEF Release, PostSucceeds, DelaysReveal, sessionVars, IInv, TypeOK,
     Tracked, AsExpected, Read, Stamps, Blame, Frozen, Stamp, Envelope
<1>8. DisclosedIsSettled'
  BY Budgets DEF Release, PostSucceeds, DelaysReveal, sessionVars, IInv, TypeOK,
     Tracked, Disclosure, DisclosedIsSettled
<1>9. VerifiedIsTimely'
  BY Budgets DEF Release, PostSucceeds, DelaysReveal, sessionVars, IInv, TypeOK,
     Tracked, Disclosure, Read, Stamps, VerifiedIsTimely, Frozen, Stamp, Envelope
<1>10. BlameIsExplained'
  BY Budgets DEF Release, PostSucceeds, DelaysReveal, sessionVars, IInv, TypeOK,
     Tracked, Disclosure, Blame, BlameIsExplained
<1> QED
  BY <1>1, <1>2, <1>3, <1>4, <1>5, <1>6, <1>7, <1>8, <1>9, <1>10 DEF IInv

LEMMA ProofArrivesIInv ==
  ASSUME IInv, ProofArrives, UNCHANGED <<now, tier, intruded, slip>>
  PROVE  IInv'
<1>1. TypeOK'
  BY Budgets DEF ProofArrives, sessionVars, IInv, TypeOK, Live, Terminal,
     Locations, Outcomes, Stamp, Envelope
<1>2. Tracked'
  BY Budgets DEF ProofArrives, sessionVars, IInv, TypeOK, Tracked, AsExpected,
     Terminal, Outcomes
<1>3. Disclosure'
  BY Budgets DEF ProofArrives, sessionVars, IInv, TypeOK, Tracked, AsExpected,
     Disclosure, Terminal
<1>4. Forgotten'
  BY Budgets DEF ProofArrives, sessionVars, IInv, Forgotten, Terminal, Tracked,
     AsExpected
<1>5. Read'
  BY Budgets DEF ProofArrives, sessionVars, IInv, TypeOK, Read, Disclosure,
     Stamp, Envelope
<1>6. Stamps'
  BY Budgets DEF ProofArrives, sessionVars, IInv, TypeOK, Tracked, AsExpected,
     Stamps, Read, Frozen, Stamp, Envelope, Terminal
<1>7. Blame'
  BY Budgets DEF ProofArrives, sessionVars, IInv, TypeOK, Tracked, AsExpected,
     Read, Stamps, Blame, Frozen, Stamp, Envelope
<1>8. DisclosedIsSettled'
  BY Budgets DEF ProofArrives, sessionVars, IInv, TypeOK, Tracked, Disclosure,
     DisclosedIsSettled
<1>9. VerifiedIsTimely'
  BY Budgets DEF ProofArrives, sessionVars, IInv, TypeOK, Tracked, Disclosure,
     Read, Stamps, VerifiedIsTimely, Frozen, Stamp, Envelope
<1>10. BlameIsExplained'
  BY Budgets DEF ProofArrives, sessionVars, IInv, TypeOK, Tracked, Disclosure,
     Blame, BlameIsExplained
<1> QED
  BY <1>1, <1>2, <1>3, <1>4, <1>5, <1>6, <1>7, <1>8, <1>9, <1>10 DEF IInv

LEMMA CancelIInv ==
  ASSUME IInv, Cancel, UNCHANGED <<now, tier, intruded, slip>>
  PROVE  IInv'
<1>1. TypeOK'
  <2>1. /\ pc' = pc \/ pc' = "ended"
        /\ outcome' = outcome \/ outcome' = "cancelled"
        /\ cancelled' = TRUE
    BY DEF Cancel
  <2>2. UNCHANGED <<sessionVars, tokens, tokenAt, envelope, stamp, proof, sent, tries,
                    peerFault, now, tier, intruded>>
    BY DEF Cancel
  <2> QED
    BY <2>1, <2>2 DEF sessionVars, IInv, TypeOK, Locations, Outcomes
<1>2. Tracked'
  BY Budgets DEF Cancel, sessionVars, IInv, TypeOK, Tracked, AsExpected,
     Terminal, Outcomes
<1>3. Disclosure'
  BY Budgets DEF Cancel, sessionVars, IInv, TypeOK, Tracked, AsExpected,
     Disclosure, Terminal
<1>4. Forgotten'
  BY Budgets DEF Cancel, sessionVars, IInv, Forgotten, Terminal, Tracked,
     AsExpected
<1>5. Read'
  BY Budgets DEF Cancel, sessionVars, IInv, TypeOK, Read, Disclosure, Stamp,
     Envelope
<1>6. Stamps'
  BY Budgets DEF Cancel, sessionVars, IInv, TypeOK, Tracked, AsExpected, Stamps,
     Read, Frozen, Stamp, Envelope, Terminal
<1>7. Blame'
  BY Budgets DEF Cancel, sessionVars, IInv, TypeOK, Tracked, AsExpected, Read,
     Stamps, Blame, Frozen, Stamp, Envelope
<1>8. DisclosedIsSettled'
  BY Budgets DEF Cancel, sessionVars, IInv, TypeOK, Tracked, Disclosure,
     DisclosedIsSettled
<1>9. VerifiedIsTimely'
  BY Budgets DEF Cancel, sessionVars, IInv, TypeOK, Tracked, Disclosure, Read,
     Stamps, VerifiedIsTimely, Frozen, Stamp, Envelope
<1>10. BlameIsExplained'
  BY Budgets DEF Cancel, sessionVars, IInv, TypeOK, Tracked, Disclosure, Blame,
     BlameIsExplained
<1> QED
  BY <1>1, <1>2, <1>3, <1>4, <1>5, <1>6, <1>7, <1>8, <1>9, <1>10 DEF IInv

LEMMA ReadDoneIInv ==
  ASSUME IInv, ReadDone, UNCHANGED <<now, tier, intruded, slip>>
  PROVE  IInv'
<1>1. CASE AcceptPrecommit(tokenAt, envelope.at, envelope.sound) /\ state' = "PRECOMMIT_ACCEPTED"
  <2>1. /\ pc = "stream" /\ pc' = "select" /\ stamp' = now /\ envelope # None
        /\ peerFault' = (peerFault \/ (hold # None /\ DelaysReveal))
        /\ UNCHANGED <<tokens, tokenAt, envelope, proof, sent, tries, cancelled, outcome>>
    BY <1>1, Budgets DEF ReadDone, AcceptPrecommit, Terminal
  <2>2. /\ peerFault' \in BOOLEAN
        /\ peerFault \/ (hold # None /\ now > envelope.at + hold) => peerFault'
    BY <1>1, <2>1, Budgets DEF ReadDone, AcceptPrecommit, Terminal, DelaysReveal
  <2>3. /\ retained' = retained \cup {"envelope"}
        /\ deadline' = tokenAt + PrecommitBudget /\ precommitAt' = envelope.at
        /\ UNCHANGED <<hold, selectedAt, revealedAt>>
    BY <1>1, <2>1, <2>2, Budgets DEF AcceptPrecommit, Clear
  <2>4. /\ tokenAt \in Nat /\ envelope.at \in Nat
    BY <1>1, <2>1, <2>2, <2>3, Budgets DEF ReadDone, IInv, TypeOK, Read, Stamp,
       Envelope
  <2>5. /\ envelope.sound /\ ~Expired(envelope.at, tokenAt + PrecommitBudget)
    BY <1>1, <2>1, <2>2, <2>3, <2>4, Budgets DEF AcceptPrecommit, Clear
  <2>6. /\ envelope.at <= tokenAt + PrecommitBudget
    BY <1>1, <2>1, <2>2, <2>3, <2>4, <2>5, Budgets DEF Expired
  <2>7. TypeOK'
    BY <1>1, <2>1, <2>2, <2>3, <2>4, <2>5, <2>6, Budgets DEF IInv, TypeOK, Live,
       Terminal, Locations, Outcomes, Stamp, Envelope
  <2>8. Tracked'
    BY <1>1, <2>1, <2>2, <2>3, <2>4, <2>5, <2>6, Budgets DEF IInv, TypeOK,
       Tracked, AsExpected, Terminal, Outcomes
  <2>9. Disclosure'
    BY <1>1, <2>1, <2>2, <2>3, <2>4, <2>5, <2>6, Budgets DEF IInv, TypeOK,
       Tracked, AsExpected, Disclosure, Terminal
  <2>10. Forgotten'
    BY <1>1, <2>1, <2>2, <2>3, <2>4, <2>5, <2>6, Budgets DEF IInv, Forgotten,
       Terminal, Tracked, AsExpected
  <2>11. Read'
    BY <1>1, <2>1, <2>2, <2>3, <2>4, <2>5, <2>6, Budgets DEF IInv, TypeOK, Read,
       Disclosure, Stamp, Envelope
  <2>12. Stamps'
    BY <1>1, <2>1, <2>2, <2>3, <2>4, <2>5, <2>6, Budgets DEF IInv, TypeOK,
       Tracked, AsExpected, Stamps, Read, Frozen, Stamp, Envelope, Terminal
  <2>13. Blame'
    BY <1>1, <2>1, <2>2, <2>3, <2>4, <2>5, <2>6, Budgets DEF IInv, TypeOK,
       Tracked, AsExpected, Read, Stamps, Blame, Frozen, Stamp, Envelope
  <2>14. DisclosedIsSettled'
    BY <1>1, <2>1, <2>2, <2>3, <2>4, <2>5, <2>6, Budgets DEF IInv, TypeOK,
       Tracked, Disclosure, DisclosedIsSettled
  <2>15. VerifiedIsTimely'
    BY <1>1, <2>1, <2>2, <2>3, <2>4, <2>5, <2>6, Budgets DEF IInv, TypeOK,
       Tracked, Disclosure, Read, Stamps, VerifiedIsTimely, Frozen, Stamp, Envelope
  <2>16. BlameIsExplained'
    BY <1>1, <2>1, <2>2, <2>3, <2>4, <2>5, <2>6, Budgets DEF IInv, TypeOK,
       Tracked, Disclosure, Blame, BlameIsExplained
  <2> QED
    BY <2>7, <2>8, <2>9, <2>10, <2>11, <2>12, <2>13, <2>14, <2>15, <2>16 DEF IInv
<1>2. CASE AcceptPrecommit(tokenAt, envelope.at, envelope.sound) /\ state' \in Terminal \ {"VERIFIED", "LIGHT_REVEALED"}
  <2>1. Raise("proof", (envelope.at > tokenAt + PrecommitBudget \/ ~envelope.sound))
    BY <1>2 DEF ReadDone, AcceptPrecommit, Clear, Terminal
  <2>2. /\ retained' = {} /\ hold' = hold
        /\ deadline' \in Stamp /\ precommitAt' \in Stamp
        /\ selectedAt' \in Stamp /\ revealedAt' \in Stamp
    BY <1>2, Budgets DEF ReadDone, AcceptPrecommit, Clear, IInv, TypeOK, Tracked,
       AsExpected, Disclosure, Forgotten, Read, Stamps, Blame, DisclosedIsSettled,
       VerifiedIsTimely, BlameIsExplained, Live, Terminal, Locations, Outcomes,
       Stamp, Envelope, Frozen
  <2>3. \/ (envelope.at > tokenAt + PrecommitBudget \/ ~envelope.sound) \/ peerFault \/ intruded
        \/ tier /\ ~sent /\ state' = "EXPIRED"
        \/ \E budget \in {PrecommitBudget, RevealWindow, HardBudget, hold} \ {None} :
             now + budget >= TimeLimit
    BY <1>2, Budgets DEF ReadDone, AcceptPrecommit, Expired, Clear, IInv, TypeOK,
       Tracked, AsExpected, Disclosure, Forgotten, Read, Stamps, Blame,
       DisclosedIsSettled, VerifiedIsTimely, BlameIsExplained, Live, Terminal,
       Locations, Outcomes, Stamp, Envelope, Frozen
  <2>4. pc # "ended" /\ (envelope.at > tokenAt + PrecommitBudget \/ ~envelope.sound) \in BOOLEAN
    BY <1>2 DEF ReadDone, IInv, TypeOK, Tracked, AsExpected, Disclosure,
       Forgotten, Read, Stamps, Blame, DisclosedIsSettled, VerifiedIsTimely,
       BlameIsExplained, Live, Terminal, Locations, Outcomes, Stamp, Envelope,
       Frozen
  <2> QED
    BY <1>2, <2>1, <2>2, <2>3, <2>4, RaiseIInv DEF Terminal
<1>3. CASE state # "AWAITING_PRECOMMIT" /\ Quit("proof", FALSE) /\ pc # "ended"
  <2>1. intruded
    BY <1>3 DEF ReadDone, IInv, Tracked, AsExpected, Disclosure
  <2> QED
    BY <1>3, <2>1, QuitIInv
<1> QED
  BY <1>1, <1>2, <1>3 DEF ReadDone, AcceptPrecommit, Clear, Terminal

LEMMA SelectAfterDoneIInv ==
  ASSUME IInv, SelectAfterDone, UNCHANGED <<now, tier, intruded, slip>>
  PROVE  IInv'
<1>1. CASE SelectTier(stamp, tier) /\ state' = "HARD_SELECTED"
  <2>1. /\ pc = "select" /\ pc' = IF cancelled THEN "ended" ELSE "tail"
        /\ outcome' = IF cancelled THEN "cancelled" ELSE outcome
        /\ UNCHANGED <<tokens, tokenAt, envelope, proof, sent, tries, cancelled, hold, stamp, peerFault>>
        /\ tier /\ state = "PRECOMMIT_ACCEPTED" /\ retained' = retained \cup {"decision"} /\ selectedAt' = stamp
        /\ deadline' = IF hold = None THEN stamp + RevealWindow ELSE precommitAt + hold
        /\ UNCHANGED <<precommitAt, revealedAt>>
    BY <1>1, Budgets DEF SelectAfterDone, SelectTier, Clear, Expired, Terminal
  <2>2. TypeOK'
    BY <1>1, <2>1, Budgets DEF IInv, TypeOK, Tracked, AsExpected, Disclosure,
       Forgotten, Read, Stamps, Blame, DisclosedIsSettled, VerifiedIsTimely,
       BlameIsExplained, Live, Terminal, Locations, Outcomes, Stamp, Envelope,
       Frozen
  <2>3. Tracked'
    BY <1>1, <2>1, Budgets DEF IInv, TypeOK, Tracked, AsExpected, Terminal,
       Outcomes
  <2>4. Disclosure'
    BY <1>1, <2>1, Budgets DEF IInv, TypeOK, Tracked, AsExpected, Disclosure,
       Terminal
  <2>5. Forgotten'
    BY <1>1, <2>1, Budgets DEF IInv, Forgotten, Terminal, Tracked, AsExpected
  <2>6. Read'
    BY <1>1, <2>1, Budgets DEF IInv, TypeOK, Read, Disclosure, Stamp, Envelope
  <2>7. Stamps'
    BY <1>1, <2>1, Budgets DEF IInv, TypeOK, Tracked, AsExpected, Stamps, Read,
       Frozen, Stamp, Envelope, Terminal
  <2>8. Blame'
    BY <1>1, <2>1, Budgets DEF IInv, TypeOK, Tracked, AsExpected, Read, Stamps,
       Blame, Frozen, Stamp, Envelope
  <2>9. DisclosedIsSettled'
    BY <1>1, <2>1, Budgets DEF IInv, TypeOK, Tracked, Disclosure,
       DisclosedIsSettled
  <2>10. VerifiedIsTimely'
    BY <1>1, <2>1, Budgets DEF IInv, TypeOK, Tracked, Disclosure, Read, Stamps,
       VerifiedIsTimely, Frozen, Stamp, Envelope
  <2>11. BlameIsExplained'
    BY <1>1, <2>1, Budgets DEF IInv, TypeOK, Tracked, Disclosure, Blame,
       BlameIsExplained
  <2> QED
    BY <2>2, <2>3, <2>4, <2>5, <2>6, <2>7, <2>8, <2>9, <2>10, <2>11 DEF IInv
<1>2. CASE SelectTier(stamp, tier) /\ state' = "LIGHT_REVEALED"
  <2>1. /\ pc = "select" /\ pc' = IF cancelled THEN "ended" ELSE "tail"
        /\ outcome' = IF cancelled THEN "cancelled" ELSE outcome
        /\ UNCHANGED <<tokens, tokenAt, envelope, proof, sent, tries, cancelled, hold, stamp, peerFault>>
        /\ ~tier /\ state = "PRECOMMIT_ACCEPTED" /\ retained' = {} /\ selectedAt' = None /\ precommitAt' = None
        /\ revealedAt' = None /\ UNCHANGED deadline
    BY <1>2, Budgets DEF SelectAfterDone, SelectTier, Clear, Expired, Terminal
  <2>2. TypeOK'
    BY <1>2, <2>1, Budgets DEF IInv, TypeOK, Live, Terminal, Locations, Outcomes,
       Stamp, Envelope
  <2>3. Tracked'
    BY <1>2, <2>1, Budgets DEF IInv, TypeOK, Tracked, AsExpected, Terminal,
       Outcomes
  <2>4. Disclosure'
    BY <1>2, <2>1, Budgets DEF IInv, TypeOK, Tracked, AsExpected, Disclosure,
       Terminal
  <2>5. Forgotten'
    BY <1>2, <2>1, Budgets DEF IInv, Forgotten, Terminal, Tracked, AsExpected
  <2>6. Read'
    BY <1>2, <2>1, Budgets DEF IInv, TypeOK, Read, Disclosure, Stamp, Envelope
  <2>7. Stamps'
    BY <1>2, <2>1, Budgets DEF IInv, TypeOK, Tracked, AsExpected, Stamps, Read,
       Frozen, Stamp, Envelope, Terminal
  <2>8. Blame'
    BY <1>2, <2>1, Budgets DEF IInv, TypeOK, Tracked, AsExpected, Read, Stamps,
       Blame, Frozen, Stamp, Envelope
  <2>9. DisclosedIsSettled'
    BY <1>2, <2>1, Budgets DEF IInv, TypeOK, Tracked, Disclosure,
       DisclosedIsSettled
  <2>10. VerifiedIsTimely'
    BY <1>2, <2>1, Budgets DEF IInv, TypeOK, Tracked, Disclosure, Read, Stamps,
       VerifiedIsTimely, Frozen, Stamp, Envelope
  <2>11. BlameIsExplained'
    BY <1>2, <2>1, Budgets DEF IInv, TypeOK, Tracked, Disclosure, Blame,
       BlameIsExplained
  <2> QED
    BY <2>2, <2>3, <2>4, <2>5, <2>6, <2>7, <2>8, <2>9, <2>10, <2>11 DEF IInv
<1>3. CASE SelectTier(stamp, tier) /\ state' \in Terminal \ {"VERIFIED", "LIGHT_REVEALED"}
  <2>1. Raise("proof", FALSE)
    BY <1>3 DEF SelectAfterDone, SelectTier, Clear, Terminal
  <2>2. /\ retained' = {} /\ hold' = hold
        /\ deadline' \in Stamp /\ precommitAt' \in Stamp
        /\ selectedAt' \in Stamp /\ revealedAt' \in Stamp
    BY <1>3, Budgets DEF SelectAfterDone, SelectTier, Clear, IInv, TypeOK,
       Tracked, AsExpected, Disclosure, Forgotten, Read, Stamps, Blame,
       DisclosedIsSettled, VerifiedIsTimely, BlameIsExplained, Live, Terminal,
       Locations, Outcomes, Stamp, Envelope, Frozen
  <2>3. \/ FALSE \/ peerFault \/ intruded
        \/ tier /\ ~sent /\ state' = "EXPIRED"
        \/ \E budget \in {PrecommitBudget, RevealWindow, HardBudget, hold} \ {None} :
             now + budget >= TimeLimit
    BY <1>3, Budgets DEF SelectAfterDone, SelectTier, Expired, Clear, IInv,
       TypeOK, Tracked, AsExpected, Disclosure, Forgotten, Read, Stamps, Blame,
       DisclosedIsSettled, VerifiedIsTimely, BlameIsExplained, Live, Terminal,
       Locations, Outcomes, Stamp, Envelope, Frozen
  <2>4. pc # "ended" /\ FALSE \in BOOLEAN
    BY <1>3 DEF SelectAfterDone, IInv, TypeOK, Tracked, AsExpected, Disclosure,
       Forgotten, Read, Stamps, Blame, DisclosedIsSettled, VerifiedIsTimely,
       BlameIsExplained, Live, Terminal, Locations, Outcomes, Stamp, Envelope,
       Frozen
  <2> QED
    BY <1>3, <2>1, <2>2, <2>3, <2>4, RaiseIInv DEF Terminal
<1>4. CASE state # "PRECOMMIT_ACCEPTED" /\ Quit("proof", FALSE) /\ pc # "ended"
  <2>1. intruded
    BY <1>4 DEF SelectAfterDone, IInv, Tracked, AsExpected, Disclosure
  <2> QED
    BY <1>4, <2>1, QuitIInv
<1> QED
  BY <1>1, <1>2, <1>3, <1>4 DEF SelectAfterDone, SelectTier, Clear, Terminal

LEMMA FinalizeIInv ==
  ASSUME IInv, Finalize, UNCHANGED <<now, tier, intruded, slip>>
  PROVE  IInv'
<1>1. CASE RevealNonce(now) /\ state' = "NONCE_REVEALED"
  <2>1. /\ pc = "finalize" /\ tier /\ pc' = "opening" /\ sent' = TRUE /\ UNCHANGED stamp
        /\ UNCHANGED <<tokens, tokenAt, envelope, proof, tries, cancelled, outcome, peerFault>>
    BY <1>1, Budgets DEF Finalize, RevealNonce, Terminal, sessionVars
  <2>2. /\ state = "HARD_SELECTED" /\ revealedAt' = now /\ deadline' = now + HardBudget
        /\ UNCHANGED <<retained, precommitAt, selectedAt, hold>>
    BY <1>1, <2>1, Budgets DEF RevealNonce, Clear
  <2>3. TypeOK'
    BY <1>1, <2>1, <2>2, Budgets DEF IInv, TypeOK, Live, Terminal, Locations,
       Outcomes, Stamp, Envelope
  <2>4. Tracked'
    BY <1>1, <2>1, <2>2, Budgets DEF IInv, TypeOK, Tracked, AsExpected, Terminal,
       Outcomes
  <2>5. Disclosure'
    BY <1>1, <2>1, <2>2, Budgets DEF IInv, TypeOK, Tracked, AsExpected,
       Disclosure, Terminal
  <2>6. Forgotten'
    BY <1>1, <2>1, <2>2, Budgets DEF IInv, Forgotten, Terminal, Tracked,
       AsExpected
  <2>7. Read'
    BY <1>1, <2>1, <2>2, Budgets DEF IInv, TypeOK, Read, Disclosure, Stamp,
       Envelope
  <2>8. Stamps'
    BY <1>1, <2>1, <2>2, Budgets DEF IInv, TypeOK, Tracked, AsExpected, Stamps,
       Read, Frozen, Stamp, Envelope, Terminal
  <2>9. Blame'
    BY <1>1, <2>1, <2>2, Budgets DEF IInv, TypeOK, Tracked, AsExpected, Read,
       Stamps, Blame, Frozen, Stamp, Envelope
  <2>10. DisclosedIsSettled'
    BY <1>1, <2>1, <2>2, Budgets DEF IInv, TypeOK, Tracked, Disclosure,
       DisclosedIsSettled
  <2>11. VerifiedIsTimely'
    BY <1>1, <2>1, <2>2, Budgets DEF IInv, TypeOK, Tracked, Disclosure, Read,
       Stamps, VerifiedIsTimely, Frozen, Stamp, Envelope
  <2>12. BlameIsExplained'
    BY <1>1, <2>1, <2>2, Budgets DEF IInv, TypeOK, Tracked, Disclosure, Blame,
       BlameIsExplained
  <2> QED
    BY <2>3, <2>4, <2>5, <2>6, <2>7, <2>8, <2>9, <2>10, <2>11, <2>12 DEF IInv
<1>2. CASE RevealNonce(now) /\ state' \in Terminal \ {"VERIFIED", "LIGHT_REVEALED"}
  <2>1. Raise("proof", FALSE)
    BY <1>2 DEF Finalize, RevealNonce, Clear, Terminal, sessionVars
  <2>2. /\ retained' = {} /\ hold' = hold
        /\ deadline' \in Stamp /\ precommitAt' \in Stamp
        /\ selectedAt' \in Stamp /\ revealedAt' \in Stamp
    BY <1>2, Budgets DEF Finalize, RevealNonce, Clear, IInv, TypeOK, Tracked,
       AsExpected, Disclosure, Forgotten, Read, Stamps, Blame, DisclosedIsSettled,
       VerifiedIsTimely, BlameIsExplained, Live, Terminal, Locations, Outcomes,
       Stamp, Envelope, Frozen
  <2>3. \/ FALSE \/ peerFault \/ intruded
        \/ tier /\ ~sent /\ state' = "EXPIRED"
        \/ \E budget \in {PrecommitBudget, RevealWindow, HardBudget, hold} \ {None} :
             now + budget >= TimeLimit
    BY <1>2, Budgets DEF Finalize, RevealNonce, Expired, Clear, IInv, TypeOK,
       Tracked, AsExpected, Disclosure, Forgotten, Read, Stamps, Blame,
       DisclosedIsSettled, VerifiedIsTimely, BlameIsExplained, Live, Terminal,
       Locations, Outcomes, Stamp, Envelope, Frozen
  <2>4. pc # "ended" /\ FALSE \in BOOLEAN
    BY <1>2 DEF Finalize, IInv, TypeOK, Tracked, AsExpected, Disclosure,
       Forgotten, Read, Stamps, Blame, DisclosedIsSettled, VerifiedIsTimely,
       BlameIsExplained, Live, Terminal, Locations, Outcomes, Stamp, Envelope,
       Frozen
  <2> QED
    BY <1>2, <2>1, <2>2, <2>3, <2>4, RaiseIInv DEF Terminal
<1>3. CASE tier /\ state # "HARD_SELECTED" /\ Quit("proof", FALSE) /\ pc # "ended"
  <2>1. intruded
    BY <1>3 DEF Finalize, IInv, Tracked, AsExpected, Disclosure
  <2> QED
    BY <1>3, <2>1, QuitIInv
<1>4. CASE pc' = "release"
  <2>1. /\ pc = "finalize" /\ ~tier
        /\ UNCHANGED <<sessionVars, tokens, tokenAt, envelope, stamp, proof, sent,
                       tries, outcome, cancelled, peerFault>>
    BY <1>4 DEF Finalize, Quit, Raise
  <2>2. TypeOK'
    BY <1>4, <2>1, Budgets DEF sessionVars, IInv, TypeOK, Live, Terminal,
       Locations, Outcomes, Stamp, Envelope
  <2>3. Tracked'
    BY <1>4, <2>1, Budgets DEF sessionVars, IInv, TypeOK, Tracked, AsExpected,
       Terminal, Outcomes
  <2>4. Disclosure'
    BY <1>4, <2>1, Budgets DEF sessionVars, IInv, TypeOK, Tracked, AsExpected,
       Disclosure, Terminal
  <2>5. Forgotten'
    BY <1>4, <2>1, Budgets DEF sessionVars, IInv, Forgotten, Terminal, Tracked,
       AsExpected
  <2>6. Read'
    BY <1>4, <2>1, Budgets DEF sessionVars, IInv, TypeOK, Read, Disclosure,
       Stamp, Envelope
  <2>7. Stamps'
    BY <1>4, <2>1, Budgets DEF sessionVars, IInv, TypeOK, Tracked, AsExpected,
       Stamps, Read, Frozen, Stamp, Envelope, Terminal
  <2>8. Blame'
    BY <1>4, <2>1, Budgets DEF sessionVars, IInv, TypeOK, Tracked, AsExpected,
       Read, Stamps, Blame, Frozen, Stamp, Envelope
  <2>9. DisclosedIsSettled'
    BY <1>4, <2>1, Budgets DEF sessionVars, IInv, TypeOK, Tracked, Disclosure,
       DisclosedIsSettled
  <2>10. VerifiedIsTimely'
    BY <1>4, <2>1, Budgets DEF sessionVars, IInv, TypeOK, Tracked, Disclosure,
       Read, Stamps, VerifiedIsTimely, Frozen, Stamp, Envelope
  <2>11. BlameIsExplained'
    BY <1>4, <2>1, Budgets DEF sessionVars, IInv, TypeOK, Tracked, Disclosure,
       Blame, BlameIsExplained
  <2> QED
    BY <2>2, <2>3, <2>4, <2>5, <2>6, <2>7, <2>8, <2>9, <2>10, <2>11 DEF IInv
<1> QED
  BY <1>1, <1>2, <1>3, <1>4 DEF Finalize, RevealNonce, Clear, Terminal

LEMMA StartVerifyIInv ==
  ASSUME IInv, StartVerify, UNCHANGED <<now, tier, intruded, slip>>
  PROVE  IInv'
<1>1. CASE BeginVerify(stamp) /\ state' = "VERIFYING"
  <2>1. /\ pc = "verify" /\ pc' = "verifying" /\ UNCHANGED <<sent, stamp>>
        /\ UNCHANGED <<tokens, tokenAt, envelope, proof, tries, cancelled, outcome, peerFault>>
    BY <1>1, Budgets DEF StartVerify, BeginVerify, Terminal
  <2>2. /\ state = "NONCE_REVEALED" /\ ~Expired(stamp, deadline) /\ stamp >= revealedAt
        /\ UNCHANGED <<retained, deadline, revealedAt, precommitAt, selectedAt, hold>>
    BY <1>1, <2>1, Budgets DEF BeginVerify, Clear
  <2>3. /\ stamp <= deadline
    BY <1>1, <2>1, <2>2, Budgets DEF Expired, IInv, TypeOK, Stamps, Read, Stamp
  <2>4. TypeOK'
    BY <1>1, <2>1, <2>2, <2>3, Budgets DEF IInv, TypeOK, Live, Terminal,
       Locations, Outcomes, Stamp, Envelope
  <2>5. Tracked'
    BY <1>1, <2>1, <2>2, <2>3, Budgets DEF IInv, TypeOK, Tracked, AsExpected,
       Terminal, Outcomes
  <2>6. Disclosure'
    BY <1>1, <2>1, <2>2, <2>3, Budgets DEF IInv, TypeOK, Tracked, AsExpected,
       Disclosure, Terminal
  <2>7. Forgotten'
    BY <1>1, <2>1, <2>2, <2>3, Budgets DEF IInv, Forgotten, Terminal, Tracked,
       AsExpected
  <2>8. Read'
    BY <1>1, <2>1, <2>2, <2>3, Budgets DEF IInv, TypeOK, Read, Disclosure, Stamp,
       Envelope
  <2>9. Stamps'
    BY <1>1, <2>1, <2>2, <2>3, Budgets DEF IInv, TypeOK, Tracked, AsExpected,
       Stamps, Read, Frozen, Stamp, Envelope, Terminal
  <2>10. Blame'
    BY <1>1, <2>1, <2>2, <2>3, Budgets DEF IInv, TypeOK, Tracked, AsExpected,
       Read, Stamps, Blame, Frozen, Stamp, Envelope
  <2>11. DisclosedIsSettled'
    BY <1>1, <2>1, <2>2, <2>3, Budgets DEF IInv, TypeOK, Tracked, Disclosure,
       DisclosedIsSettled
  <2>12. VerifiedIsTimely'
    BY <1>1, <2>1, <2>2, <2>3, Budgets DEF IInv, TypeOK, Tracked, Disclosure,
       Read, Stamps, VerifiedIsTimely, Frozen, Stamp, Envelope
  <2>13. BlameIsExplained'
    BY <1>1, <2>1, <2>2, <2>3, Budgets DEF IInv, TypeOK, Tracked, Disclosure,
       Blame, BlameIsExplained
  <2> QED
    BY <2>4, <2>5, <2>6, <2>7, <2>8, <2>9, <2>10, <2>11, <2>12, <2>13 DEF IInv
<1>2. CASE BeginVerify(stamp) /\ state' \in Terminal \ {"VERIFIED", "LIGHT_REVEALED"}
  <2>1. Raise("proof", FALSE)
    BY <1>2 DEF StartVerify, BeginVerify, Clear, Terminal
  <2>2. /\ retained' = {} /\ hold' = hold
        /\ deadline' \in Stamp /\ precommitAt' \in Stamp
        /\ selectedAt' \in Stamp /\ revealedAt' \in Stamp
    BY <1>2, Budgets DEF StartVerify, BeginVerify, Clear, IInv, TypeOK, Tracked,
       AsExpected, Disclosure, Forgotten, Read, Stamps, Blame, DisclosedIsSettled,
       VerifiedIsTimely, BlameIsExplained, Live, Terminal, Locations, Outcomes,
       Stamp, Envelope, Frozen
  <2>3. \/ FALSE \/ peerFault \/ intruded
        \/ tier /\ ~sent /\ state' = "EXPIRED"
        \/ \E budget \in {PrecommitBudget, RevealWindow, HardBudget, hold} \ {None} :
             now + budget >= TimeLimit
    BY <1>2, Budgets DEF StartVerify, BeginVerify, Expired, Clear, IInv, TypeOK,
       Tracked, AsExpected, Disclosure, Forgotten, Read, Stamps, Blame,
       DisclosedIsSettled, VerifiedIsTimely, BlameIsExplained, Live, Terminal,
       Locations, Outcomes, Stamp, Envelope, Frozen
  <2>4. pc # "ended" /\ FALSE \in BOOLEAN
    BY <1>2 DEF StartVerify, IInv, TypeOK, Tracked, AsExpected, Disclosure,
       Forgotten, Read, Stamps, Blame, DisclosedIsSettled, VerifiedIsTimely,
       BlameIsExplained, Live, Terminal, Locations, Outcomes, Stamp, Envelope,
       Frozen
  <2> QED
    BY <1>2, <2>1, <2>2, <2>3, <2>4, RaiseIInv DEF Terminal
<1>3. CASE state # "NONCE_REVEALED" /\ Quit("proof", FALSE) /\ pc # "ended"
  <2>1. intruded
    BY <1>3 DEF StartVerify, IInv, Tracked, AsExpected, Disclosure
  <2> QED
    BY <1>3, <2>1, QuitIInv
<1> QED
  BY <1>1, <1>2, <1>3 DEF StartVerify, BeginVerify, Clear, Terminal

LEMMA FinishVerifyIInv ==
  ASSUME IInv, FinishVerify, UNCHANGED <<now, tier, intruded, slip>>
  PROVE  IInv'
<1>1. CASE EndVerify(proof) /\ proof /\ state' = "VERIFIED"
  <2>1. /\ pc = "verifying" /\ pc' = "ended" /\ outcome' = "verified" /\ UNCHANGED <<sent, stamp>>
        /\ UNCHANGED <<tokens, tokenAt, envelope, proof, tries, cancelled, peerFault>>
    BY <1>1, Budgets DEF FinishVerify, EndVerify, Clear, Quit, Raise
  <2>2. /\ state = "VERIFYING" /\ retained' = {} /\ precommitAt' = None /\ selectedAt' = None
        /\ revealedAt' = None /\ UNCHANGED <<deadline, hold>>
    BY <1>1, <2>1, Budgets DEF EndVerify, Clear
  <2>3. TypeOK'
    BY <1>1, <2>1, <2>2, Budgets DEF IInv, TypeOK, Live, Terminal, Locations,
       Outcomes, Stamp, Envelope
  <2>4. Tracked'
    BY <1>1, <2>1, <2>2, Budgets DEF IInv, TypeOK, Tracked, AsExpected, Terminal,
       Outcomes
  <2>5. Disclosure'
    BY <1>1, <2>1, <2>2, Budgets DEF IInv, TypeOK, Tracked, AsExpected,
       Disclosure, Terminal
  <2>6. Forgotten'
    BY <1>1, <2>1, <2>2, Budgets DEF IInv, Forgotten, Terminal, Tracked,
       AsExpected
  <2>7. Read'
    BY <1>1, <2>1, <2>2, Budgets DEF IInv, TypeOK, Read, Disclosure, Stamp,
       Envelope
  <2>8. Stamps'
    BY <1>1, <2>1, <2>2, Budgets DEF IInv, TypeOK, Tracked, AsExpected, Stamps,
       Read, Frozen, Stamp, Envelope, Terminal
  <2>9. Blame'
    BY <1>1, <2>1, <2>2, Budgets DEF IInv, TypeOK, Tracked, AsExpected, Read,
       Stamps, Blame, Frozen, Stamp, Envelope
  <2>10. DisclosedIsSettled'
    BY <1>1, <2>1, <2>2, Budgets DEF IInv, TypeOK, Tracked, Disclosure,
       DisclosedIsSettled
  <2>11. VerifiedIsTimely'
    BY <1>1, <2>1, <2>2, Budgets DEF IInv, TypeOK, Tracked, Disclosure, Read,
       Stamps, VerifiedIsTimely, Frozen, Stamp, Envelope
  <2>12. BlameIsExplained'
    BY <1>1, <2>1, <2>2, Budgets DEF IInv, TypeOK, Tracked, Disclosure, Blame,
       BlameIsExplained
  <2> QED
    BY <2>3, <2>4, <2>5, <2>6, <2>7, <2>8, <2>9, <2>10, <2>11, <2>12 DEF IInv
<1>2. CASE EndVerify(proof) /\ state' \in Terminal \ {"VERIFIED", "LIGHT_REVEALED"}
  <2>1. Raise("proof", FALSE)
    BY <1>2 DEF FinishVerify, EndVerify, Clear, Terminal
  <2>2. /\ retained' = {} /\ hold' = hold
        /\ deadline' \in Stamp /\ precommitAt' \in Stamp
        /\ selectedAt' \in Stamp /\ revealedAt' \in Stamp
    BY <1>2, Budgets DEF FinishVerify, EndVerify, Clear, IInv, TypeOK, Tracked,
       AsExpected, Disclosure, Forgotten, Read, Stamps, Blame, DisclosedIsSettled,
       VerifiedIsTimely, BlameIsExplained, Live, Terminal, Locations, Outcomes,
       Stamp, Envelope, Frozen
  <2>3. \/ FALSE \/ peerFault \/ intruded
        \/ tier /\ ~sent /\ state' = "EXPIRED"
        \/ \E budget \in {PrecommitBudget, RevealWindow, HardBudget, hold} \ {None} :
             now + budget >= TimeLimit
    BY <1>2, Budgets DEF FinishVerify, EndVerify, Expired, Clear, IInv, TypeOK,
       Tracked, AsExpected, Disclosure, Forgotten, Read, Stamps, Blame,
       DisclosedIsSettled, VerifiedIsTimely, BlameIsExplained, Live, Terminal,
       Locations, Outcomes, Stamp, Envelope, Frozen
  <2>4. pc # "ended" /\ FALSE \in BOOLEAN
    BY <1>2 DEF FinishVerify, IInv, TypeOK, Tracked, AsExpected, Disclosure,
       Forgotten, Read, Stamps, Blame, DisclosedIsSettled, VerifiedIsTimely,
       BlameIsExplained, Live, Terminal, Locations, Outcomes, Stamp, Envelope,
       Frozen
  <2> QED
    BY <1>2, <2>1, <2>2, <2>3, <2>4, RaiseIInv DEF Terminal
<1>3. CASE state # "VERIFYING" /\ Quit("proof", FALSE) /\ pc # "ended"
  <2>1. intruded
    BY <1>3 DEF FinishVerify, IInv, Tracked, AsExpected, Disclosure
  <2> QED
    BY <1>3, <2>1, QuitIInv
<1> QED
  BY <1>1, <1>2, <1>3 DEF FinishVerify, EndVerify, Clear, Terminal

LEMMA IntrudeIInv ==
  ASSUME IInv, Intrude
  PROVE  IInv'
<1>1. /\ pc # "ended" /\ state \notin Terminal /\ UNCHANGED <<driverVars, now, tier, slip>>
      /\ intruded' = TRUE /\ state' \in {"FAILED", "EXPIRED", "ABORTED"}
      /\ retained' = {} /\ UNCHANGED <<hold, deadline>>
      /\ precommitAt' = None /\ selectedAt' = None /\ revealedAt' = None
  BY DEF Intrude, FailClosed, Abort, Expire, Clear
<1>2. TypeOK'
  BY <1>1, Budgets DEF driverVars, IInv, TypeOK, Live, Terminal, Locations,
     Outcomes, Stamp, Envelope
<1>3. Tracked'
  BY <1>1, Budgets DEF driverVars, IInv, TypeOK, Tracked, AsExpected, Terminal,
     Outcomes
<1>4. Disclosure'
  BY <1>1, Budgets DEF driverVars, IInv, TypeOK, Tracked, AsExpected, Disclosure,
     Terminal
<1>5. Forgotten'
  BY <1>1, Budgets DEF driverVars, IInv, Forgotten, Terminal, Tracked, AsExpected
<1>6. Read'
  BY <1>1, Budgets DEF driverVars, IInv, TypeOK, Read, Disclosure, Stamp,
     Envelope
<1>7. Stamps'
  BY <1>1, Budgets DEF driverVars, IInv, TypeOK, Tracked, AsExpected, Stamps,
     Read, Frozen, Stamp, Envelope, Terminal
<1>8. Blame'
  BY <1>1, Budgets DEF driverVars, IInv, TypeOK, Tracked, AsExpected, Read,
     Stamps, Blame, Frozen, Stamp, Envelope
<1>9. DisclosedIsSettled'
  BY <1>1, Budgets DEF driverVars, IInv, TypeOK, Tracked, Disclosure,
     DisclosedIsSettled
<1>10. VerifiedIsTimely'
  BY <1>1, Budgets DEF driverVars, IInv, TypeOK, Tracked, Disclosure, Read,
     Stamps, VerifiedIsTimely, Frozen, Stamp, Envelope
<1>11. BlameIsExplained'
  BY <1>1, Budgets DEF driverVars, IInv, TypeOK, Tracked, Disclosure, Blame,
     BlameIsExplained
<1> QED
  BY <1>2, <1>3, <1>4, <1>5, <1>6, <1>7, <1>8, <1>9, <1>10, <1>11 DEF IInv

LEMMA TickIInv ==
  ASSUME IInv, Tick
  PROVE  IInv'
<1>1. TypeOK'
  BY Budgets DEF Tick, driverVars, sessionVars, IInv, TypeOK, Live, Terminal,
     Locations, Outcomes, Stamp, Envelope
<1>2. Tracked'
  BY Budgets DEF Tick, driverVars, sessionVars, IInv, TypeOK, Tracked,
     AsExpected, Terminal, Outcomes
<1>3. Disclosure'
  BY Budgets DEF Tick, driverVars, sessionVars, IInv, TypeOK, Tracked,
     AsExpected, Disclosure, Terminal
<1>4. Forgotten'
  BY Budgets DEF Tick, driverVars, sessionVars, IInv, Forgotten, Terminal,
     Tracked, AsExpected
<1>5. Read'
  BY Budgets DEF Tick, driverVars, sessionVars, IInv, TypeOK, Read, Disclosure,
     Stamp, Envelope
<1>6. Stamps'
  BY Budgets DEF Tick, driverVars, sessionVars, IInv, TypeOK, Tracked,
     AsExpected, Stamps, Read, Frozen, Stamp, Envelope, Terminal
<1>7. Blame'
  BY Budgets DEF Tick, driverVars, sessionVars, IInv, TypeOK, Tracked,
     AsExpected, Read, Stamps, Blame, Frozen, Stamp, Envelope
<1>8. DisclosedIsSettled'
  BY Budgets DEF Tick, driverVars, sessionVars, IInv, TypeOK, Tracked,
     Disclosure, DisclosedIsSettled
<1>9. VerifiedIsTimely'
  BY Budgets DEF Tick, driverVars, sessionVars, IInv, TypeOK, Tracked,
     Disclosure, Read, Stamps, VerifiedIsTimely, Frozen, Stamp, Envelope
<1>10. BlameIsExplained'
  BY Budgets DEF Tick, driverVars, sessionVars, IInv, TypeOK, Tracked,
     Disclosure, Blame, BlameIsExplained
<1> QED
  BY <1>1, <1>2, <1>3, <1>4, <1>5, <1>6, <1>7, <1>8, <1>9, <1>10 DEF IInv

LEMMA StutterIInv ==
  ASSUME IInv, UNCHANGED vars
  PROVE  IInv'
<1>1. TypeOK'
  BY Budgets DEF vars, driverVars, sessionVars, IInv, TypeOK, Live, Terminal,
     Locations, Outcomes, Stamp, Envelope
<1>2. Tracked'
  BY Budgets DEF vars, driverVars, sessionVars, IInv, TypeOK, Tracked,
     AsExpected, Terminal, Outcomes
<1>3. Disclosure'
  BY Budgets DEF vars, driverVars, sessionVars, IInv, TypeOK, Tracked,
     AsExpected, Disclosure, Terminal
<1>4. Forgotten'
  BY Budgets DEF vars, driverVars, sessionVars, IInv, Forgotten, Terminal,
     Tracked, AsExpected
<1>5. Read'
  BY Budgets DEF vars, driverVars, sessionVars, IInv, TypeOK, Read, Disclosure,
     Stamp, Envelope
<1>6. Stamps'
  BY Budgets DEF vars, driverVars, sessionVars, IInv, TypeOK, Tracked,
     AsExpected, Stamps, Read, Frozen, Stamp, Envelope, Terminal
<1>7. Blame'
  BY Budgets DEF vars, driverVars, sessionVars, IInv, TypeOK, Tracked,
     AsExpected, Read, Stamps, Blame, Frozen, Stamp, Envelope
<1>8. DisclosedIsSettled'
  BY Budgets DEF vars, driverVars, sessionVars, IInv, TypeOK, Tracked,
     Disclosure, DisclosedIsSettled
<1>9. VerifiedIsTimely'
  BY Budgets DEF vars, driverVars, sessionVars, IInv, TypeOK, Tracked,
     Disclosure, Read, Stamps, VerifiedIsTimely, Frozen, Stamp, Envelope
<1>10. BlameIsExplained'
  BY Budgets DEF vars, driverVars, sessionVars, IInv, TypeOK, Tracked,
     Disclosure, Blame, BlameIsExplained
<1> QED
  BY <1>1, <1>2, <1>3, <1>4, <1>5, <1>6, <1>7, <1>8, <1>9, <1>10 DEF IInv

LEMMA InitIInv == Init => IInv
<1> SUFFICES ASSUME Init PROVE IInv
  OBVIOUS
<1>1. TypeOK
  <2>1. /\ now \in 0 .. MaxTime /\ tokens \in 0 .. MaxTokens /\ tries \in 0 .. 1
        /\ retained \subseteq {"nonce", "envelope", "decision"} /\ hold \in HoldBudgets
    BY Budgets DEF Init, Issue
  <2> QED
    BY <2>1 DEF Init, Issue, TypeOK, Live, Terminal, Stamp, Locations, Outcomes, Slips
<1>2. Tracked
  BY Budgets DEF Init, Issue, TypeOK, Tracked, AsExpected, Terminal, Outcomes
<1>3. Disclosure
  BY Budgets DEF Init, Issue, TypeOK, Tracked, AsExpected, Disclosure, Terminal
<1>4. Forgotten
  BY Budgets DEF Init, Issue, Forgotten, Terminal, Tracked, AsExpected
<1>5. Read
  BY Budgets DEF Init, Issue, TypeOK, Read, Disclosure, Stamp, Envelope
<1>6. Stamps
  BY Budgets DEF Init, Issue, TypeOK, Tracked, AsExpected, Stamps, Read, Frozen,
     Stamp, Envelope, Terminal
<1>7. Blame
  BY Budgets DEF Init, Issue, TypeOK, Tracked, AsExpected, Read, Stamps, Blame,
     Frozen, Stamp, Envelope
<1>8. DisclosedIsSettled
  BY Budgets DEF Init, Issue, TypeOK, Tracked, Disclosure, DisclosedIsSettled
<1>9. VerifiedIsTimely
  BY Budgets DEF Init, Issue, TypeOK, Tracked, Disclosure, Read, Stamps,
     VerifiedIsTimely, Frozen, Stamp, Envelope
<1>10. BlameIsExplained
  BY Budgets DEF Init, Issue, TypeOK, Tracked, Disclosure, Blame,
     BlameIsExplained
<1> QED
  BY <1>1, <1>2, <1>3, <1>4, <1>5, <1>6, <1>7, <1>8, <1>9, <1>10 DEF IInv

LEMMA NextIInv == IInv /\ [Next]_vars => IInv'
  BY ReadTokenIInv, ReadPrecommitIInv, ReadDoneIInv, ReadBadIInv, StreamLostIInv,
     SelectAfterDoneIInv, EndStreamIInv, HoldIInv, PostRetriedIInv, PostFailsIInv,
     ReleaseIInv, FinalizeIInv, ProofArrivesIInv, OpeningLostIInv, StartVerifyIInv,
     FinishVerifyIInv, LocalErrorIInv, WallClockBackIInv, WrappedErrorIInv, CancelIInv, IntrudeIInv, TickIInv,
     StutterIInv DEF Next, Progress, Accident

LEMMA Invariance == Spec => []IInv
  BY InitIInv, NextIInv, PTL DEF Spec

(* Every variable keeps its type along every exchange, whatever the miner sends *)
(* and whoever else ends the session (ProofExchange's TypeOK).                  *)
THEOREM TypeCorrect == Spec => []TypeOK
<1>1. IInv => TypeOK
  BY DEF IInv
<1> QED
  BY <1>1, Invariance, PTL

(* Once the nonce was sent the exchange is settled: no error of an audited       *)
(* miner or of its connection is reported as a transport error to retry.         *)
THEOREM Settled == Spec => []DisclosedIsSettled
<1>1. IInv => DisclosedIsSettled
  BY DEF IInv
<1> QED
  BY <1>1, Invariance, PTL

(* Every exchange that was not cancelled leaves a session that is over and has    *)
(* forgotten the nonce and the decision, in the state its result stands for.      *)
THEOREM Closed == Spec => []SessionClosed
<1>1. IInv => SessionClosed
  BY DEF IInv, Tracked, Forgotten, SessionClosed
<1> QED
  BY <1>1, Invariance, PTL

(* A verified proof was on time at every step, for any budgets.                   *)
THEOREM Timely == Spec => []VerifiedIsTimely
<1>1. IInv => VerifiedIsTimely
  BY DEF IInv
<1> QED
  BY <1>1, Invariance, PTL

(* A failure is charged to the miner for one of the reasons that BlameIsExplained  *)
(* lists, two of which are the validator's own: a wall clock that steps back and   *)
(* a local exception that the session or the verifier wraps.                      *)
THEOREM Explained == Spec => []BlameIsExplained
<1>1. IInv => BlameIsExplained
  BY DEF IInv
<1> QED
  BY <1>1, Invariance, PTL

-----------------------------------------------------------------------------
(* The exchange implements OneShotChallenge. *)

\* A step that leaves the session and the nonce alone is a stuttering step.
LEMMA StillRefines ==
  ASSUME UNCHANGED <<state, sent>>
  PROVE  [Challenge!Next]_(Challenge!vars)
  BY DEF Challenge!vars, Phase

\* A step that ends a live session without a result voids the challenge.
LEMMA VoidRefines ==
  ASSUME IInv, sent' = sent,
         state \notin Terminal /\ state' \in {"FAILED", "EXPIRED", "ABORTED"}
  PROVE  [Challenge!Next]_(Challenge!vars)
  BY DEF IInv, TypeOK, Live, Terminal, Challenge!Next, Challenge!Void, Challenge!Ended, Phase

LEMMA QuitRefines ==
  ASSUME IInv, NEW error, NEW blame, Quit(error, blame)
  PROVE  [Challenge!Next]_(Challenge!vars)
<1>1. sent' = sent
  BY DEF Quit, Raise
<1>2. CASE state \in Terminal
  BY <1>1, <1>2, StillRefines DEF Quit, FailClosed, sessionVars
<1>3. CASE state \notin Terminal
  BY <1>1, <1>3, VoidRefines DEF Quit, FailClosed, Clear
<1> QED
  BY <1>2, <1>3

LEMMA WrappedErrorRefines ==
  ASSUME IInv, WrappedError
  PROVE  [Challenge!Next]_(Challenge!vars)
<1>1. CASE Quit("proof", FALSE)
  BY <1>1, QuitRefines
<1>2. CASE /\ AcceptPrecommit(tokenAt, envelope.at, FALSE) /\ state' = "FAILED"
           /\ Raise("proof", FALSE)
  <2>1. state \notin Terminal /\ sent' = sent
    BY <1>2 DEF AcceptPrecommit, Raise, Terminal
  <2> QED
    BY <1>2, <2>1, VoidRefines
<1> QED
  BY <1>1, <1>2 DEF WrappedError

LEMMA ReadDoneRefines ==
  ASSUME IInv, ReadDone
  PROVE  [Challenge!Next]_(Challenge!vars)
<1>1. CASE Quit("proof", FALSE)
  BY <1>1, QuitRefines
<1>2. CASE AcceptPrecommit(tokenAt, envelope.at, envelope.sound) /\ state' \in Terminal
  <2>1. state = "AWAITING_PRECOMMIT" /\ state' \in {"FAILED", "EXPIRED"}
    BY <1>2 DEF AcceptPrecommit, Clear, Terminal
  <2>2. sent' = sent
    BY <1>2, <2>1 DEF ReadDone, Raise, Quit
  <2> QED
    BY <2>1, <2>2, VoidRefines DEF Terminal
<1>3. CASE AcceptPrecommit(tokenAt, envelope.at, envelope.sound) /\ state' = "PRECOMMIT_ACCEPTED"
  <2>1. state = "AWAITING_PRECOMMIT" /\ sent' = sent
    BY <1>3 DEF AcceptPrecommit, ReadDone, Terminal
  <2> QED
    BY <1>3, <2>1 DEF Challenge!Next, Challenge!Freeze, Phase
<1> QED
  BY <1>1, <1>2, <1>3 DEF ReadDone

LEMMA SelectAfterDoneRefines ==
  ASSUME IInv, SelectAfterDone
  PROVE  [Challenge!Next]_(Challenge!vars)
<1>1. CASE Quit("proof", FALSE)
  BY <1>1, QuitRefines
<1>2. CASE SelectTier(stamp, tier) /\ sent' = sent
  <2>1. /\ state = "PRECOMMIT_ACCEPTED"
        /\ state' \in {"FAILED", "EXPIRED", "LIGHT_REVEALED", "HARD_SELECTED"}
    BY <1>2 DEF SelectTier, Clear
  <2>2. CASE state' \in {"FAILED", "EXPIRED"}
    BY <1>2, <2>1, <2>2, VoidRefines DEF Terminal
  <2>3. CASE state' \in {"LIGHT_REVEALED", "HARD_SELECTED"}
    BY <1>2, <2>1, <2>3 DEF Challenge!Next, Challenge!GoLight, Challenge!GoHard, Phase
  <2> QED
    BY <2>1, <2>2, <2>3
<1> QED
  BY <1>1, <1>2 DEF SelectAfterDone, Raise

LEMMA FinalizeRefines ==
  ASSUME IInv, Finalize
  PROVE  [Challenge!Next]_(Challenge!vars)
<1>1. CASE Quit("proof", FALSE)
  BY <1>1, QuitRefines
<1>2. CASE UNCHANGED <<state, sent>>
  BY <1>2, StillRefines
<1>3. CASE RevealNonce(now) /\ state' = "NONCE_REVEALED" /\ sent' = TRUE
  <2>1. state = "HARD_SELECTED"
    BY <1>3 DEF RevealNonce
  <2>2. sent = FALSE
    BY <2>1 DEF IInv, TypeOK, Disclosure
  <2> QED
    BY <1>3, <2>1, <2>2 DEF Challenge!Next, Challenge!Disclose, Phase
<1>4. CASE RevealNonce(now) /\ state' \in Terminal /\ sent' = sent
  BY <1>4, VoidRefines DEF RevealNonce, Clear, Terminal
<1> QED
  BY <1>1, <1>2, <1>3, <1>4 DEF Finalize, Raise, sessionVars

LEMMA StartVerifyRefines ==
  ASSUME IInv, StartVerify
  PROVE  [Challenge!Next]_(Challenge!vars)
<1>1. CASE Quit("proof", FALSE)
  BY <1>1, QuitRefines
<1>2. CASE BeginVerify(stamp) /\ sent' = sent
  <2>1. state = "NONCE_REVEALED" /\ state' \in {"FAILED", "EXPIRED", "VERIFYING"}
    BY <1>2 DEF BeginVerify, Clear
  <2>2. CASE state' = "VERIFYING"
    BY <1>2, <2>1, <2>2 DEF Challenge!Next, Challenge!Check, Phase
  <2> QED
    BY <1>2, <2>1, <2>2, VoidRefines DEF Terminal
<1> QED
  BY <1>1, <1>2 DEF StartVerify, Raise

LEMMA FinishVerifyRefines ==
  ASSUME IInv, FinishVerify
  PROVE  [Challenge!Next]_(Challenge!vars)
<1>1. CASE Quit("proof", FALSE)
  BY <1>1, QuitRefines
<1>2. CASE EndVerify(TRUE) /\ sent' = sent
  BY <1>2 DEF EndVerify, Clear, Challenge!Next, Challenge!Accept, Phase
<1>3. CASE EndVerify(FALSE) /\ sent' = sent
  BY <1>3, VoidRefines DEF EndVerify, Clear, Terminal
<1> QED
  BY <1>1, <1>2, <1>3 DEF FinishVerify, Raise

LEMMA IntrudeRefines ==
  ASSUME IInv, Intrude
  PROVE  [Challenge!Next]_(Challenge!vars)
<1>1. /\ state \notin Terminal /\ sent' = sent
      /\ state' \in {"FAILED", "EXPIRED", "ABORTED"}
  BY DEF Intrude, FailClosed, Abort, Expire, Clear, driverVars
<1> QED
  BY <1>1, VoidRefines

LEMMA StepRefines ==
  ASSUME IInv, [Next]_vars
  PROVE  [Challenge!Next]_(Challenge!vars)
<1>1. CASE \/ ReadToken \/ ReadPrecommit \/ EndStream \/ Hold \/ PostRetried
           \/ Release \/ ProofArrives \/ Cancel \/ Tick \/ UNCHANGED vars
  <2>1. UNCHANGED <<state, sent>>
    BY <1>1 DEF ReadToken, ReadPrecommit, EndStream, Hold, PostSucceeds, PostRetried,
       Release, ProofArrives, Cancel, Tick, sessionVars, driverVars, vars
  <2> QED
    BY <2>1, StillRefines
<1>2. CASE \/ ReadBad \/ StreamLost \/ PostFails \/ OpeningLost \/ LocalError
           \/ WallClockBack
  BY <1>2, QuitRefines DEF ReadBad, StreamLost, PostFails, OpeningLost, LocalError,
     WallClockBack
<1>3. CASE \/ ReadDone \/ SelectAfterDone \/ Finalize \/ StartVerify \/ FinishVerify
           \/ WrappedError \/ Intrude
  BY <1>3, ReadDoneRefines, SelectAfterDoneRefines, FinalizeRefines, StartVerifyRefines,
     FinishVerifyRefines, WrappedErrorRefines, IntrudeRefines
<1> QED
  BY <1>1, <1>2, <1>3 DEF Next, Progress, Accident

(* The driver, its session and every thread that may end it implement the one-shot *)
(* challenge: no interleaving discloses the nonce before the envelope is frozen,   *)
(* discloses it twice, or brings a session that ended back to a verdict.           *)
THEOREM Refinement == Spec => OneShot
<1>1. Init => Challenge!Init
  BY DEF Init, Issue, Challenge!Init, Phase
<1>2. IInv /\ [Next]_vars => [Challenge!Next]_(Challenge!vars)
  BY StepRefines
<1> QED
  BY <1>1, <1>2, Invariance, PTL DEF Spec, OneShot, Challenge!Spec
=============================================================================
