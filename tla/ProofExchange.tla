--------------------------- MODULE ProofExchange ---------------------------
(***************************************************************************)
(* One proof-v3 exchange of the validator with a miner                      *)
(* (verallm/api/proof_v3_validator.py): the inference stream up to its      *)
(* commitment envelope, the draw of the audit tier, then either the release *)
(* of a light request or the disclosure of the nonce and the check of one   *)
(* hard proof.  The exchange drives a ChallengeSession; other threads may    *)
(* end that session under it.  The miner and the connection are the choices *)
(* of what is read next.                                                    *)
(***************************************************************************)
EXTENDS ChallengeSession

CONSTANTS MaxTime,    \* bound on the validator's monotonic clock
          MaxTokens,  \* max_output_tokens: token events a stream may carry
          Others      \* session methods called by threads other than the driver

Envelope == [at : Nat, sound : BOOLEAN]

ASSUME ExchangeAssumption ==
  /\ None \notin Envelope
  /\ MaxTime \in Nat
  /\ MaxTokens \in Nat \ {0}
  /\ Others \subseteq {"expire", "abort", "fail_closed"}

VARIABLES now,       \* time.monotonic_ns
          pc,        \* where the driver is
          tokens,    \* number of token events observed
          tokenAt,   \* _last_token_ns
          envelope,  \* the precommit as read: when, and whether it is sound
          stamp,     \* the clock as read with the event being processed
          proof,     \* the proof being verified is valid
          tier,      \* the nonce draws a hard audit, fixed when it is issued
          sent,      \* _reveal_ns is set: the nonce went to the miner
          tries,     \* retention POSTs that failed in transport
          outcome,   \* the result or the error the caller gets
          cancelled, \* the coroutine was cancelled while its thread runs on
          \* for the properties only
          peerFault, \* the miner or its connection failed an obligation
          intruded,  \* another thread ended the session
          slip       \* what of the validator's own went wrong as a proof error

driverVars == <<pc, tokens, tokenAt, envelope, stamp, proof, sent, tries, outcome,
                cancelled, peerFault>>
vars == <<sessionVars, driverVars, now, tier, intruded, slip>>

Locations == {"stream", "select", "tail", "hold", "finalize", "opening", "verify",
              "verifying", "release", "ended"}

Outcomes == {"none", "verified", "light", "peer", "postcommit", "unavailable",
             "transport", "local", "cancelled"}

\* The wall clock stepped back under a stream, or a wrapped local exception.
Slips == {"none", "clock", "wrapped"}

Init ==
  /\ Issue
  /\ now = 0
  /\ pc = "stream"
  /\ tokens = 0
  /\ tokenAt = None
  /\ envelope = None
  /\ stamp = None
  /\ proof = FALSE
  /\ tier \in BOOLEAN
  /\ sent = FALSE
  /\ tries = 0
  /\ outcome = "none"
  /\ cancelled = FALSE
  /\ peerFault = FALSE
  /\ intruded = FALSE
  /\ slip = "none"

-----------------------------------------------------------------------------
(* How an exchange ends. *)

\* Mutated form: classifies by the error alone, whether or not the nonce left.
ClassifiedByError(error) ==
  IF error = "unavailable" THEN "unavailable"
  ELSE IF error = "proof" \/ (error = "http" /\ envelope # None) THEN "peer"
  ELSE IF error = "http" THEN "transport" ELSE "local"

\* Mutated form: blames the miner for whatever is not its connection.
ClassifiedBlaming(error) ==
  IF error = "unavailable" THEN "unavailable"
  ELSE IF sent THEN "postcommit"
  ELSE IF error = "http" /\ envelope = None THEN "transport" ELSE "peer"

\* _raise_exchange_failure for a verification error ("proof"), an error of the
\* connection ("http"), a verifier that says it is unavailable ("unavailable") or
\* any other exception ("local").
Classified(error) ==
  IF error = "unavailable" THEN "unavailable"
  ELSE IF sent THEN (IF error = "local" THEN "unavailable" ELSE "postcommit")
  ELSE IF error = "proof" \/ (error = "http" /\ envelope # None) THEN "peer"
  ELSE IF error = "http" THEN "transport" ELSE "local"

\* Every error leaves through fail_closed; `blame' is whether the miner or its
\* connection caused it.
Raise(error, blame) ==
  /\ pc' = "ended"
  /\ outcome' = IF cancelled THEN "cancelled" ELSE Classified(error)
  /\ peerFault' = (peerFault \/ blame)
  /\ UNCHANGED <<tokens, tokenAt, envelope, stamp, proof, sent, tries, cancelled>>

Quit(error, blame) == FailClosed /\ Raise(error, blame)

-----------------------------------------------------------------------------
(* The inference stream. *)

\* A token event carries text, token ids or both; one without ids is not counted
\* and any number of them may come.
ReadToken ==
  /\ pc = "stream" /\ envelope = None
  /\ \E ids \in 0 .. MaxTokens :
       /\ tokens + ids <= MaxTokens
       /\ tokens' = tokens + ids
  /\ tokenAt' = now
  /\ UNCHANGED <<sessionVars, pc, envelope, stamp, proof, sent, tries, outcome,
                 cancelled, peerFault>>

ReadPrecommit ==
  /\ pc = "stream" /\ envelope = None /\ tokenAt # None
  /\ \E sound \in BOOLEAN : envelope' = [at |-> now, sound |-> sound]
  /\ UNCHANGED <<sessionVars, pc, tokens, tokenAt, stamp, proof, sent, tries,
                 outcome, cancelled, peerFault>>

\* The peer's own delay, of its answer or of its connection, makes the reveal late.
DelaysReveal ==
  now > IF hold = None THEN stamp + RevealWindow ELSE envelope.at + hold

\* _observe_done up to the return of accept_precommit_bytes.
ReadDone ==
  LET late == envelope.at > tokenAt + PrecommitBudget
  IN  /\ pc = "stream" /\ envelope # None
      /\ \/ /\ AcceptPrecommit(tokenAt, envelope.at, envelope.sound)
            /\ state' = "PRECOMMIT_ACCEPTED"
            /\ pc' = "select"
            /\ stamp' = now
            /\ peerFault' = (peerFault \/ (hold # None /\ DelaysReveal))
            /\ UNCHANGED <<tokens, tokenAt, envelope, proof, sent, tries, outcome,
                           cancelled>>
         \/ /\ AcceptPrecommit(tokenAt, envelope.at, envelope.sound)
            /\ state' \in Terminal
            /\ Raise("proof", late \/ ~envelope.sound)
         \/ /\ state # "AWAITING_PRECOMMIT"
            /\ Quit("proof", FALSE)

\* An event out of order, malformed, unexpected, contradicting what was
\* streamed, one token too many, or the end of the stream before the done event.
ReadBad ==
  /\ pc \in {"stream", "tail"}
  /\ Quit("proof", TRUE)

\* An error status, a transport failure or timeout of the stream.
StreamLost ==
  /\ pc \in {"stream", "tail"}
  /\ Quit("http", TRUE)

\* _observe_done after accept_precommit_bytes: the draw takes the lock again.
SelectAfterDone ==
  /\ pc = "select"
  /\ \/ /\ SelectTier(stamp, tier)
        /\ state' \in {"HARD_SELECTED", "LIGHT_REVEALED"}
        /\ pc' = IF cancelled THEN "ended" ELSE "tail"
        /\ outcome' = IF cancelled THEN "cancelled" ELSE outcome
        /\ UNCHANGED <<tokens, tokenAt, envelope, stamp, proof, sent, tries,
                       cancelled, peerFault>>
     \/ /\ SelectTier(stamp, tier)
        /\ state' \in {"FAILED", "EXPIRED"}
        /\ Raise("proof", FALSE)
     \/ /\ state # "PRECOMMIT_ACCEPTED"
        /\ Quit("proof", FALSE)

\* The connection closes after the done event.
EndStream ==
  /\ pc = "tail"
  /\ pc' = IF hold = None THEN "finalize" ELSE "hold"
  /\ peerFault' = (peerFault \/ DelaysReveal)
  /\ UNCHANGED <<sessionVars, tokens, tokenAt, envelope, stamp, proof, sent, tries,
                 outcome, cancelled>>

-----------------------------------------------------------------------------
(* Retention: one retry of a transport failure, none of an error status. *)

PostSucceeds(location) ==
  /\ pc = location
  /\ pc' = IF location = "hold" THEN "finalize" ELSE "ended"
  /\ outcome' = IF location = "hold" THEN outcome ELSE "light"
  /\ tries' = 0
  /\ peerFault' = (peerFault \/ DelaysReveal)
  /\ UNCHANGED <<sessionVars, tokens, tokenAt, envelope, stamp, proof, sent,
                 cancelled>>

\* Mutated form: retries every transport failure.
PostRetriedAlways ==
  /\ pc \in {"hold", "release"}
  /\ tries < 3
  /\ tries' = tries + 1
  /\ UNCHANGED <<sessionVars, pc, tokens, tokenAt, envelope, stamp, proof, sent,
                 outcome, cancelled, peerFault>>

PostRetried ==
  /\ pc \in {"hold", "release"} /\ tries = 0
  /\ tries' = 1
  /\ UNCHANGED <<sessionVars, pc, tokens, tokenAt, envelope, stamp, proof, sent,
                 outcome, cancelled, peerFault>>

PostFails ==
  /\ pc \in {"hold", "release"}
  /\ Quit("http", TRUE)

\* hold_proof_v3_precommit_sync
Hold == PostSucceeds("hold")

\* The light branch of finalize_proof_v3_exchange_sync and of the async run;
\* result() finds the session LIGHT_REVEALED.
Release == PostSucceeds("release") /\ state = "LIGHT_REVEALED"

-----------------------------------------------------------------------------
(* The hard proof. *)

\* The reveal reads the clock and takes the lock; a session that other threads
\* ended, or whose reveal window has passed, raises.
Finalize ==
  /\ pc = "finalize"
  /\ \/ /\ ~tier
        /\ pc' = "release"
        /\ UNCHANGED <<sessionVars, tokens, tokenAt, envelope, stamp, proof, sent,
                       tries, outcome, cancelled, peerFault>>
     \/ /\ tier
        /\ RevealNonce(now)
        /\ state' = "NONCE_REVEALED"
        /\ sent' = TRUE
        /\ pc' = "opening"
        /\ UNCHANGED <<tokens, tokenAt, envelope, stamp, proof, tries, outcome,
                       cancelled, peerFault>>
     \/ /\ tier
        /\ RevealNonce(now)
        /\ state' \in Terminal
        /\ Raise("proof", FALSE)
     \/ /\ tier
        /\ state # "HARD_SELECTED"
        /\ Quit("proof", FALSE)

ProofArrives ==
  /\ pc = "opening"
  /\ pc' = "verify"
  /\ stamp' = now
  /\ \E valid \in BOOLEAN :
       /\ proof' = valid
       /\ peerFault' = (\/ peerFault
                        \/ ~valid
                        \/ revealedAt # None /\ now > revealedAt + HardBudget)
  /\ UNCHANGED <<sessionVars, tokens, tokenAt, envelope, sent, tries, outcome,
                 cancelled>>

\* An error status, a lost connection, a wrong media type or length.
OpeningLost ==
  /\ pc = "opening"
  /\ Quit("http", TRUE)

\* Mutated form: waits for a session that another thread has ended.
StartVerifyWaits ==
  /\ pc = "verify"
  /\ BeginVerify(stamp)
  /\ \/ /\ state' = "VERIFYING"
        /\ pc' = "verifying"
        /\ UNCHANGED <<tokens, tokenAt, envelope, stamp, proof, sent, tries, outcome,
                       cancelled, peerFault>>
     \/ /\ state' \in Terminal
        /\ Raise("proof", FALSE)

StartVerify ==
  /\ pc = "verify"
  /\ \/ /\ BeginVerify(stamp)
        /\ state' = "VERIFYING"
        /\ pc' = "verifying"
        /\ UNCHANGED <<tokens, tokenAt, envelope, stamp, proof, sent, tries, outcome,
                       cancelled, peerFault>>
     \/ /\ BeginVerify(stamp)
        /\ state' \in Terminal
        /\ Raise("proof", FALSE)
     \/ /\ state # "NONCE_REVEALED"
        /\ Quit("proof", FALSE)

\* The verifier returns or raises, and result() finds the session VERIFIED.
FinishVerify ==
  /\ pc = "verifying"
  /\ \/ /\ proof
        /\ EndVerify(TRUE)
        /\ pc' = "ended"
        /\ outcome' = "verified"
        /\ UNCHANGED <<tokens, tokenAt, envelope, stamp, proof, sent, tries,
                       cancelled, peerFault>>
     \/ /\ ~proof
        /\ EndVerify(FALSE)
        /\ Raise("proof", FALSE)
     \/ /\ state # "VERIFYING"
        /\ Quit("proof", FALSE)

-----------------------------------------------------------------------------
(* The validator's own failures, the other threads, the clock. *)

\* An exception of the validator's code, of a stream callback or of a verifier
\* backend, while the driver runs.
LocalError ==
  /\ pc \in Locations \ {"select", "ended"}
  /\ \E error \in {"local", "unavailable"} : Quit(error, FALSE)

\* record_stream_timing at the end of the stream: the wall clock stepped back since
\* the request, which raises the error of a malformed answer.
WallClockBack ==
  /\ pc = "tail"
  /\ Quit("proof", FALSE)
  /\ slip' = "clock"

\* A local exception inside the session or the verifier, wrapped there into a
\* verification error: while a sound envelope is checked, while the tier is drawn,
\* while the reveal is built, or while the proof is verified.
WrappedError ==
  /\ \/ /\ pc = "stream" /\ envelope # None /\ envelope.sound
        /\ AcceptPrecommit(tokenAt, envelope.at, FALSE)
        /\ state' = "FAILED"
        /\ Raise("proof", FALSE)
     \/ /\ pc \in {"select", "verifying"} \/ (pc = "finalize" /\ tier)
        /\ Quit("proof", FALSE)
  /\ slip' = "wrapped"

\* Cancelling the coroutine bypasses its exception handlers; a thread that is
\* processing the done event runs on.
Cancel ==
  /\ ~cancelled
  /\ \/ /\ pc \in {"stream", "tail", "opening", "release"}
        /\ pc' = "ended"
        /\ outcome' = "cancelled"
        /\ cancelled' = TRUE
     \/ /\ pc = "select"
        /\ cancelled' = TRUE
        /\ UNCHANGED <<pc, outcome>>
  /\ UNCHANGED <<sessionVars, tokens, tokenAt, envelope, stamp, proof, sent, tries,
                 peerFault>>

\* Another thread ends the session, as its lock and its second look at VERIFYING
\* provide for: a reaper, or whoever else holds the session.
Intrude ==
  /\ pc # "ended"
  /\ \/ "fail_closed" \in Others /\ state \notin Terminal /\ FailClosed
     \/ "abort" \in Others /\ Abort
     \/ "expire" \in Others /\ Expire(now)
  /\ intruded' = TRUE
  /\ UNCHANGED <<driverVars, now, tier, slip>>

Tick ==
  /\ pc # "ended" /\ now < MaxTime
  /\ now' = now + 1
  /\ UNCHANGED <<sessionVars, driverVars, tier, intruded, slip>>

\* The steps the driver takes by itself.
Progress ==
  /\ \/ ReadToken \/ ReadPrecommit \/ ReadDone \/ ReadBad \/ StreamLost
     \/ SelectAfterDone \/ EndStream
     \/ Hold \/ PostRetried \/ PostFails \/ Release
     \/ Finalize \/ ProofArrives \/ OpeningLost \/ StartVerify \/ FinishVerify
  /\ UNCHANGED <<now, tier, intruded, slip>>

Accident ==
  \/ (LocalError \/ Cancel) /\ UNCHANGED <<now, tier, intruded, slip>>
  \/ (WallClockBack \/ WrappedError) /\ UNCHANGED <<now, tier, intruded>>

Next == Progress \/ Accident \/ Intrude \/ Tick

Spec == Init /\ [][Next]_vars

\* Where the driver waits for the peer.  The requests have a timeout for each read
\* and none for the whole, so a peer that keeps sending something, a byte or an
\* uncounted event at a time, keeps the driver here as long as it likes.
Waits == {"stream", "tail", "hold", "release", "opening"}

\* The validator's own steps, verification included, terminate; nothing is assumed
\* of the peer, of accidents, of other threads or of time.
LiveSpec == Spec /\ WF_vars(Progress /\ pc \notin Waits)

-----------------------------------------------------------------------------
(* Properties. *)

(* Every variable keeps its type, whatever the miner sends and whoever else     *)
(* ends the session; in particular a retention request is retried once at most.  *)
TypeOK ==
  /\ state \in Live \cup Terminal
  /\ retained \subseteq {"nonce", "envelope", "decision"}
  /\ deadline \in Stamp /\ precommitAt \in Stamp /\ selectedAt \in Stamp
  /\ revealedAt \in Stamp /\ tokenAt \in Stamp /\ stamp \in Stamp
  /\ hold \in HoldBudgets
  /\ now \in 0 .. MaxTime
  /\ pc \in Locations
  /\ tokens \in 0 .. MaxTokens
  /\ envelope \in Envelope \cup {None}
  /\ proof \in BOOLEAN /\ tier \in BOOLEAN /\ sent \in BOOLEAN
  /\ cancelled \in BOOLEAN /\ peerFault \in BOOLEAN /\ intruded \in BOOLEAN
  /\ slip \in Slips
  /\ tries \in 0 .. 1
  /\ outcome \in Outcomes

\* The session seen as the one-shot challenge it promises to be.
Phase == IF state \in {"FAILED", "EXPIRED", "ABORTED"} THEN "VOID" ELSE state

Challenge == INSTANCE OneShotChallenge
               WITH phase <- Phase, disclosed <- sent

(* Under every interleaving of the driver with threads that expire, abort or   *)
(* fail the session, the session and the nonce on the wire behave as one        *)
(* OneShotChallenge: the envelope is frozen before the nonce leaves, the nonce  *)
(* leaves once, a verdict on a proof that was still being verified when another *)
(* thread ended the session is discarded.                                      *)
OneShot == Challenge!Spec

(* A miner that has seen the nonce cannot turn the exchange into a retry: once  *)
(* the nonce was sent, the exchange ends with a verified proof, a failure       *)
(* charged to the miner, or a failure of the validator's own verifier, never    *)
(* with the transport error that the canary worker retries.                     *)
DisclosedIsSettled ==
  sent /\ pc = "ended" /\ ~cancelled =>
    outcome \in {"verified", "postcommit", "unavailable"}

(* However an exchange ends, its session is over and keeps neither the nonce    *)
(* nor the audit decision, and a result is returned exactly when the session    *)
(* itself reached the state that result stands for.  A cancelled coroutine is   *)
(* the exception: nothing closes its session.                                   *)
SessionClosed ==
  pc = "ended" /\ outcome # "cancelled" =>
    /\ state \in Terminal /\ retained = {}
    /\ outcome = "verified" <=> state = "VERIFIED"
    /\ outcome = "light" => state = "LIGHT_REVEALED"

(* A proof counts only when everything before it was on time, although the      *)
(* session forgets its time stamps: the envelope within the budget of the last  *)
(* token and of a sound answer, the proof after the nonce and within the budget *)
(* of a hard proof.                                                             *)
VerifiedIsTimely ==
  outcome = "verified" =>
    /\ tier /\ proof /\ sent /\ envelope.sound
    /\ tokenAt <= envelope.at /\ envelope.at <= tokenAt + PrecommitBudget
    /\ stamp <= deadline /\ stamp + HardBudget >= deadline

(* A failure is charged to the miner only if the miner or its connection failed *)
(* an obligation, another thread ended the session, the validator itself let the *)
(* window for its reveal pass, its monotonic clock is about to leave its 63 bits, *)
(* its wall clock stepped back under the stream, or a local exception was wrapped *)
(* into a verification error inside the session or the verifier; and a wall clock  *)
(* costs the miner no disclosed challenge.                                       *)
BlameIsExplained ==
  outcome \in {"peer", "postcommit"} =>
    \/ peerFault
    \/ intruded
    \/ tier /\ ~sent /\ state = "EXPIRED"
    \/ \E budget \in {PrecommitBudget, RevealWindow, HardBudget, hold} \ {None} :
         now + budget >= TimeLimit
    \/ slip = "clock" /\ ~sent
    \/ slip = "wrapped"

(* An exchange ends as soon as the peer stops holding it: unless the driver stays  *)
(* for ever in the waits for the peer, it reaches the end, whatever the miner sent *)
(* or omitted and whoever else acted on its session.                              *)
ExchangeEnds == []<>(pc \notin Waits) => <>(pc = "ended")
=============================================================================
