-------------------------- MODULE ChallengeSession --------------------------
(***************************************************************************)
(* One validator-owned challenge session (verallm/proof_v3/session.py).     *)
(* Every method runs under the session's lock and is one action here, except *)
(* the verification of a proof, which releases the lock while it runs and is *)
(* BeginVerify, then EndVerify.  An action is disabled where the method      *)
(* raises without touching the session.  Time stamps are parameters: callers *)
(* read the clock before they take the lock.                                *)
(***************************************************************************)
EXTENDS Naturals

CONSTANTS PrecommitBudget,  \* precommit envelope after the last visible token
          RevealWindow,     \* DEFAULT_PROOF_ARRIVAL_BUDGET_NS_V3
          HardBudget,       \* hard proof after the nonce
          HoldBudgets,      \* nonce-reveal hold budgets a session may have, or None
          TimeLimit,        \* 2^63 ns
          None

ASSUME BudgetAssumption ==
  /\ {PrecommitBudget, RevealWindow, HardBudget} \subseteq Nat \ {0}
  /\ TimeLimit \in Nat
  /\ HoldBudgets \subseteq (Nat \ {0}) \cup {None}
  /\ HoldBudgets # {}
  /\ None \notin Nat

VARIABLES state,       \* _state
          retained,    \* which of nonce, envelope (and binding), decision are not None
          deadline,    \* _deadline_monotonic_ns
          precommitAt, \* _precommit_received_monotonic_ns
          selectedAt,  \* _tier_selected_monotonic_ns
          revealedAt,  \* _nonce_revealed_monotonic_ns
          hold         \* _nonce_reveal_hold_budget_ns, fixed at issue

sessionVars ==
  <<state, retained, deadline, precommitAt, selectedAt, revealedAt, hold>>

Terminal == {"LIGHT_REVEALED", "VERIFIED", "FAILED", "EXPIRED", "ABORTED"}

Live == {"AWAITING_PRECOMMIT", "PRECOMMIT_ACCEPTED", "HARD_SELECTED",
         "NONCE_REVEALED", "VERIFYING"}

Stamp == Nat \cup {None}

Issue ==
  /\ state = "AWAITING_PRECOMMIT"
  /\ retained = {"nonce"}
  /\ hold \in HoldBudgets
  /\ deadline = None
  /\ precommitAt = None
  /\ selectedAt = None
  /\ revealedAt = None

\* Mutated form: forgets the nonce only.
ClearNonce(s) ==
  /\ state' = s
  /\ retained' = retained \ {"nonce"}
  /\ precommitAt' = None
  /\ selectedAt' = None
  /\ revealedAt' = None
  /\ UNCHANGED hold

\* _fail_locked and the last step of a verification: nothing is kept but the
\* deadline.
Clear(s) ==
  /\ state' = s
  /\ retained' = {}
  /\ precommitAt' = None
  /\ selectedAt' = None
  /\ revealedAt' = None
  /\ UNCHANGED hold

Expired(stamp, d) == d = None \/ stamp > d

\* `sound': the envelope parses and matches the precommit context and output.
AcceptPrecommit(visible, received, sound) ==
  LET due == visible + PrecommitBudget
  IN  /\ state = "AWAITING_PRECOMMIT"
      /\ \/ /\ due >= TimeLimit
            /\ Clear("FAILED")
            /\ UNCHANGED deadline
         \/ /\ due < TimeLimit
            /\ Expired(received, due)
            /\ deadline' = due
            /\ Clear("EXPIRED")
         \/ /\ due < TimeLimit
            /\ ~Expired(received, due)
            /\ received < visible \/ ~sound
            /\ deadline' = due
            /\ Clear("FAILED")
         \/ /\ due < TimeLimit
            /\ ~Expired(received, due)
            /\ received >= visible /\ sound
            /\ state' = "PRECOMMIT_ACCEPTED"
            /\ retained' = retained \cup {"envelope"}
            /\ deadline' = due
            /\ precommitAt' = received
            /\ UNCHANGED <<selectedAt, revealedAt, hold>>

\* _select_audit_tier_locked with the audit decision drawn from the nonce.
SelectTier(selected, hard) ==
  LET due == IF hold = None THEN selected + RevealWindow ELSE precommitAt + hold
  IN  /\ state = "PRECOMMIT_ACCEPTED"
      /\ \/ /\ selected < precommitAt
            /\ Clear("FAILED")
            /\ UNCHANGED deadline
         \/ /\ selected >= precommitAt /\ ~hard
            /\ Clear("LIGHT_REVEALED")
            /\ UNCHANGED deadline
         \/ /\ selected >= precommitAt /\ hard
            /\ due >= TimeLimit
            /\ Clear("FAILED")
            /\ UNCHANGED deadline
         \/ /\ selected >= precommitAt /\ hard
            /\ due < TimeLimit
            /\ deadline' = due
            /\ hold # None /\ Expired(selected, due)
            /\ Clear("EXPIRED")
         \/ /\ selected >= precommitAt /\ hard
            /\ due < TimeLimit
            /\ deadline' = due
            /\ hold = None \/ ~Expired(selected, due)
            /\ state' = "HARD_SELECTED"
            /\ retained' = retained \cup {"decision"}
            /\ selectedAt' = selected
            /\ UNCHANGED <<precommitAt, revealedAt, hold>>

\* reveal_nonce_once after select_audit_tier_once; its callers never let it
\* select the tier itself.
RevealNonce(revealed) ==
  LET due == revealed + HardBudget
  IN  /\ state = "HARD_SELECTED"
      /\ \/ /\ Expired(revealed, deadline)
            /\ Clear("EXPIRED")
            /\ UNCHANGED deadline
         \/ /\ ~Expired(revealed, deadline)
            /\ revealed < selectedAt \/ revealed < precommitAt \/ due >= TimeLimit
            /\ Clear("FAILED")
            /\ UNCHANGED deadline
         \/ /\ ~Expired(revealed, deadline)
            /\ revealed >= selectedAt /\ revealed >= precommitAt
            /\ due < TimeLimit
            /\ state' = "NONCE_REVEALED"
            /\ revealedAt' = revealed
            /\ deadline' = due
            /\ UNCHANGED <<retained, precommitAt, selectedAt, hold>>

\* Mutated form: looks only at the order of the stamps.
BeginVerifyLate(received) ==
  /\ state = "NONCE_REVEALED"
  /\ state' = "VERIFYING"
  /\ UNCHANGED <<retained, deadline, precommitAt, selectedAt, revealedAt, hold>>

\* The first critical section of verify_proof_bytes_once.
BeginVerify(received) ==
  /\ state = "NONCE_REVEALED"
  /\ \/ /\ Expired(received, deadline)
        /\ Clear("EXPIRED")
     \/ /\ ~Expired(received, deadline)
        /\ received < revealedAt
        /\ Clear("FAILED")
     \/ /\ ~Expired(received, deadline)
        /\ received >= revealedAt
        /\ state' = "VERIFYING"
        /\ UNCHANGED <<retained, precommitAt, selectedAt, revealedAt, hold>>
  /\ UNCHANGED deadline

\* Mutated form: does not look at the state again after the verification.
EndVerifyBlind(valid) ==
  /\ Clear(IF valid THEN "VERIFIED" ELSE "FAILED")
  /\ UNCHANGED deadline

\* The second one, after the verifier accepted the proof or raised.
EndVerify(valid) ==
  /\ state = "VERIFYING"
  /\ Clear(IF valid THEN "VERIFIED" ELSE "FAILED")
  /\ UNCHANGED deadline

Expire(stamp) ==
  /\ state \notin Terminal
  /\ deadline # None /\ stamp > deadline
  /\ Clear("EXPIRED")
  /\ UNCHANGED deadline

FailClosed ==
  \/ state \notin Terminal /\ Clear("FAILED") /\ UNCHANGED deadline
  \/ state \in Terminal /\ UNCHANGED sessionVars

Abort ==
  /\ state \notin Terminal
  /\ Clear("ABORTED")
  /\ UNCHANGED deadline
=============================================================================
