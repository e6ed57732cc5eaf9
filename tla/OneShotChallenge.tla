-------------------------- MODULE OneShotChallenge --------------------------
(***************************************************************************)
(* What one proof-v3 challenge session promises, whoever calls it and       *)
(* whenever: the miner's answer is frozen before the validator's nonce is   *)
(* disclosed, the nonce is disclosed at most once and only for a hard audit, *)
(* one proof is checked, and a challenge that ended stays ended.            *)
(***************************************************************************)
VARIABLES phase,      \* how far the challenge has come
          disclosed   \* the nonce has left the validator

vars == <<phase, disclosed>>

Ended == {"LIGHT_REVEALED", "VERIFIED", "VOID"}

Init == phase = "AWAITING_PRECOMMIT" /\ disclosed = FALSE

Freeze == phase = "AWAITING_PRECOMMIT" /\ phase' = "PRECOMMIT_ACCEPTED" /\ UNCHANGED disclosed

\* The tier is drawn only once the answer is frozen.
GoLight == phase = "PRECOMMIT_ACCEPTED" /\ phase' = "LIGHT_REVEALED" /\ UNCHANGED disclosed

GoHard == phase = "PRECOMMIT_ACCEPTED" /\ phase' = "HARD_SELECTED" /\ UNCHANGED disclosed

Disclose ==
  /\ phase \in {"PRECOMMIT_ACCEPTED", "HARD_SELECTED"}
  /\ ~disclosed
  /\ phase' = "NONCE_REVEALED"
  /\ disclosed' = TRUE

Check == phase = "NONCE_REVEALED" /\ phase' = "VERIFYING" /\ UNCHANGED disclosed

Accept == phase = "VERIFYING" /\ phase' = "VERIFIED" /\ UNCHANGED disclosed

\* Lateness, a malformed answer, a local failure or a cancellation.
Void == phase \notin Ended /\ phase' = "VOID" /\ UNCHANGED disclosed

Next == Freeze \/ GoLight \/ GoHard \/ Disclose \/ Check \/ Accept \/ Void

Spec == Init /\ [][Next]_vars
=============================================================================
