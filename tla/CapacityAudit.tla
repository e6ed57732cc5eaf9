--------------------------- MODULE CapacityAudit ---------------------------
(***************************************************************************)
(* One capacity-audit window and one audited slot, from selection to the   *)
(* consequences (neurons/validator.py, neurons/validator_db.py), with the  *)
(* strict modes score_gate and enforce and a validator that verifies for    *)
(* itself.  Three public blocks anchor a window: B_select draws it, B_start *)
(* starts the timed work, B_proof draws the challenge.  The rows win and    *)
(* slot are the database; the block thread, the receipt and proof           *)
(* executors and the epoch close read and write them one transaction at a   *)
(* time.  Time is counted in blocks of the live chain.                      *)
(***************************************************************************)
EXTENDS Integers

CONSTANTS None,
          Lead,             \* lead_blocks: B_start - B_select
          ProofDelay,       \* proof_challenge_delay_blocks: B_proof - B_start
          Deadline,         \* deadline_s + transport_grace_s
          PayloadDeadline,  \* payload_deadline_s
          Receipts,         \* deliveries of the miner's final receipt
          Payloads,         \* deliveries of the miner's proof payload
          FinalityLag,      \* blocks after which a block is final (external)
          MaxBlock,         \* bound on the live chain
          MaxLag,           \* bound on how far the validator runs behind it
          MaxRestarts       \* bound on restarts of the validator

SelectAt == 1
StartAt == SelectAt + Lead
ProofAt == StartAt + ProofDelay

\* validate_capacity_audit_runtime_config
ASSUME CapacityAssumption ==
  /\ Lead \in Nat \ {0} /\ ProofDelay \in Nat \ {0}
  /\ Deadline \in Nat /\ Deadline < ProofDelay
  /\ PayloadDeadline \in Nat /\ FinalityLag \in Nat
  /\ MaxBlock \in Nat /\ MaxLag \in Nat /\ MaxRestarts \in Nat
  /\ None \notin Nat
  /\ "block" \notin Receipts \union Payloads /\ Receipts \intersect Payloads = {}

VARIABLES chain,       \* head of the live chain
          block,       \* _highest_dispatched_block
          pc,          \* where the block thread is
          selected,    \* the hash a submitted scheduling task holds
          win,         \* row of capacity_audit_windows
          slot,        \* row of capacity_audit_slots
          finals,      \* final receipts on their way through the executor
          payloads,    \* proof payloads on their way through theirs
          applying,    \* threads that have listed the slot for its penalty
          unhealthy,   \* _capacity_audit_verifier_unhealthy
          restarts,
          \* the consequences
          decays,      \* times the miner's EMA was halved for this slot
          counted      \* the score gate has counted this slot as a failure

dbVars == <<win, slot>>
threadVars == <<block, pc, selected>>
taskVars == <<finals, payloads, applying>>
vars == <<chain, dbVars, threadVars, taskVars, counted, unhealthy, restarts,
          decays>>

Anchors == {"select", "start", "proof"}
Hashes == {"none", "canonical", "orphan"}
Height == [select |-> SelectAt, start |-> StartAt, proof |-> ProofAt]
Actors == {"block"} \union Receipts \union Payloads

Verdicts == {"pending", "pass0_seen", "timing_pass", "timing_miss", "no_show",
             "hard_proof_miss", "timing_excused", "stale_window", "chain_reorged"}
Proofs == {"pending", "verify_pending", "verified", "invalid", "missing", "error"}

\* A delivery that holds nothing: not arrived, or dealt with.
Receipt(stage) == [stage |-> stage, at |-> 0, head |-> 0, startedAt |-> None,
                   challenged |-> FALSE, pass0 |-> FALSE]
Payload(stage) == [stage |-> stage, at |-> 0, hash |-> "none", started |-> FALSE,
                   verdict |-> "pending"]

Init ==
  /\ chain = 0 /\ block = 0
  /\ pc = "wait"
  /\ selected = "none"
  /\ win = [status |-> "none", hash |-> [a \in Anchors |-> "none"], finalized |-> {},
            chain |-> "pending", startedAt |-> None, challengeAt |-> None]
  /\ slot = [verdict |-> "pending", awaits |-> FALSE, proof |-> "pending",
             pass0 |-> FALSE, finalAt |-> None, early |-> FALSE,
             required |-> FALSE, applied |-> FALSE]
  /\ finals = [r \in Receipts |-> Receipt("new")]
  /\ payloads = [p \in Payloads |-> Payload("new")]
  /\ applying = [a \in Actors |-> FALSE]
  /\ unhealthy = FALSE
  /\ restarts = 0
  /\ decays = 0
  /\ counted = FALSE

-----------------------------------------------------------------------------
(* The chain (external): a block that is not final may still be replaced, *)
(* so what is read as its hash may turn out to be an orphan's.             *)

Grow ==
  /\ chain < MaxBlock
  /\ pc = "idle" \/ chain - block < MaxLag
  /\ chain' = chain + 1
  /\ UNCHANGED <<dbVars, threadVars, taskVars, counted, unhealthy, restarts, decays>>

\* _get_current_finalized_block_and_hash
Final == IF chain > FinalityLag THEN chain - FinalityLag ELSE 0

\* _get_chain_block_hash
ChainHash(n) == IF n <= Final THEN {"canonical"}
                ELSE IF n <= chain THEN {"canonical", "orphan"} ELSE {}

-----------------------------------------------------------------------------
(* The transactions of validator_db.py. *)

Live == win.chain # "reorged"

\* create_capacity_audit_window
Scheduled(h) == [win EXCEPT !.status = "scheduled", !.hash["select"] = h]

\* set_capacity_audit_block_hash
Started(h) == [win EXCEPT !.status = "started", !.hash["start"] = h,
                          !.startedAt = chain]

\* set_capacity_audit_proof_challenge_hash
Challenged(h, at) == [win EXCEPT !.hash["proof"] = h, !.challengeAt = at]

\* Mutated form: the deadline itself is already too late.
OnTimeStrict(at, start) == at < start + Deadline

OnTime(at, start) == at <= start + Deadline

\* The guard of record_capacity_audit_final.
MayRecordFinal(verdict) ==
  /\ Live
  /\ \/ slot.finalAt = None
     \/ verdict = "hard_proof_miss" /\ slot.verdict # "hard_proof_miss"

\* record_capacity_audit_final
FinalRecorded(verdict, awaits, required, early, at) ==
  [slot EXCEPT !.verdict = verdict, !.awaits = awaits,
               !.required = @ \/ required,
               !.finalAt = IF @ = None THEN at ELSE @,
               !.early = IF slot.finalAt = None THEN early ELSE @]

\* resolve_capacity_audit_pending_start
StartResolved ==
  IF slot.awaits /\ slot.finalAt # None
  THEN [slot EXCEPT !.awaits = FALSE,
                    !.verdict = IF @ = "hard_proof_miss" THEN @
                                ELSE IF OnTime(slot.finalAt, win.startedAt)
                                     THEN "timing_pass" ELSE "timing_miss"]
  ELSE slot

\* mark_capacity_audit_window_stale
SlotStale ==
  IF slot.verdict \in {"pending", "pass0_seen", "timing_pass", "timing_miss", "no_show"}
  THEN [slot EXCEPT !.verdict = "stale_window", !.awaits = FALSE]
  ELSE slot

\* The two updates of expire_capacity_audit_misses.
NoShow == /\ slot.verdict \in {"pending", "pass0_seen"}
          /\ win.startedAt # None
          /\ chain > win.startedAt + Deadline

\* The payload clock runs from the later of the receipt and the challenge.
PayloadDue ==
  LET challenge == IF win.challengeAt = None THEN slot.finalAt ELSE win.challengeAt
  IN  (IF challenge > slot.finalAt THEN challenge ELSE slot.finalAt) + PayloadDeadline

\* Mutated form: forgets that a received payload is only waiting to be verified.
PayloadMissingAnyway ==
  /\ slot.verdict = "timing_pass" /\ slot.proof \in {"pending", "verify_pending"}
  /\ slot.finalAt # None /\ chain > PayloadDue

PayloadMissing ==
  /\ slot.verdict = "timing_pass" /\ slot.proof = "pending"
  /\ slot.finalAt # None /\ chain > PayloadDue

Expired(required) ==
  IF NoShow THEN [slot EXCEPT !.verdict = "no_show", !.awaits = FALSE,
                              !.required = @ \/ required]
  ELSE IF PayloadMissing THEN [slot EXCEPT !.verdict = "hard_proof_miss",
                                           !.proof = "missing",
                                           !.required = @ \/ required]
  ELSE slot

\* record_capacity_audit_proof_verdict
ProofRecorded(proof, verdict, required) ==
  IF Live THEN [slot EXCEPT !.proof = proof, !.verdict = verdict,
                            !.required = @ \/ required]
          ELSE slot

\* Mutated form: settles a window whose B_start was never confirmed.
SettledEarly(finalized, hash) == "select" \in finalized

\* A window is confirmed once every anchor recorded so far is: B_proof counts only
\* if its hash is known.
Settled(finalized, hash) ==
  /\ {"select", "start"} \subseteq finalized
  /\ hash["proof"] # "none" => "proof" \in finalized

\* record_capacity_audit_finalization for the anchors whose final hash was read:
\* one that differs from what the validator had recorded voids the window.
Finalized(read) ==
  IF \E a \in read : win.hash[a] = "orphan"
  THEN [win EXCEPT !.chain = "reorged"]
  ELSE [win EXCEPT !.finalized = @ \union read,
                   !.chain = IF Live /\ Settled(win.finalized \union read, win.hash)
                             THEN "confirmed" ELSE @]

-----------------------------------------------------------------------------
(* The consequences. *)

\* get_finalized_capacity_audit_probation_candidates
Candidate(w, s) == /\ s.verdict = "hard_proof_miss"
                   /\ s.required /\ ~s.applied
                   /\ w.chain = "confirmed"

\* _apply_finalized_capacity_audit_probations, called right after evidence or a
\* confirmation was recorded: thread a lists the candidates, unless a maintenance
\* grace suppresses penalties, ...
ListCandidates(a, w, s) ==
  \/ Candidate(w, s) /\ applying' = [applying EXCEPT ![a] = TRUE]
  \/ UNCHANGED applying

\* Mutated form: trusts the list of candidates read before.
ChargeableListed == TRUE

\* What apply_finalized_capacity_audit_probation_once checks again.
Chargeable == Candidate(win, slot)

\* ... and charges each in a transaction that sets its marker, enters probation and
\* halves the EMA.
Charge(a) ==
  /\ applying[a]
  /\ applying' = [applying EXCEPT ![a] = FALSE]
  /\ IF Chargeable THEN /\ slot' = [slot EXCEPT !.applied = TRUE]
                        /\ decays' = decays + 1
                   ELSE UNCHANGED <<slot, decays>>
  /\ UNCHANGED <<chain, win, threadVars, finals, payloads, counted, unhealthy,
                 restarts>>

-----------------------------------------------------------------------------
(* The block thread: _process_current_head_block_range and                  *)
(* _handle_capacity_audit_block.                                            *)

AtBlock(loc) == pc = loc /\ ~applying["block"]

\* Mutated form: takes a block number the chain has not reached.
NewBlockAny == TRUE

NewBlock == block < chain

\* A block is claimed before it is handled; the first thing its handler does is to
\* expire what is overdue.  `required' is the probation policy of the moment
\* (_capacity_audit_failure_requires_probation).
BeginBlock ==
  /\ AtBlock("wait") /\ NewBlock
  /\ block' = block + 1
  /\ pc' = "start"
  /\ IF win.status # "none" /\ (NoShow \/ PayloadMissing)
     THEN /\ \E required \in BOOLEAN : slot' = Expired(required)
          /\ ListCandidates("block", win, slot')
     ELSE UNCHANGED <<slot, applying>>
  /\ UNCHANGED <<chain, win, selected, finals, payloads, counted,
                 unhealthy, restarts, decays>>

\* _start_capacity_audit_windows: a window whose start block is past is given up;
\* one whose hash cannot be read waits.
StartWindows ==
  /\ AtBlock("start")
  /\ LET due == win.status = "scheduled" /\ StartAt <= block
     IN \/ /\ due /\ block > StartAt
           /\ win' = [win EXCEPT !.status = "stale"]
           /\ slot' = SlotStale
           /\ pc' = "challenge"
        \/ /\ due /\ block = StartAt
           /\ \E h \in ChainHash(StartAt) : win' = Started(h)
           /\ pc' = "resolve"
           /\ UNCHANGED slot
        \/ /\ due => block = StartAt
           /\ pc' = "challenge"
           /\ UNCHANGED dbVars
  /\ UNCHANGED <<chain, block, selected, taskVars, counted, unhealthy,
                 restarts, decays>>

ResolveStart ==
  /\ AtBlock("resolve")
  /\ slot' = StartResolved
  /\ pc' = "challenge"
  /\ UNCHANGED <<chain, win, block, selected, taskVars, counted,
                 unhealthy, restarts, decays>>

\* _record_capacity_audit_proof_challenges, when the hash can be read; then a block
\* that triggers a window submits its scheduling.
RecordChallenge ==
  /\ AtBlock("challenge")
  /\ \/ /\ win.status # "none" /\ ProofAt <= block /\ win.hash["proof"] = "none"
        /\ \E h \in ChainHash(ProofAt) : win' = Challenged(h, chain)
     \/ UNCHANGED win
  /\ \/ /\ block = SelectAt /\ win.status = "none"
        /\ selected' \in ChainHash(SelectAt)
     \/ UNCHANGED selected
  /\ pc' \in {"confirm"} \union {loc \in {"wait"} : block < chain}
  /\ UNCHANGED <<chain, slot, block, taskVars, counted, unhealthy,
                 restarts, decays>>

\* _schedule_capacity_audit_window, on an executor of its own.
ScheduleWindow ==
  /\ selected # "none"
  /\ selected' = "none"
  /\ win' = Scheduled(selected)
  /\ UNCHANGED <<chain, slot, block, pc, taskVars, counted, unhealthy,
                 restarts, decays>>

\* _confirm_capacity_audit_finalized_blocks, after a range of blocks: each recorded
\* anchor up to the finalized head is compared, unless the chain cannot be read now.
ConfirmFinalized ==
  /\ AtBlock("confirm")
  /\ pc' = "wait"
  /\ LET due == {a \in Anchors \ win.finalized :
                    win.hash[a] # "none" /\ Height[a] <= Final}
     IN \/ /\ Live /\ due # {}
           /\ win' = Finalized(due)
           /\ slot' = IF win'.chain = "reorged"
                      THEN [slot EXCEPT !.verdict = "chain_reorged", !.required = FALSE]
                      ELSE slot
        \/ UNCHANGED dbVars
  /\ ListCandidates("block", win', slot')
  /\ UNCHANGED <<chain, block, selected, finals, payloads, counted, unhealthy,
                 restarts, decays>>

-----------------------------------------------------------------------------
(* Receipts: ingest_capacity_audit_artifact on the receipt executor.  The   *)
(* miner delivers at least once, so a receipt may be on several threads.    *)

\* record_capacity_audit_pass0
RecordPass0 ==
  /\ win.status # "none" /\ Live /\ chain >= StartAt
  /\ slot' = [slot EXCEPT !.pass0 = TRUE,
                          !.verdict = IF @ = "pending" THEN "pass0_seen" ELSE @]
  /\ UNCHANGED <<chain, win, threadVars, taskVars, counted, unhealthy, restarts,
                 decays>>

\* The request is stamped before it queues for a thread.
ReceiveFinal(r) ==
  /\ finals[r].stage = "new" /\ chain >= StartAt
  /\ finals' = [finals EXCEPT ![r].stage = "queued", ![r].at = chain]
  /\ UNCHANGED <<chain, dbVars, threadVars, payloads, applying, counted, unhealthy,
                 restarts, decays>>

\* _validate_capacity_audit_artifact reads the row; a receipt that was committed
\* already is only answered.
ReadFinal(r) ==
  /\ finals[r].stage = "queued"
  /\ finals' = [finals EXCEPT ![r] =
       IF win.status = "none" \/ ~Live \/ slot.finalAt # None
       THEN Receipt("done")
       ELSE [@ EXCEPT !.stage = "read", !.head = chain,
                      !.startedAt = win.startedAt,
                      !.challenged = win.hash["proof"] # "none",
                      !.pass0 = slot.pass0]]
  /\ UNCHANGED <<chain, dbVars, threadVars, payloads, applying, counted, unhealthy,
                 restarts, decays>>

\* Mutated form: takes the last block the validator handled for the live head.
LiveHeadHandled(t) == {block}

\* _observe_live_capacity_audit_head: what the live head was at some moment since
\* the row was read; B_proof itself if its hash is already known.
LiveHead(t) == IF t.challenged THEN {ProofAt} ELSE t.head .. chain

FinalDone(r) == finals' = [finals EXCEPT ![r] = Receipt("done")]

\* The receipt is judged by the row as it was read.  `early' says that it is of the
\* current protocol version and came while the live head was below B_proof
\* (final_observed_block); the first version promises nothing about B_proof.
RecordFinal(r) ==
  LET t == finals[r]
  IN
  /\ t.stage = "read"
  /\ FinalDone(r)
  /\ \E required \in BOOLEAN :
       \/ /\ \E head \in LiveHead(t) : head >= ProofAt
          /\ IF MayRecordFinal("hard_proof_miss")
             THEN /\ slot' = FinalRecorded("hard_proof_miss", FALSE, required, FALSE, t.at)
                  /\ ListCandidates(r, win, slot')
             ELSE UNCHANGED <<slot, applying>>
       \/ \E early \in BOOLEAN :
          /\ early => \E head \in LiveHead(t) : head < ProofAt
          /\ \/ /\ t.pass0  \* the transcript contradicts the pass-0 root
                /\ slot' = IF MayRecordFinal("hard_proof_miss")
                           THEN FinalRecorded("hard_proof_miss", FALSE, required, early,
                                              t.at)
                           ELSE slot
                /\ ListCandidates(r, win, slot')
             \/ /\ LET verdict == IF t.startedAt = None THEN "pass0_seen"
                                  ELSE IF OnTime(t.at, t.startedAt) THEN "timing_pass"
                                  ELSE "timing_miss"
                   IN  slot' = IF MayRecordFinal(verdict)
                               THEN FinalRecorded(verdict, t.startedAt = None,
                                                  verdict = "timing_miss" /\ required,
                                                  early, t.at)
                               ELSE slot
                /\ UNCHANGED applying
  /\ UNCHANGED <<chain, win, threadVars, payloads, counted, unhealthy, restarts, decays>>

\* The live head cannot be read: 503, and the miner tries again.
RefuseFinal(r) ==
  /\ finals[r].stage = "read" /\ ~finals[r].challenged
  /\ finals' = [finals EXCEPT ![r] = Receipt("new")]
  /\ UNCHANGED <<chain, dbVars, threadVars, payloads, applying, counted, unhealthy,
                 restarts, decays>>

-----------------------------------------------------------------------------
(* Proof payloads: submit_capacity_audit_proof_artifact on the event loop,  *)
(* then _run_capacity_audit_proof_verification on the proof executor.       *)

\* _prepare_capacity_audit_proof_enqueue reads the row and, if the validator has
\* not seen B_proof yet, its hash; a payload that comes too early is refused.
ReceivePayload(p) ==
  /\ payloads[p].stage = "new" /\ chain >= ProofAt
  /\ win.status # "none" /\ Live /\ slot.finalAt # None
  /\ \E h \in IF win.hash["proof"] = "none" THEN ChainHash(ProofAt) ELSE {"none"} :
       payloads' = [payloads EXCEPT ![p] =
                      [@ EXCEPT !.stage = "enqueue", !.at = chain, !.hash = h,
                                !.started = win.hash["start"] # "none"]]
  /\ UNCHANGED <<chain, dbVars, threadVars, finals, applying, counted, unhealthy,
                 restarts, decays>>

\* It records the challenge it read, and that the payload is here; only then is the
\* payload acknowledged (202) and queued.  Without B_start it is refused (409).
EnqueuePayload(p) ==
  LET t == payloads[p]
  IN
  /\ t.stage = "enqueue"
  /\ win' = IF t.hash = "none" THEN win ELSE Challenged(t.hash, t.at)
  /\ payloads' = [payloads EXCEPT ![p] = Payload(IF t.started THEN "queued" ELSE "refused")]
  /\ slot' = IF t.started /\ Live /\ slot.proof = "pending"
             THEN [slot EXCEPT !.proof = "verify_pending"] ELSE slot
  /\ UNCHANGED <<chain, threadVars, finals, applying, counted, unhealthy, restarts,
                 decays>>

\* A worker reads the row again; a reorged window's payload is dropped.
ReadPayload(p) ==
  /\ payloads[p].stage = "queued"
  /\ payloads' = [payloads EXCEPT ![p] = IF Live THEN [Payload("verify") EXCEPT
                                                         !.verdict = slot.verdict]
                                                ELSE Payload("done")]
  /\ UNCHANGED <<chain, dbVars, threadVars, finals, applying, counted, unhealthy,
                 restarts, decays>>

\* A verified proof, or a failure of the verifier itself, leaves the verdict as the
\* worker read it.
KeepVerdict(p, proof) == slot' = ProofRecorded(proof, payloads[p].verdict, FALSE)

\* An exception anywhere in the worker reads the row once more and leaves it an error.
WorkerFails(p) ==
  /\ \/ KeepVerdict(p, "error")
     \/ slot' = ProofRecorded("error", slot.verdict, FALSE)
  /\ unhealthy' = TRUE

VerifyPayload(p) ==
  /\ payloads[p].stage = "verify"
  /\ payloads' = [payloads EXCEPT ![p] = Payload("done")]
  /\ \/ /\ slot.early
        /\ KeepVerdict(p, "verified")
        /\ unhealthy' = FALSE
        /\ UNCHANGED applying
     \/ /\ WorkerFails(p)
        /\ UNCHANGED applying
     \/ /\ \E required \in BOOLEAN :
             slot' = ProofRecorded("invalid", "hard_proof_miss", required)
        /\ ListCandidates(p, win, slot')
        /\ UNCHANGED unhealthy
  /\ UNCHANGED <<chain, win, threadVars, finals, counted, restarts, decays>>

-----------------------------------------------------------------------------
(* Epoch close, identity changes and restarts. *)

\* Mutated form: takes the status of the window for the finality of its anchors.
AnchorsFinalByStatus == win.chain = "confirmed"

\* The confirmation_clause of recent_capacity_failures.
AnchorsFinal == win.finalized = Anchors /\ Live

\* _capacity_audit_score_gate_reason
Counts(s) == /\ ~unhealthy /\ s.required /\ AnchorsFinal
             /\ s.verdict \in {"hard_proof_miss", "no_show", "timing_miss"}

\* For each miner, _reconcile_capacity_audit_timing_excuses and then the score gate,
\* unless enforcement is off; an epoch ends after its windows' B_proof.
CloseEpoch ==
  /\ chain > ProofAt /\ win.status # "none"
  /\ \/ /\ slot.verdict \in {"timing_miss", "no_show"} /\ win.startedAt # None
        /\ slot' = [slot EXCEPT !.verdict = "timing_excused"]
     \/ UNCHANGED slot
  /\ counted' = (counted \/ Counts(slot'))
  /\ UNCHANGED <<chain, win, threadVars, taskVars, unhealthy, restarts, decays>>

\* mark_capacity_audit_address_identity_stale: the miner's UID changed hands.
RetireIdentity ==
  /\ win.status # "none"
  /\ slot.verdict \in {"pending", "pass0_seen", "timing_pass"}
  /\ slot.proof \in {"pending", "verify_pending"}
  /\ slot' = [slot EXCEPT !.verdict = "stale_window", !.awaits = FALSE]
  /\ UNCHANGED <<chain, win, threadVars, taskVars, counted, unhealthy, restarts,
                 decays>>

\* Where a new process takes up the blocks: at the boundary of the current epoch,
\* which contains the window or comes after it, or at the current block if it is told
\* to; far into an epoch it waits for the next one instead.
Resumes ==
  \/ /\ \E b \in 0 .. chain :
          /\ SelectAt <= b /\ b < ProofAt => b = chain - 1
          /\ block' = b
     /\ pc' = "wait"
  \/ block' = chain /\ pc' = "idle"

\* The epoch that the process was waiting for begins.
NextEpoch ==
  /\ pc = "idle" /\ chain > ProofAt
  /\ pc' = "wait"
  /\ block' = chain - 1
  /\ UNCHANGED <<chain, dbVars, selected, taskVars, counted, unhealthy, restarts,
                 decays>>

\* The threads and what they hold are lost.  A receipt that was not answered is
\* delivered again; a payload that was acknowledged is not.
\* reconcile_capacity_audit_duplicate_timing_misses runs before anything else.
Restart ==
  /\ restarts < MaxRestarts /\ chain < MaxBlock
  /\ restarts' = restarts + 1
  /\ Resumes /\ selected' = "none"
  /\ finals' = [r \in Receipts |->
                  Receipt(IF finals[r].stage = "done" THEN "done" ELSE "new")]
  /\ payloads' = [p \in Payloads |->
                    Payload(IF payloads[p].stage = "enqueue" THEN "new"
                            ELSE IF payloads[p].stage \in {"queued", "verify"} THEN "done"
                            ELSE payloads[p].stage)]
  /\ applying' = [a \in Actors |-> FALSE]
  /\ unhealthy' = FALSE
  /\ slot' = IF /\ slot.verdict = "timing_miss" /\ slot.finalAt # None
                /\ win.startedAt # None /\ OnTime(slot.finalAt, win.startedAt)
             THEN [slot EXCEPT !.verdict = "timing_pass"] ELSE slot
  /\ UNCHANGED <<chain, win, counted, decays>>

-----------------------------------------------------------------------------
Next ==
  \/ Grow
  \/ BeginBlock \/ StartWindows \/ ResolveStart \/ RecordChallenge \/ ConfirmFinalized
  \/ ScheduleWindow
  \/ \E a \in Actors : Charge(a)
  \/ RecordPass0
  \/ \E r \in Receipts : \/ ReceiveFinal(r) \/ ReadFinal(r)
                          \/ RecordFinal(r) \/ RefuseFinal(r)
  \/ \E p \in Payloads : \/ ReceivePayload(p) \/ EnqueuePayload(p)
                          \/ ReadPayload(p) \/ VerifyPayload(p)
  \/ CloseEpoch \/ RetireIdentity \/ Restart \/ NextEpoch

Spec == Init /\ [][Next]_vars

-----------------------------------------------------------------------------
(* Properties. *)

TimeOrNone == Nat \union {None}

WinType == [status : {"none", "scheduled", "started", "stale"},
            hash : [Anchors -> Hashes], finalized : SUBSET Anchors,
            chain : {"pending", "confirmed", "reorged"},
            startedAt : TimeOrNone, challengeAt : TimeOrNone]
SlotType == [verdict : Verdicts, awaits : BOOLEAN, proof : Proofs, pass0 : BOOLEAN,
             finalAt : TimeOrNone, early : BOOLEAN, required : BOOLEAN,
             applied : BOOLEAN]
ReceiptType == [stage : {"new", "queued", "read", "done"}, at : Nat, head : Nat,
                startedAt : TimeOrNone, challenged : BOOLEAN, pass0 : BOOLEAN]
PayloadType == [stage : {"new", "enqueue", "refused", "queued", "verify", "done"},
                at : Nat, hash : Hashes, started : BOOLEAN, verdict : Verdicts]

TypeOK ==
  /\ chain \in Nat /\ block \in Nat /\ block <= chain
  /\ pc \in {"idle", "wait", "start", "resolve", "challenge", "confirm"}
  /\ selected \in Hashes
  /\ win \in WinType /\ slot \in SlotType
  /\ finals \in [Receipts -> ReceiptType]
  /\ payloads \in [Payloads -> PayloadType]
  /\ applying \in [Actors -> BOOLEAN]
  /\ unhealthy \in BOOLEAN /\ counted \in BOOLEAN
  /\ restarts \in Nat /\ decays \in Nat

\* apply_finalized_capacity_audit_probation_once: however many threads find the
\* failure, and across restarts, the miner's EMA is halved once for it.
PenaltyOnce == decays <= 1

\* record_capacity_audit_finalization: nobody is charged for a window that this
\* validator did not start itself, or whose B_select or B_start it had wrong.
PenaltyStarted ==
  decays > 0 => /\ win.startedAt # None
                /\ win.hash["select"] = "canonical" /\ win.hash["start"] = "canonical"

\* recent_capacity_failures: the score gate counts a failure only against anchors
\* that are all final, and that is never taken back by a reorganisation.
GateStands == counted => win.finalized = Anchors /\ win.chain # "reorged"

\* record_capacity_audit_final: a slot that missed its deadline has a first receipt
\* that was late, whatever the order in which deliveries are processed.
MissIsLate ==
  slot.verdict = "timing_miss" => /\ slot.finalAt # None /\ win.startedAt # None
                                  /\ slot.finalAt > win.startedAt + Deadline

\* _observe_live_capacity_audit_head: a proof is accepted only for a commitment that
\* had arrived before the block of its challenge existed.
CommitBeforeChallenge ==
  slot.proof = "verified" => slot.finalAt # None /\ slot.finalAt < ProofAt

\* expire_capacity_audit_misses: a payload that was acknowledged is never declared
\* missing, even if a restart loses it.
AckedIsNotMissing ==
  [][slot'.proof = "missing" /\ slot.proof # "missing" =>
       \A p \in Payloads : payloads[p].stage \in {"new", "enqueue", "refused"}]_vars
=============================================================================
