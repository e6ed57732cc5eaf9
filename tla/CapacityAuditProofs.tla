------------------------ MODULE CapacityAuditProofs ------------------------
(***************************************************************************)
(* Proofs about CapacityAudit, for any timing parameters, number of          *)
(* deliveries and restarts: the type invariant, the safety invariants of the *)
(* run and that an acknowledged payload is never declared missing.           *)
(***************************************************************************)
EXTENDS CapacityAudit, TLAPS

-----------------------------------------------------------------------------
(***************************************************************************)
(* The transactions on the window's row                                      *)
(***************************************************************************)

\* A hash read from the chain is a hash.
LEMMA ChainHashes ==
  ASSUME NEW n, NEW h \in ChainHash(n)
  PROVE  h \in Hashes /\ h # "none"
BY DEF ChainHash, Hashes

\* create_capacity_audit_window writes the status and B_select's hash.
LEMMA ScheduledRow ==
  ASSUME win \in WinType, NEW h \in Hashes
  PROVE  LET w == Scheduled(h)
         IN  /\ w \in WinType /\ w.status = "scheduled"
             /\ w.hash["start"] = win.hash["start"] /\ w.hash["select"] = h
             /\ w.finalized = win.finalized /\ w.chain = win.chain
             /\ w.startedAt = win.startedAt
BY DEF Scheduled, WinType, Anchors

\* set_capacity_audit_block_hash writes B_start's hash and the moment.
LEMMA StartedRow ==
  ASSUME win \in WinType, chain \in Nat, NEW h \in Hashes
  PROVE  LET w == Started(h)
         IN  /\ w \in WinType /\ w.status = "started"
             /\ w.hash["start"] = h /\ w.hash["select"] = win.hash["select"]
             /\ w.finalized = win.finalized /\ w.chain = win.chain
             /\ w.startedAt = chain
BY DEF Started, WinType, Anchors, TimeOrNone

\* set_capacity_audit_proof_challenge_hash writes only what concerns B_proof.
LEMMA ChallengedRow ==
  ASSUME win \in WinType, NEW h \in Hashes, NEW at \in Nat
  PROVE  LET w == Challenged(h, at)
         IN  /\ w \in WinType /\ w.status = win.status
             /\ w.hash["start"] = win.hash["start"]
             /\ w.hash["select"] = win.hash["select"]
             /\ w.finalized = win.finalized /\ w.chain = win.chain
             /\ w.startedAt = win.startedAt
BY DEF Challenged, WinType, Anchors, TimeOrNone

\* mark_capacity_audit_window_stale writes the status.
LEMMA StaleRow ==
  ASSUME win \in WinType
  PROVE  LET w == [win EXCEPT !.status = "stale"]
         IN  /\ w \in WinType /\ w.status = "stale" /\ w.hash = win.hash
             /\ w.finalized = win.finalized /\ w.chain = win.chain
             /\ w.startedAt = win.startedAt
BY DEF WinType

\* Either one of the hashes read is not the recorded one, and the window is
\* void, or the anchors read become final.
LEMMA FinalizedRow ==
  ASSUME win \in WinType, Live, NEW read \in SUBSET Anchors,
         \A a \in read : win.hash[a] # "none"
  PROVE  LET w == Finalized(read)
         IN  /\ w \in WinType /\ w.status = win.status /\ w.hash = win.hash
             /\ w.startedAt = win.startedAt
             /\ \/ w.chain = "reorged" /\ w.finalized = win.finalized
                \/ /\ w.chain # "reorged"
                   /\ w.finalized = win.finalized \union read
                   /\ \A a \in read : win.hash[a] = "canonical"
                   /\ w.chain = "confirmed" =>
                        \/ win.chain = "confirmed"
                        \/ {"select", "start"} \subseteq w.finalized
<1>1. CASE \E a \in read : win.hash[a] = "orphan"
  BY <1>1 DEF Finalized, WinType
<1>2. CASE ~\E a \in read : win.hash[a] = "orphan"
  <2>1. \A a \in read : win.hash[a] = "canonical"
    BY <1>2 DEF WinType, Hashes
  <2>2. \A c : c \in {win.chain, "confirmed"} =>
          LET w == [win EXCEPT !.finalized = @ \union read, !.chain = c]
          IN  /\ w \in WinType /\ w.status = win.status /\ w.hash = win.hash
              /\ w.startedAt = win.startedAt /\ w.chain = c
              /\ w.finalized = win.finalized \union read
    BY DEF WinType
  <2>3. CASE Settled(win.finalized \union read, win.hash)
    <3>1. Finalized(read) = [win EXCEPT !.finalized = @ \union read, !.chain = "confirmed"]
      BY <1>2, <2>3 DEF Finalized
    <3> QED
      BY <2>1, <2>2, <2>3, <3>1 DEF Settled
  <2>4. CASE ~Settled(win.finalized \union read, win.hash)
    <3>1. Finalized(read) = [win EXCEPT !.finalized = @ \union read, !.chain = @]
      BY <1>2, <2>4 DEF Finalized
    <3>2. Finalized(read) = [win EXCEPT !.finalized = @ \union read, !.chain = win.chain]
      BY <3>1
    <3> QED
      BY <2>1, <2>2, <3>2 DEF Live
  <2> QED
    BY <2>3, <2>4
<1> QED
  BY <1>1, <1>2

-----------------------------------------------------------------------------
(***************************************************************************)
(* The transactions on the slot's row                                        *)
(***************************************************************************)

\* A transaction that leaves the receipt and the marker alone.
KeepsReceipt(s) ==
  /\ s \in SlotType /\ s.finalAt = slot.finalAt /\ s.early = slot.early
  /\ s.applied = slot.applied

\* record_capacity_audit_final keeps the time of the first receipt.
LEMMA FinalRow ==
  ASSUME slot \in SlotType, NEW v \in Verdicts, NEW awaits \in BOOLEAN,
         NEW required \in BOOLEAN, NEW early \in BOOLEAN, NEW at \in Nat
  PROVE  LET s == FinalRecorded(v, awaits, required, early, at)
         IN  /\ s \in SlotType /\ s.verdict = v /\ s.proof = slot.proof
             /\ s.applied = slot.applied
             /\ s.finalAt = IF slot.finalAt = None THEN at ELSE slot.finalAt
             /\ s.early = IF slot.finalAt = None THEN early ELSE slot.early
BY DEF FinalRecorded, SlotType, TimeOrNone

\* resolve_capacity_audit_pending_start decides a receipt that waited.
LEMMA StartResolvedRow ==
  ASSUME slot \in SlotType
  PROVE  LET s == StartResolved
         IN  /\ KeepsReceipt(s) /\ s.proof = slot.proof
             /\ s.verdict = "timing_miss" =>
                  \/ slot.verdict = "timing_miss"
                  \/ slot.finalAt # None /\ ~OnTime(slot.finalAt, win.startedAt)
<1> DEFINE v == IF slot.verdict = "hard_proof_miss" THEN slot.verdict
                ELSE IF OnTime(slot.finalAt, win.startedAt)
                     THEN "timing_pass" ELSE "timing_miss"
           t == [slot EXCEPT !.awaits = FALSE, !.verdict = v]
<1>1. v \in Verdicts
  BY DEF Verdicts
<1>2. ASSUME NEW u \in Verdicts
      PROVE  LET s == [slot EXCEPT !.awaits = FALSE, !.verdict = u]
             IN KeepsReceipt(s) /\ s.proof = slot.proof /\ s.verdict = u
  BY DEF KeepsReceipt, SlotType
<1>3. KeepsReceipt(t) /\ t.proof = slot.proof /\ t.verdict = v
  BY <1>1, <1>2
<1>4. StartResolved = IF slot.awaits /\ slot.finalAt # None THEN t ELSE slot
  BY DEF StartResolved
<1>5. CASE slot.awaits /\ slot.finalAt # None
  BY <1>3, <1>4, <1>5
<1>6. CASE ~(slot.awaits /\ slot.finalAt # None)
  BY <1>4, <1>6 DEF KeepsReceipt
<1> QED
  BY <1>5, <1>6

\* A transaction that writes the verdict alone, or with one of its flags.
LEMMA VerdictRow ==
  ASSUME slot \in SlotType, NEW v \in Verdicts
  PROVE  /\ LET s == [slot EXCEPT !.verdict = v]
            IN KeepsReceipt(s) /\ s.proof = slot.proof /\ s.verdict = v
         /\ LET s == [slot EXCEPT !.verdict = v, !.awaits = FALSE]
            IN KeepsReceipt(s) /\ s.proof = slot.proof /\ s.verdict = v
         /\ LET s == [slot EXCEPT !.verdict = v, !.required = FALSE]
            IN KeepsReceipt(s) /\ s.proof = slot.proof /\ s.verdict = v
BY DEF KeepsReceipt, SlotType

\* mark_capacity_audit_window_stale on the slot.
LEMMA StaleSlotRow ==
  ASSUME slot \in SlotType
  PROVE  LET s == SlotStale
         IN  /\ KeepsReceipt(s) /\ s.proof = slot.proof
             /\ s.verdict \in {slot.verdict, "stale_window"}
BY VerdictRow DEF SlotStale, KeepsReceipt, Verdicts

\* A slot expires as a no-show or for want of a payload that never came.
LEMMA ExpiredRow ==
  ASSUME slot \in SlotType, NEW required \in BOOLEAN
  PROVE  LET s == Expired(required)
         IN  /\ KeepsReceipt(s)
             /\ s.verdict \in {slot.verdict, "no_show", "hard_proof_miss"}
             /\ \/ s.proof = slot.proof
                \/ /\ s.proof = "missing" /\ slot.proof = "pending"
                   /\ slot.verdict = "timing_pass"
<1>1. LET s == [slot EXCEPT !.verdict = "no_show", !.awaits = FALSE,
                            !.required = @ \/ required]
      IN KeepsReceipt(s) /\ s.proof = slot.proof /\ s.verdict = "no_show"
  BY DEF KeepsReceipt, SlotType, Verdicts
<1>2. LET s == [slot EXCEPT !.verdict = "hard_proof_miss", !.proof = "missing",
                            !.required = @ \/ required]
      IN KeepsReceipt(s) /\ s.proof = "missing" /\ s.verdict = "hard_proof_miss"
  BY DEF KeepsReceipt, SlotType, Verdicts, Proofs
<1>3. KeepsReceipt(slot)
  BY DEF KeepsReceipt
<1> QED
  BY <1>1, <1>2, <1>3 DEF Expired, PayloadMissing

\* record_capacity_audit_proof_verdict writes nothing in a void window.
LEMMA ProofRow ==
  ASSUME slot \in SlotType, NEW proof \in Proofs, NEW v \in Verdicts,
         NEW required \in BOOLEAN
  PROVE  LET s == ProofRecorded(proof, v, required)
         IN  /\ KeepsReceipt(s)
             /\ Live => s.proof = proof /\ s.verdict = v
             /\ ~Live => s = slot
<1>1. LET s == [slot EXCEPT !.proof = proof, !.verdict = v, !.required = @ \/ required]
      IN KeepsReceipt(s) /\ s.proof = proof /\ s.verdict = v
  BY DEF KeepsReceipt, SlotType
<1> QED
  BY <1>1 DEF ProofRecorded, KeepsReceipt

\* The marker, the payload's arrival and the pass-0 root.
LEMMA OtherRows ==
  ASSUME slot \in SlotType
  PROVE  /\ LET s == [slot EXCEPT !.applied = TRUE]
            IN  /\ s \in SlotType /\ s.applied /\ s.finalAt = slot.finalAt
                /\ s.early = slot.early /\ s.verdict = slot.verdict
                /\ s.proof = slot.proof
         /\ LET s == [slot EXCEPT !.proof = "verify_pending"]
            IN  /\ KeepsReceipt(s) /\ s.verdict = slot.verdict
                /\ s.proof = "verify_pending"
         /\ LET s == [slot EXCEPT !.pass0 = TRUE,
                                  !.verdict = IF @ = "pending" THEN "pass0_seen" ELSE @]
            IN  /\ KeepsReceipt(s) /\ s.proof = slot.proof
                /\ s.verdict \in {slot.verdict, "pass0_seen"}
BY DEF KeepsReceipt, SlotType, Proofs, Verdicts

\* A thread that lists the candidates is one of the threads.
LEMMA Listing ==
  ASSUME applying \in [Actors -> BOOLEAN], NEW a \in Actors, NEW w, NEW s,
         ListCandidates(a, w, s)
  PROVE  applying' \in [Actors -> BOOLEAN]
BY DEF ListCandidates

\* A delivery that holds nothing.
LEMMA EmptyDeliveries ==
  /\ \A st \in {"new", "queued", "read", "done"} :
       Receipt(st) \in ReceiptType /\ Receipt(st).stage = st /\ Receipt(st).at = 0
  /\ \A st \in {"new", "enqueue", "refused", "queued", "verify", "done"} :
       /\ Payload(st) \in PayloadType /\ Payload(st).stage = st
       /\ ~Payload(st).started /\ Payload(st).verdict = "pending"
BY DEF Receipt, ReceiptType, Payload, PayloadType, TimeOrNone, Hashes, Verdicts

-----------------------------------------------------------------------------
(***************************************************************************)
(* The inductive invariant                                                   *)
(***************************************************************************)

\* A window is selected once, and is empty until it is scheduled; its start is
\* recorded once.
SelectedOnce == selected # "none" => win.status = "none"

Unscheduled ==
  win.status = "none" =>
    /\ win.finalized = {} /\ win.chain # "reorged"
    /\ \A a \in Anchors : win.hash[a] = "none"
    /\ \A p \in Payloads : payloads[p] = Payload("new")

StartedOnce ==
  /\ win.status \in {"none", "scheduled"} =>
       win.startedAt = None /\ win.hash["start"] = "none"
  /\ win.hash["start"] # "none" => win.startedAt # None
  /\ pc = "resolve" => win.startedAt # None

\* The hashes of B_select and B_start do not change once they are final, and a
\* confirmed window has both.
AnchorsHeld ==
  /\ \A a \in {"select", "start"} : a \in win.finalized => win.hash[a] = "canonical"
  /\ win.chain = "confirmed" \/ decays > 0 => {"select", "start"} \subseteq win.finalized

\* The marker counts the penalties.
ChargedMarked == decays = IF slot.applied THEN 1 ELSE 0

\* A receipt was stamped before its row was read, and what it read of the start
\* is still so.
ReceiptsOrdered ==
  \A r \in Receipts :
    /\ finals[r].at <= chain
    /\ finals[r].stage = "read" =>
         /\ finals[r].at <= finals[r].head
         /\ finals[r].startedAt # None => finals[r].startedAt = win.startedAt

\* A verdict that a verifier is going to write back is still true.
Late == /\ slot.finalAt # None /\ win.startedAt # None
        /\ slot.finalAt > win.startedAt + Deadline

VerdictsKept == \A p \in Payloads : payloads[p].verdict = "timing_miss" => Late

\* final_observed_block is below B_proof only for a receipt stamped before it.
EarlyIsEarly == slot.early => slot.finalAt # None /\ slot.finalAt < ProofAt

\* A payload that was acknowledged is waited for no longer, except in a window
\* that a reorganisation voided; nothing passes the slot in that one again.
Acked == {"queued", "verify", "done"}

AckedKept ==
  \A p \in Payloads :
    payloads[p].stage \in Acked \/ payloads[p].started =>
      /\ win.hash["start"] # "none"
      /\ Live \/ (slot.verdict # "timing_pass" /\ pc # "resolve")
      /\ payloads[p].stage \in Acked => slot.proof # "pending" \/ ~Live

WindowInv == SelectedOnce /\ Unscheduled /\ StartedOnce /\ AnchorsHeld /\ GateStands
SlotInv == /\ ChargedMarked /\ MissIsLate /\ VerdictsKept /\ EarlyIsEarly
           /\ CommitBeforeChallenge /\ ReceiptsOrdered /\ AckedKept

IInv == TypeOK /\ WindowInv /\ SlotInv

\* The initial state.
LEMMA InitIInv == Init => IInv
<1> SUFFICES ASSUME Init PROVE IInv
  OBVIOUS
<1> USE CapacityAssumption
<1>1. TypeOK
  <2>1. win \in WinType
    BY DEF Init, WinType, TimeOrNone, Hashes
  <2>2. slot \in SlotType
    BY DEF Init, SlotType, TimeOrNone, Verdicts, Proofs
  <2>3. finals \in [Receipts -> ReceiptType] /\ payloads \in [Payloads -> PayloadType]
    BY EmptyDeliveries DEF Init
  <2>4. selected \in Hashes /\ applying \in [Actors -> BOOLEAN]
    BY DEF Init, Hashes
  <2>5. unhealthy \in BOOLEAN /\ counted \in BOOLEAN
    BY Zenon DEF Init
  <2>6. /\ chain \in Nat /\ block \in Nat /\ block <= chain
        /\ restarts \in Nat /\ decays \in Nat
    BY DEF Init
  <2>7. pc \in {"wait", "start", "resolve", "challenge", "confirm"}
    BY DEF Init
  <2> QED
    BY <2>1, <2>2, <2>3, <2>4, <2>5, <2>6, <2>7, Zenon DEF TypeOK
<1>2. WindowInv
  BY DEF Init, WindowInv, SelectedOnce, Unscheduled, StartedOnce, AnchorsHeld,
         GateStands, Anchors
<1>3. SlotInv
  BY EmptyDeliveries
  DEF Init, SlotInv, ChargedMarked, MissIsLate, VerdictsKept, EarlyIsEarly,
      CommitBeforeChallenge, ReceiptsOrdered, AckedKept, Acked
<1> QED
  BY <1>1, <1>2, <1>3 DEF IInv

-----------------------------------------------------------------------------
(***************************************************************************)
(* The block thread                                                          *)
(***************************************************************************)

\* A new block makes no receipt late that was not.
LEMMA GrowStep == ASSUME IInv, Grow PROVE IInv'
<1> USE DEF Grow, IInv, TypeOK, dbVars, threadVars, taskVars
<1>1. TypeOK'
  OBVIOUS
<1>2. WindowInv'
  BY DEF WindowInv, SelectedOnce, Unscheduled, StartedOnce, AnchorsHeld, GateStands
<1>3. ReceiptsOrdered'
  BY DEF SlotInv, ReceiptsOrdered, ReceiptType
<1>4. SlotInv'
  BY <1>3 DEF SlotInv, ChargedMarked, MissIsLate, VerdictsKept, EarlyIsEarly, Late,
         CommitBeforeChallenge, AckedKept, Live
<1> QED
  BY <1>1, <1>2, <1>4

\* The expiry leaves the receipt and the marker alone.
LEMMA BeginBlockStep == ASSUME IInv, BeginBlock PROVE IInv'
<1> USE DEF IInv, TypeOK, dbVars, threadVars, taskVars
<1>1. /\ UNCHANGED <<chain, win, selected, finals, payloads, counted, unhealthy,
                     restarts, decays>>
      /\ block' = block + 1 /\ block < chain /\ pc' = "start"
  BY DEF BeginBlock, NewBlock
<1>2. KeepsReceipt(slot') /\ applying' \in [Actors -> BOOLEAN]
  BY ExpiredRow, Listing DEF BeginBlock, KeepsReceipt, Actors
<1>3. /\ slot'.verdict \in {slot.verdict, "no_show", "hard_proof_miss"}
      /\ slot'.proof = slot.proof \/ slot'.proof = "missing"
  BY ExpiredRow DEF BeginBlock
<1>4. TypeOK'
  BY <1>1, <1>2 DEF KeepsReceipt
<1>5. WindowInv'
  BY <1>1 DEF WindowInv, SelectedOnce, Unscheduled, StartedOnce, AnchorsHeld, GateStands
<1>6. SlotInv'
  BY <1>1, <1>2, <1>3
  DEF KeepsReceipt, SlotInv, ChargedMarked, MissIsLate, VerdictsKept, EarlyIsEarly, Late,
      CommitBeforeChallenge, ReceiptsOrdered, AckedKept, Live
<1> QED
  BY <1>4, <1>5, <1>6

\* The start is recorded once: no payload was accepted and no verdict given for
\* a start before it.
LEMMA StartWindowsStep == ASSUME IInv, StartWindows PROVE IInv'
<1> USE DEF IInv, TypeOK, dbVars, threadVars, taskVars
<1>1. UNCHANGED <<chain, block, selected, finals, payloads, applying, counted,
                  unhealthy, restarts, decays>>
  BY DEF StartWindows
<1>2. CASE /\ win.status = "scheduled" /\ win' = [win EXCEPT !.status = "stale"]
           /\ slot' = SlotStale /\ pc' = "challenge"
  <2>1. /\ win' \in WinType /\ win'.status = "stale" /\ win'.hash = win.hash
        /\ win'.finalized = win.finalized /\ win'.chain = win.chain
        /\ win'.startedAt = win.startedAt
    BY <1>2, StaleRow
  <2>2. /\ KeepsReceipt(slot') /\ slot'.proof = slot.proof
        /\ slot'.verdict \in {slot.verdict, "stale_window"}
    BY <1>2, StaleSlotRow
  <2>3. TypeOK'
    BY <1>1, <1>2, <2>1, <2>2 DEF KeepsReceipt
  <2>4. WindowInv'
    BY <1>1, <1>2, <2>1 DEF WindowInv, SelectedOnce, Unscheduled, StartedOnce, AnchorsHeld, GateStands
  <2>5. SlotInv'
    BY <1>1, <1>2, <2>1, <2>2
    DEF KeepsReceipt, SlotInv, ChargedMarked, MissIsLate, VerdictsKept, EarlyIsEarly, Late,
      CommitBeforeChallenge, ReceiptsOrdered, AckedKept, Live
  <2> QED
    BY <2>3, <2>4, <2>5
<1>3. CASE /\ win.status = "scheduled" /\ UNCHANGED slot /\ pc' = "resolve"
           /\ \E h \in ChainHash(StartAt) : win' = Started(h)
  <2>1. PICK h \in Hashes : h # "none" /\ win' = Started(h)
    BY <1>3, ChainHashes
  <2>2. /\ win' \in WinType /\ win'.status = "started"
        /\ win'.hash["start"] = h /\ win'.hash["select"] = win.hash["select"]
        /\ win'.finalized = win.finalized /\ win'.chain = win.chain
        /\ win'.startedAt = chain /\ chain # None
    BY <2>1, StartedRow, CapacityAssumption
  <2>3. win.startedAt = None /\ win.hash["start"] = "none" /\ "start" \notin win.finalized
    BY <1>3 DEF WindowInv, SelectedOnce, Unscheduled, StartedOnce, AnchorsHeld, GateStands
  <2>4. TypeOK'
    BY <1>1, <1>3, <2>2
  <2>5. WindowInv'
    BY <1>1, <1>3, <2>1, <2>2, <2>3 DEF WindowInv, SelectedOnce, Unscheduled, StartedOnce, AnchorsHeld, GateStands
  <2>6. SlotInv'
    BY <1>1, <1>3, <2>2, <2>3
    DEF SlotInv, ChargedMarked, MissIsLate, VerdictsKept, EarlyIsEarly, Late,
      CommitBeforeChallenge, ReceiptsOrdered, AckedKept, Live
  <2> QED
    BY <2>4, <2>5, <2>6
<1>4. CASE pc' = "challenge" /\ UNCHANGED <<win, slot>>
  <2>1. TypeOK' /\ WindowInv'
    BY <1>1, <1>4 DEF WindowInv, SelectedOnce, Unscheduled, StartedOnce, AnchorsHeld, GateStands
  <2>2. SlotInv'
    BY <1>1, <1>4
    DEF SlotInv, ChargedMarked, MissIsLate, VerdictsKept, EarlyIsEarly, Late,
      CommitBeforeChallenge, ReceiptsOrdered, AckedKept, Live
  <2> QED
    BY <2>1, <2>2
<1> QED
  BY <1>2, <1>3, <1>4 DEF StartWindows

\* A receipt that waited for the start is a miss only if it was late.
LEMMA ResolveStartStep == ASSUME IInv, ResolveStart PROVE IInv'
<1> USE DEF IInv, TypeOK, dbVars, threadVars, taskVars
<1>1. /\ UNCHANGED <<chain, win, block, selected, finals, payloads, applying, counted,
                     unhealthy, restarts, decays>>
      /\ pc = "resolve" /\ pc' = "challenge" /\ slot' = StartResolved
  BY DEF ResolveStart, AtBlock
<1>2. /\ KeepsReceipt(slot') /\ slot'.proof = slot.proof
      /\ slot'.verdict = "timing_miss" =>
           \/ slot.verdict = "timing_miss"
           \/ slot.finalAt # None /\ ~OnTime(slot.finalAt, win.startedAt)
  BY <1>1, StartResolvedRow
<1>3. win.startedAt # None
  BY <1>1 DEF WindowInv, StartedOnce
<1>4. TypeOK' /\ WindowInv'
  BY <1>1, <1>2 DEF KeepsReceipt, WindowInv, SelectedOnce, Unscheduled, StartedOnce, AnchorsHeld, GateStands
<1>5. MissIsLate'
  <2>1. win.startedAt \in Nat /\ (slot.finalAt # None => slot.finalAt \in Nat)
    BY <1>3 DEF WinType, SlotType, TimeOrNone
  <2> QED
    BY <1>1, <1>2, <1>3, <2>1, CapacityAssumption
    DEF KeepsReceipt, SlotInv, MissIsLate, OnTime
<1>6. SlotInv'
  BY <1>1, <1>2, <1>5
  DEF KeepsReceipt, SlotInv, ChargedMarked, MissIsLate, VerdictsKept, EarlyIsEarly, Late,
      CommitBeforeChallenge, ReceiptsOrdered, AckedKept, Live
<1> QED
  BY <1>4, <1>6

\* The hash of B_proof is in no part of the invariant but its type.
LEMMA RecordChallengeStep == ASSUME IInv, RecordChallenge PROVE IInv'
<1> USE DEF IInv, TypeOK, dbVars, threadVars, taskVars
<1>1. /\ UNCHANGED <<chain, slot, block, finals, payloads, applying, counted,
                     unhealthy, restarts, decays>>
      /\ pc' \in {"confirm", "wait"}
  BY DEF RecordChallenge
<1>2. \/ UNCHANGED win
      \/ win.status # "none" /\ \E h \in Hashes : win' = Challenged(h, chain)
  BY ChainHashes DEF RecordChallenge
<1>3. /\ win' \in WinType /\ win'.status = win.status
      /\ win'.hash["start"] = win.hash["start"]
      /\ win'.hash["select"] = win.hash["select"]
      /\ win'.finalized = win.finalized /\ win'.chain = win.chain
      /\ win'.startedAt = win.startedAt
      /\ win.status = "none" => UNCHANGED win
  BY <1>2, ChallengedRow
<1>4. selected' \in Hashes /\ (selected' # selected => win.status = "none")
  BY ChainHashes DEF RecordChallenge
<1>5. TypeOK'
  BY <1>1, <1>3, <1>4
<1>6. WindowInv'
  BY <1>1, <1>3, <1>4 DEF WindowInv, SelectedOnce, Unscheduled, StartedOnce, AnchorsHeld, GateStands
<1>7. SlotInv'
  BY <1>1, <1>3
  DEF SlotInv, ChargedMarked, MissIsLate, VerdictsKept, EarlyIsEarly, Late,
      CommitBeforeChallenge, ReceiptsOrdered, AckedKept, Live
<1> QED
  BY <1>5, <1>6, <1>7

\* A window is scheduled over an empty row.
LEMMA ScheduleWindowStep == ASSUME IInv, ScheduleWindow PROVE IInv'
<1> USE DEF IInv, TypeOK, dbVars, threadVars, taskVars
<1>1. /\ UNCHANGED <<chain, slot, block, pc, finals, payloads, applying, counted,
                     unhealthy, restarts, decays>>
      /\ selected' = "none" /\ win' = Scheduled(selected)
      /\ win.status = "none"
  BY DEF ScheduleWindow, WindowInv, SelectedOnce
<1>2. /\ win' \in WinType /\ win'.status = "scheduled"
      /\ win'.hash["start"] = win.hash["start"]
      /\ win'.finalized = win.finalized /\ win'.chain = win.chain
      /\ win'.startedAt = win.startedAt
  BY <1>1, ScheduledRow
<1>3. win.finalized = {}
  BY <1>1 DEF WindowInv, Unscheduled
<1>4. TypeOK'
  BY <1>1, <1>2 DEF Hashes
<1>5. WindowInv'
  BY <1>1, <1>2, <1>3 DEF WindowInv, SelectedOnce, Unscheduled, StartedOnce, AnchorsHeld, GateStands
<1>6. SlotInv'
  BY <1>1, <1>2
  DEF SlotInv, ChargedMarked, MissIsLate, VerdictsKept, EarlyIsEarly, Late,
      CommitBeforeChallenge, ReceiptsOrdered, AckedKept, Live
<1> QED
  BY <1>4, <1>5, <1>6

\* A reorganisation voids the window and the slot with it; what was final
\* stays so.
LEMMA ConfirmFinalizedStep == ASSUME IInv, ConfirmFinalized PROVE IInv'
<1> USE DEF IInv, TypeOK, dbVars, threadVars, taskVars
<1>1. /\ UNCHANGED <<chain, block, selected, finals, payloads, counted, unhealthy,
                     restarts, decays>>
      /\ pc' = "wait"
  BY DEF ConfirmFinalized
<1>2. applying' \in [Actors -> BOOLEAN]
  BY Listing DEF ConfirmFinalized, Actors
<1>3. CASE UNCHANGED <<win, slot>>
  <2>1. TypeOK' /\ WindowInv'
    BY <1>1, <1>2, <1>3 DEF WindowInv, SelectedOnce, Unscheduled, StartedOnce, AnchorsHeld, GateStands
  <2>2. SlotInv'
    BY <1>1, <1>3
    DEF SlotInv, ChargedMarked, MissIsLate, VerdictsKept, EarlyIsEarly, Late,
      CommitBeforeChallenge, ReceiptsOrdered, AckedKept, Live
  <2> QED
    BY <2>1, <2>2
<1>4. CASE ~UNCHANGED <<win, slot>>
  <2>1. PICK due \in SUBSET (Anchors \ win.finalized) :
          /\ \A a \in due : win.hash[a] # "none"
          /\ Live /\ due # {} /\ win' = Finalized(due)
          /\ slot' = IF win'.chain = "reorged"
                     THEN [slot EXCEPT !.verdict = "chain_reorged", !.required = FALSE]
                     ELSE slot
    BY <1>4 DEF ConfirmFinalized
  <2>2. /\ win' \in WinType /\ win'.status = win.status /\ win'.hash = win.hash
        /\ win'.startedAt = win.startedAt
        /\ \/ win'.chain = "reorged" /\ win'.finalized = win.finalized
           \/ /\ win'.chain # "reorged"
              /\ win'.finalized = win.finalized \union due
              /\ \A a \in due : win.hash[a] = "canonical"
              /\ win'.chain = "confirmed" =>
                   \/ win.chain = "confirmed"
                   \/ {"select", "start"} \subseteq win'.finalized
    BY <2>1, FinalizedRow
  <2>3. /\ KeepsReceipt(slot') /\ slot'.proof = slot.proof
        /\ slot'.verdict = IF win'.chain = "reorged" THEN "chain_reorged" ELSE slot.verdict
    BY <2>1, VerdictRow DEF KeepsReceipt, Verdicts
  <2>4. ~counted
    BY <2>1 DEF WindowInv, GateStands
  <2>5. win.status # "none"
    BY <2>1 DEF WindowInv, Unscheduled
  <2>6. TypeOK'
    BY <1>1, <1>2, <2>2, <2>3 DEF KeepsReceipt
  <2>7. WindowInv'
    BY <1>1, <2>2, <2>4, <2>5 DEF WindowInv, SelectedOnce, Unscheduled, StartedOnce, AnchorsHeld, GateStands
  <2>8. SlotInv'
    BY <1>1, <2>1, <2>2, <2>3
    DEF KeepsReceipt, SlotInv, ChargedMarked, MissIsLate, VerdictsKept, EarlyIsEarly, Late,
      CommitBeforeChallenge, ReceiptsOrdered, AckedKept, Live
  <2> QED
    BY <2>6, <2>7, <2>8
<1> QED
  BY <1>3, <1>4

\* Whoever charges sets the marker, in a confirmed window.
LEMMA ChargeStep == ASSUME IInv, NEW a \in Actors, Charge(a) PROVE IInv'
<1> USE DEF IInv, TypeOK, dbVars, threadVars, taskVars
<1>1. /\ UNCHANGED <<chain, win, block, pc, selected, finals, payloads, counted,
                     unhealthy, restarts>>
      /\ applying' \in [Actors -> BOOLEAN]
  BY DEF Charge
<1>2. CASE UNCHANGED <<slot, decays>>
  <2>1. TypeOK' /\ WindowInv'
    BY <1>1, <1>2 DEF WindowInv, SelectedOnce, Unscheduled, StartedOnce, AnchorsHeld, GateStands
  <2>2. SlotInv'
    BY <1>1, <1>2
    DEF SlotInv, ChargedMarked, MissIsLate, VerdictsKept, EarlyIsEarly, Late,
      CommitBeforeChallenge, ReceiptsOrdered, AckedKept, Live
  <2> QED
    BY <2>1, <2>2
<1>3. CASE /\ Candidate(win, slot) /\ slot' = [slot EXCEPT !.applied = TRUE]
           /\ decays' = decays + 1
  <2>1. /\ slot' \in SlotType /\ slot'.applied /\ slot'.finalAt = slot.finalAt
        /\ slot'.early = slot.early /\ slot'.verdict = slot.verdict
        /\ slot'.proof = slot.proof
    BY <1>3, OtherRows
  <2>2. ~slot.applied /\ win.chain = "confirmed"
    BY <1>3 DEF Candidate
  <2>3. TypeOK'
    BY <1>1, <1>3, <2>1
  <2>4. WindowInv'
    BY <1>1, <2>2 DEF WindowInv, SelectedOnce, Unscheduled, StartedOnce, AnchorsHeld, GateStands
  <2>5. SlotInv'
    BY <1>1, <1>3, <2>1, <2>2
    DEF SlotInv, ChargedMarked, MissIsLate, VerdictsKept, EarlyIsEarly, Late,
      CommitBeforeChallenge, ReceiptsOrdered, AckedKept, Live
  <2> QED
    BY <2>3, <2>4, <2>5
<1> QED
  BY <1>2, <1>3 DEF Charge, Chargeable

-----------------------------------------------------------------------------
(***************************************************************************)
(* Receipts                                                                  *)
(***************************************************************************)

\* The pass-0 root touches no receipt.
LEMMA RecordPass0Step == ASSUME IInv, RecordPass0 PROVE IInv'
<1> USE DEF IInv, TypeOK, dbVars, threadVars, taskVars
<1>1. UNCHANGED <<chain, win, block, pc, selected, finals, payloads, applying, counted,
                  unhealthy, restarts, decays>>
  BY DEF RecordPass0
<1>2. /\ KeepsReceipt(slot') /\ slot'.proof = slot.proof
      /\ slot'.verdict \in {slot.verdict, "pass0_seen"}
  BY OtherRows DEF RecordPass0
<1>3. TypeOK' /\ WindowInv'
  BY <1>1, <1>2 DEF KeepsReceipt, WindowInv, SelectedOnce, Unscheduled, StartedOnce, AnchorsHeld, GateStands
<1>4. SlotInv'
  BY <1>1, <1>2
  DEF KeepsReceipt, SlotInv, ChargedMarked, MissIsLate, VerdictsKept, EarlyIsEarly, Late,
      CommitBeforeChallenge, ReceiptsOrdered, AckedKept, Live
<1> QED
  BY <1>3, <1>4

\* What one delivery does to the invariants when the rows stay as they are.
LEMMA ReceiptOnly ==
  ASSUME IInv, NEW r \in Receipts, NEW t \in ReceiptType,
         finals' = [finals EXCEPT ![r] = t],
         t.at <= chain,
         t.stage = "read" => /\ t.at <= t.head
                             /\ t.startedAt # None => t.startedAt = win.startedAt,
         UNCHANGED <<chain, win, slot, block, pc, selected, payloads, applying, counted,
                     unhealthy, restarts, decays>>
  PROVE  IInv'
<1> USE DEF IInv, TypeOK
<1>1. TypeOK' /\ WindowInv'
  BY DEF WindowInv, SelectedOnce, Unscheduled, StartedOnce, AnchorsHeld, GateStands
<1>2. ReceiptsOrdered'
  BY DEF SlotInv, ReceiptsOrdered
<1>3. SlotInv'
  BY <1>2
  DEF SlotInv, ChargedMarked, MissIsLate, VerdictsKept, EarlyIsEarly, Late,
      CommitBeforeChallenge, AckedKept, Live
<1> QED
  BY <1>1, <1>3

\* The stamp of a new receipt is the head.
LEMMA ReceiveFinalStep == ASSUME IInv, NEW r \in Receipts, ReceiveFinal(r) PROVE IInv'
<1> DEFINE t == [finals[r] EXCEPT !.stage = "queued", !.at = chain]
<1>1. finals \in [Receipts -> ReceiptType] /\ chain \in Nat
  BY DEF IInv, TypeOK
<1>2. finals' = [finals EXCEPT ![r] = t]
  BY <1>1 DEF ReceiveFinal
<1>3. t \in ReceiptType /\ t.stage = "queued" /\ t.at = chain
  BY <1>1 DEF ReceiptType
<1>4. UNCHANGED <<chain, win, slot, block, pc, selected, payloads, applying, counted,
                  unhealthy, restarts, decays>>
  BY DEF ReceiveFinal, dbVars, threadVars
<1> HIDE DEF t
<1>5. t.at <= chain /\ t.stage # "read"
  BY <1>1, <1>3
<1> QED
  BY <1>2, <1>3, <1>4, <1>5, ReceiptOnly

\* The row is read after the stamp.
LEMMA ReadFinalStep == ASSUME IInv, NEW r \in Receipts, ReadFinal(r) PROVE IInv'
<1> DEFINE t == [finals[r] EXCEPT !.stage = "read", !.head = chain,
                      !.startedAt = win.startedAt,
                      !.challenged = win.hash["proof"] # "none",
                      !.pass0 = slot.pass0]
<1>1. /\ finals \in [Receipts -> ReceiptType] /\ chain \in Nat
      /\ win.startedAt \in TimeOrNone /\ slot.pass0 \in BOOLEAN
      /\ finals[r].at <= chain
  BY DEF IInv, TypeOK, WinType, SlotType, SlotInv, ReceiptsOrdered
<1>2. \/ finals' = [finals EXCEPT ![r] = Receipt("done")]
      \/ finals' = [finals EXCEPT ![r] = t]
  BY <1>1 DEF ReadFinal
<1>3. /\ t \in ReceiptType /\ t.stage = "read" /\ t.at = finals[r].at
      /\ t.head = chain /\ t.startedAt = win.startedAt
  BY <1>1 DEF ReceiptType
<1>4. UNCHANGED <<chain, win, slot, block, pc, selected, payloads, applying, counted,
                  unhealthy, restarts, decays>>
  BY DEF ReadFinal, dbVars, threadVars
<1> HIDE DEF t
<1>5. /\ Receipt("done") \in ReceiptType /\ Receipt("done").stage = "done"
      /\ Receipt("done").at <= chain
  BY <1>1, EmptyDeliveries
<1>6. CASE finals' = [finals EXCEPT ![r] = Receipt("done")]
  BY <1>4, <1>5, <1>6, ReceiptOnly
<1>7. CASE finals' = [finals EXCEPT ![r] = t]
  BY <1>1, <1>3, <1>4, <1>7, ReceiptOnly
<1> QED
  BY <1>2, <1>6, <1>7

\* A refused receipt holds nothing.
LEMMA RefuseFinalStep == ASSUME IInv, NEW r \in Receipts, RefuseFinal(r) PROVE IInv'
<1>1. /\ Receipt("new") \in ReceiptType /\ Receipt("new").stage = "new"
      /\ Receipt("new").at <= chain
  BY EmptyDeliveries DEF IInv, TypeOK
<1>2. UNCHANGED <<chain, win, slot, block, pc, selected, payloads, applying, counted,
                  unhealthy, restarts, decays>>
  BY DEF RefuseFinal, dbVars, threadVars
<1> QED
  BY <1>1, <1>2, ReceiptOnly DEF RefuseFinal

\* A receipt in the executor was stamped before its row was read.
LEMMA ReadReceipt ==
  ASSUME IInv, NEW r \in Receipts, finals[r].stage = "read"
  PROVE  /\ finals[r].at \in Nat /\ finals[r].head \in Nat
         /\ finals[r].startedAt \in TimeOrNone /\ finals[r].at <= finals[r].head
         /\ finals[r].startedAt # None => finals[r].startedAt = win.startedAt
BY DEF IInv, TypeOK, ReceiptType, SlotInv, ReceiptsOrdered

\* Either the row stays, or the first receipt is recorded, or a later one
\* contradicts it.
LEMMA FinalOutcome ==
  ASSUME IInv, NEW r \in Receipts, RecordFinal(r)
  PROVE  \/ UNCHANGED slot
         \/ \E v \in Verdicts, awaits, required, early \in BOOLEAN :
              /\ slot' = FinalRecorded(v, awaits, required, early, finals[r].at)
              /\ Live
              /\ early => finals[r].at < ProofAt
              /\ v = "timing_miss" =>
                   /\ slot.finalAt = None /\ finals[r].startedAt # None
                   /\ ~OnTime(finals[r].at, finals[r].startedAt)
<1> DEFINE t == finals[r]
<1>1. \A head \in LiveHead(t) : head < ProofAt => t.at < ProofAt
  BY ReadReceipt, CapacityAssumption
  DEF RecordFinal, LiveHead, ProofAt, StartAt, SelectAt, IInv, TypeOK
<1>2. PICK required \in BOOLEAN, early \in BOOLEAN :
        /\ early => t.at < ProofAt
        /\ \/ UNCHANGED slot
           \/ /\ MayRecordFinal("hard_proof_miss")
              /\ slot' = FinalRecorded("hard_proof_miss", FALSE, required, early, t.at)
           \/ \E v \in {"pass0_seen", "timing_pass", "timing_miss"} :
                /\ MayRecordFinal(v)
                /\ v = "timing_miss" => t.startedAt # None /\ ~OnTime(t.at, t.startedAt)
                /\ slot' = FinalRecorded(v, t.startedAt = None,
                                         v = "timing_miss" /\ required, early, t.at)
  BY <1>1 DEF RecordFinal
<1>3. {"hard_proof_miss", "pass0_seen", "timing_pass", "timing_miss"} \subseteq Verdicts
  BY DEF Verdicts
<1> QED
  BY <1>2, <1>3 DEF MayRecordFinal

\* The first receipt decides; only a contradiction is added to it.
LEMMA RecordFinalStep == ASSUME IInv, NEW r \in Receipts, RecordFinal(r) PROVE IInv'
<1> USE DEF IInv, TypeOK, dbVars, threadVars, taskVars
<1> DEFINE t == finals[r]
<1>1. /\ UNCHANGED <<chain, win, block, pc, selected, payloads, counted, unhealthy,
                     restarts, decays>>
      /\ t.stage = "read" /\ finals' = [finals EXCEPT ![r] = Receipt("done")]
  BY DEF RecordFinal, FinalDone
<1>2. applying' \in [Actors -> BOOLEAN]
  BY Listing DEF RecordFinal, Actors
<1>3. /\ t.at \in Nat /\ t.startedAt \in TimeOrNone
      /\ t.startedAt # None => t.startedAt = win.startedAt
  BY <1>1, ReadReceipt
<1>4. /\ finals' \in [Receipts -> ReceiptType] /\ ReceiptsOrdered'
  BY <1>1, EmptyDeliveries DEF SlotInv, ReceiptsOrdered
<1>5. CASE UNCHANGED slot
  <2>1. TypeOK' /\ WindowInv'
    BY <1>1, <1>2, <1>4, <1>5 DEF WindowInv, SelectedOnce, Unscheduled, StartedOnce, AnchorsHeld, GateStands
  <2>2. SlotInv'
    BY <1>1, <1>4, <1>5
    DEF SlotInv, ChargedMarked, MissIsLate, VerdictsKept, EarlyIsEarly, Late,
        CommitBeforeChallenge, AckedKept, Live
  <2> QED
    BY <2>1, <2>2
<1>6. CASE ~UNCHANGED slot
  <2>1. PICK v \in Verdicts, awaits \in BOOLEAN, required \in BOOLEAN, early \in BOOLEAN :
           /\ slot' = FinalRecorded(v, awaits, required, early, t.at)
           /\ Live
           /\ early => t.at < ProofAt
           /\ v = "timing_miss" => /\ slot.finalAt = None /\ t.startedAt # None
                                   /\ ~OnTime(t.at, t.startedAt)
    BY <1>6, FinalOutcome
  <2>2. /\ slot' \in SlotType /\ slot'.verdict = v /\ slot'.proof = slot.proof
        /\ slot'.applied = slot.applied
        /\ slot'.finalAt = IF slot.finalAt = None THEN t.at ELSE slot.finalAt
        /\ slot'.early = IF slot.finalAt = None THEN early ELSE slot.early
    BY <1>3, <2>1, FinalRow
  <2>3. TypeOK' /\ WindowInv'
    BY <1>1, <1>2, <1>4, <2>2 DEF WindowInv, SelectedOnce, Unscheduled, StartedOnce, AnchorsHeld, GateStands
  <2>4. MissIsLate'
    BY <1>1, <1>3, <2>1, <2>2, CapacityAssumption
    DEF SlotInv, MissIsLate, OnTime, TimeOrNone, WinType
  <2>5. EarlyIsEarly'
    BY <1>3, <2>1, <2>2, CapacityAssumption DEF SlotInv, EarlyIsEarly
  <2>6. VerdictsKept' /\ CommitBeforeChallenge' /\ ChargedMarked'
    BY <1>1, <2>2 DEF SlotInv, VerdictsKept, Late, CommitBeforeChallenge, ChargedMarked
  <2>7. AckedKept'
    BY <1>1, <2>1, <2>2 DEF SlotInv, AckedKept, Live
  <2> QED
    BY <1>4, <2>3, <2>4, <2>5, <2>6, <2>7 DEF SlotInv
<1> QED
  BY <1>5, <1>6

-----------------------------------------------------------------------------
(***************************************************************************)
(* Proof payloads                                                            *)
(***************************************************************************)

\* A payload that has come belongs to a window that was scheduled.
LEMMA PayloadScheduled ==
  ASSUME IInv, NEW p \in Payloads, payloads[p].stage # "new"
  PROVE  win.status # "none"
BY EmptyDeliveries DEF IInv, WindowInv, Unscheduled

\* A payload is let in only by a scheduled, live window.
LEMMA ReceivePayloadStep ==
  ASSUME IInv, NEW p \in Payloads, ReceivePayload(p) PROVE IInv'
<1> USE DEF IInv, TypeOK, dbVars, threadVars, taskVars
<1>1. /\ UNCHANGED <<chain, win, slot, block, pc, selected, finals, applying, counted,
                     unhealthy, restarts, decays>>
      /\ payloads[p].stage = "new" /\ win.status # "none" /\ Live
  BY DEF ReceivePayload
<1>2. PICK h \in Hashes :
        payloads' = [payloads EXCEPT ![p] =
                      [payloads[p] EXCEPT !.stage = "enqueue", !.at = chain, !.hash = h,
                                !.started = win.hash["start"] # "none"]]
  <2>1. "none" \in Hashes
    BY DEF Hashes
  <2>2. \A h \in IF win.hash["proof"] = "none" THEN ChainHash(ProofAt) ELSE {"none"} :
          h \in Hashes
    BY <2>1, ChainHashes
  <2> QED
    BY <2>2, Zenon DEF ReceivePayload
<1> DEFINE t == [payloads[p] EXCEPT !.stage = "enqueue", !.at = chain, !.hash = h,
                                    !.started = win.hash["start"] # "none"]
<1>3. /\ t \in PayloadType /\ t.stage = "enqueue" /\ t.verdict = payloads[p].verdict
      /\ t.started => win.hash["start"] # "none"
  BY DEF PayloadType
<1> HIDE DEF t
<1>4. payloads' = [payloads EXCEPT ![p] = t]
  BY <1>2 DEF t
<1>5. TypeOK' /\ WindowInv'
  BY <1>1, <1>3, <1>4 DEF WindowInv, SelectedOnce, Unscheduled, StartedOnce, AnchorsHeld, GateStands
<1>6. VerdictsKept' /\ AckedKept'
  BY <1>1, <1>3, <1>4 DEF SlotInv, VerdictsKept, Late, AckedKept, Acked, Live
<1>7. SlotInv'
  BY <1>1, <1>6
  DEF SlotInv, ChargedMarked, MissIsLate, EarlyIsEarly, CommitBeforeChallenge,
      ReceiptsOrdered
<1> QED
  BY <1>5, <1>7

\* The row says that the payload is here before it is acknowledged.
LEMMA EnqueuePayloadStep ==
  ASSUME IInv, NEW p \in Payloads, EnqueuePayload(p) PROVE IInv'
<1> USE DEF IInv, TypeOK, dbVars, threadVars, taskVars
<1> DEFINE t == payloads[p]
           st == IF t.started THEN "queued" ELSE "refused"
<1>1. /\ UNCHANGED <<chain, block, pc, selected, finals, applying, counted, unhealthy,
                     restarts, decays>>
      /\ t.stage = "enqueue" /\ payloads' = [payloads EXCEPT ![p] = Payload(st)]
  BY DEF EnqueuePayload
<1>2. win.status # "none"
  BY <1>1, PayloadScheduled
<1>3. t.hash \in Hashes /\ t.at \in Nat /\ t.started \in BOOLEAN
  BY DEF PayloadType
<1>4. /\ win' \in WinType /\ win'.status = win.status
      /\ win'.hash["start"] = win.hash["start"]
      /\ win'.hash["select"] = win.hash["select"]
      /\ win'.finalized = win.finalized /\ win'.chain = win.chain
      /\ win'.startedAt = win.startedAt
  BY <1>3, ChallengedRow DEF EnqueuePayload
<1>5. /\ Payload(st) \in PayloadType /\ Payload(st).stage = st
      /\ ~Payload(st).started /\ Payload(st).verdict = "pending"
  BY EmptyDeliveries
<1>6. /\ KeepsReceipt(slot') /\ slot'.verdict = slot.verdict
      /\ slot'.proof \in {slot.proof, "verify_pending"}
      /\ st \in Acked /\ Live => slot'.proof # "pending"
  BY OtherRows DEF EnqueuePayload, KeepsReceipt, Acked
<1>7. TypeOK' /\ WindowInv'
  BY <1>1, <1>2, <1>4, <1>5, <1>6 DEF KeepsReceipt, WindowInv, SelectedOnce, Unscheduled, StartedOnce, AnchorsHeld, GateStands
<1>8. AckedKept'
  BY <1>1, <1>4, <1>5, <1>6 DEF SlotInv, AckedKept, Acked, Live
<1>9. VerdictsKept'
  BY <1>1, <1>4, <1>5, <1>6 DEF KeepsReceipt, SlotInv, VerdictsKept, Late
<1>10. SlotInv'
  BY <1>1, <1>4, <1>6, <1>8, <1>9
  DEF KeepsReceipt, SlotInv, ChargedMarked, MissIsLate, EarlyIsEarly,
      CommitBeforeChallenge, ReceiptsOrdered
<1> QED
  BY <1>7, <1>10

\* The verdict a worker takes with it holds now.
LEMMA ReadPayloadStep ==
  ASSUME IInv, NEW p \in Payloads, ReadPayload(p) PROVE IInv'
<1> USE DEF IInv, TypeOK, dbVars, threadVars, taskVars
<1>1. /\ UNCHANGED <<chain, win, slot, block, pc, selected, finals, applying, counted,
                     unhealthy, restarts, decays>>
      /\ payloads[p].stage = "queued"
  BY DEF ReadPayload
<1>2. win.status # "none"
  BY <1>1, PayloadScheduled
<1>3. PICK t \in PayloadType :
        /\ payloads' = [payloads EXCEPT ![p] = t]
        /\ t.stage \in {"verify", "done"} /\ ~t.started
        /\ t.verdict \in {slot.verdict, "pending"}
  <2> DEFINE u == [Payload("verify") EXCEPT !.verdict = slot.verdict]
  <2>1. /\ u \in PayloadType /\ u.stage = "verify" /\ ~u.started
        /\ u.verdict = slot.verdict
    BY DEF Payload, PayloadType, SlotType, Hashes
  <2>2. /\ Payload("done") \in PayloadType /\ Payload("done").stage = "done"
        /\ ~Payload("done").started /\ Payload("done").verdict = "pending"
    BY EmptyDeliveries
  <2>3. payloads' = [payloads EXCEPT ![p] = IF Live THEN u ELSE Payload("done")]
    BY DEF ReadPayload
  <2> QED
    BY <2>1, <2>2, <2>3
<1>4. TypeOK' /\ WindowInv'
  BY <1>1, <1>2, <1>3 DEF WindowInv, SelectedOnce, Unscheduled, StartedOnce, AnchorsHeld, GateStands
<1>5. AckedKept'
  BY <1>1, <1>3 DEF SlotInv, AckedKept, Acked, Live
<1>6. VerdictsKept'
  BY <1>1, <1>3 DEF SlotInv, VerdictsKept, Late, MissIsLate
<1>7. SlotInv'
  BY <1>1, <1>5, <1>6
  DEF SlotInv, ChargedMarked, MissIsLate, EarlyIsEarly, CommitBeforeChallenge,
      ReceiptsOrdered
<1> QED
  BY <1>4, <1>7

\* The verdict a worker writes back is one that still holds.
LEMMA VerifyPayloadStep ==
  ASSUME IInv, NEW p \in Payloads, VerifyPayload(p) PROVE IInv'
<1> USE DEF IInv, TypeOK, dbVars, threadVars, taskVars
<1>1. /\ UNCHANGED <<chain, win, block, pc, selected, finals, counted, restarts, decays>>
      /\ payloads[p].stage = "verify"
      /\ payloads' = [payloads EXCEPT ![p] = Payload("done")]
  BY DEF VerifyPayload
<1>2. win.status # "none"
  BY <1>1, PayloadScheduled
<1>3. applying' \in [Actors -> BOOLEAN] /\ unhealthy' \in BOOLEAN
  BY Listing DEF VerifyPayload, WorkerFails, Actors
<1>4. /\ Payload("done") \in PayloadType /\ Payload("done").stage = "done"
      /\ ~Payload("done").started /\ Payload("done").verdict = "pending"
  BY EmptyDeliveries
<1>5. /\ KeepsReceipt(slot')
      /\ ~Live => slot' = slot
      /\ Live => /\ slot'.verdict \in {payloads[p].verdict, slot.verdict,
                                       "hard_proof_miss"}
                 /\ slot'.proof \in {"verified", "error", "invalid"}
                 /\ slot'.proof = "verified" => slot.early
  <2>1. PICK proof \in {"verified", "error", "invalid"},
             v \in {payloads[p].verdict, slot.verdict, "hard_proof_miss"}, required \in BOOLEAN :
          /\ slot' = ProofRecorded(proof, v, required)
          /\ proof = "verified" => slot.early
    BY DEF VerifyPayload, KeepVerdict, WorkerFails
  <2>2. proof \in Proofs /\ v \in Verdicts
    BY DEF Proofs, Verdicts, PayloadType, SlotType
  <2> QED
    BY <2>1, <2>2, ProofRow
<1>6. TypeOK' /\ WindowInv'
  BY <1>1, <1>2, <1>3, <1>4, <1>5 DEF KeepsReceipt, WindowInv, SelectedOnce, Unscheduled, StartedOnce, AnchorsHeld, GateStands
<1>7. AckedKept'
  BY <1>1, <1>4, <1>5 DEF SlotInv, AckedKept, Acked, Live
<1>8. VerdictsKept' /\ MissIsLate'
  BY <1>1, <1>4, <1>5 DEF KeepsReceipt, SlotInv, VerdictsKept, MissIsLate, Late
<1>9. SlotInv'
  BY <1>1, <1>5, <1>7, <1>8
  DEF KeepsReceipt, SlotInv, ChargedMarked, EarlyIsEarly, CommitBeforeChallenge,
      ReceiptsOrdered
<1> QED
  BY <1>6, <1>9

-----------------------------------------------------------------------------
(***************************************************************************)
(* Epoch close, identity changes and restarts                                *)
(***************************************************************************)

\* The score gate counts only against three final anchors.
LEMMA CloseEpochStep == ASSUME IInv, CloseEpoch PROVE IInv'
<1> USE DEF IInv, TypeOK, dbVars, threadVars, taskVars
<1>1. UNCHANGED <<chain, win, block, pc, selected, finals, payloads, applying, unhealthy,
                  restarts, decays>>
  BY DEF CloseEpoch
<1>2. /\ KeepsReceipt(slot') /\ slot'.proof = slot.proof
      /\ slot'.verdict \in {slot.verdict, "timing_excused"}
  <2>1. UNCHANGED slot \/ slot' = [slot EXCEPT !.verdict = "timing_excused"]
    BY DEF CloseEpoch
  <2>2. "timing_excused" \in Verdicts
    BY DEF Verdicts
  <2>3. CASE UNCHANGED slot
    BY <2>3 DEF KeepsReceipt
  <2>4. CASE slot' = [slot EXCEPT !.verdict = "timing_excused"]
    BY <2>2, <2>4, VerdictRow, Zenon
  <2> QED
    BY <2>1, <2>3, <2>4
<1>3. counted' \in BOOLEAN /\ (counted' => counted \/ AnchorsFinal)
  BY DEF CloseEpoch, Counts
<1>4. TypeOK' /\ WindowInv'
  BY <1>1, <1>2, <1>3 DEF KeepsReceipt, AnchorsFinal, Live, WindowInv, SelectedOnce, Unscheduled, StartedOnce, AnchorsHeld, GateStands
<1>5. SlotInv'
  BY <1>1, <1>2
  DEF KeepsReceipt, SlotInv, ChargedMarked, MissIsLate, VerdictsKept, EarlyIsEarly, Late,
      CommitBeforeChallenge, ReceiptsOrdered, AckedKept, Live
<1> QED
  BY <1>4, <1>5

\* A retired identity has no verdict on time any more.
LEMMA RetireIdentityStep == ASSUME IInv, RetireIdentity PROVE IInv'
<1> USE DEF IInv, TypeOK, dbVars, threadVars, taskVars
<1>1. UNCHANGED <<chain, win, block, pc, selected, finals, payloads, applying, counted,
                  unhealthy, restarts, decays>>
  BY DEF RetireIdentity
<1>2. /\ KeepsReceipt(slot') /\ slot'.proof = slot.proof
      /\ slot'.verdict = "stale_window"
  BY VerdictRow DEF RetireIdentity, Verdicts
<1>3. TypeOK' /\ WindowInv'
  BY <1>1, <1>2 DEF KeepsReceipt, WindowInv, SelectedOnce, Unscheduled, StartedOnce, AnchorsHeld, GateStands
<1>4. SlotInv'
  BY <1>1, <1>2
  DEF KeepsReceipt, SlotInv, ChargedMarked, MissIsLate, VerdictsKept, EarlyIsEarly, Late,
      CommitBeforeChallenge, ReceiptsOrdered, AckedKept, Live
<1> QED
  BY <1>3, <1>4

\* Waiting for an epoch touches nothing but where the blocks go on.
LEMMA NextEpochStep == ASSUME IInv, NextEpoch PROVE IInv'
<1> USE DEF NextEpoch, IInv, TypeOK, dbVars, threadVars, taskVars
<1>1. block' \in Nat /\ block' <= chain
  BY CapacityAssumption DEF ProofAt, StartAt, SelectAt
<1>2. TypeOK'
  BY <1>1
<1>3. WindowInv'
  BY DEF WindowInv, SelectedOnce, Unscheduled, StartedOnce, AnchorsHeld, GateStands
<1>4. SlotInv'
  BY DEF SlotInv, ChargedMarked, MissIsLate, VerdictsKept, EarlyIsEarly, Late,
         CommitBeforeChallenge, ReceiptsOrdered, AckedKept, Live
<1> QED
  BY <1>2, <1>3, <1>4

\* reconcile_capacity_audit_duplicate_timing_misses finds nothing to put right.
LEMMA RestartStep == ASSUME IInv, Restart PROVE IInv'
<1> USE DEF IInv, TypeOK, dbVars, threadVars, taskVars
<1>1. /\ UNCHANGED <<chain, win, counted, decays>>
      /\ restarts' = restarts + 1 /\ block' \in 0 .. chain /\ pc' \in {"wait", "idle"}
      /\ selected' = "none" /\ selected' \in Hashes
      /\ applying' \in [Actors -> BOOLEAN] /\ unhealthy' \in BOOLEAN
  <2>1. Resumes
    BY DEF Restart
  <2>2. block' \in 0 .. chain /\ pc' \in {"wait", "idle"}
    BY <2>1 DEF Resumes
  <2> QED
    BY <2>2 DEF Restart, Hashes
<1>2. UNCHANGED slot
  BY CapacityAssumption
  DEF Restart, SlotInv, MissIsLate, OnTime, TimeOrNone, WinType, SlotType
<1>3. /\ finals' \in [Receipts -> ReceiptType] /\ ReceiptsOrdered'
  <2>1. \A r \in Receipts :
          /\ finals'[r] \in ReceiptType /\ finals'[r].at = 0
          /\ finals'[r].stage # "read"
    BY EmptyDeliveries DEF Restart
  <2> QED
    BY <1>1, <2>1 DEF Restart, ReceiptsOrdered
<1>4. \A p \in Payloads :
        /\ payloads'[p] \in PayloadType
        /\ ~payloads'[p].started /\ payloads'[p].verdict = "pending"
        /\ payloads'[p].stage \in Acked <=> payloads[p].stage \in Acked
        /\ payloads[p].stage = "new" => payloads'[p] = Payload("new")
  <2> SUFFICES ASSUME NEW p \in Payloads
               PROVE  /\ payloads'[p] \in PayloadType
                      /\ ~payloads'[p].started /\ payloads'[p].verdict = "pending"
                      /\ payloads'[p].stage \in Acked <=> payloads[p].stage \in Acked
                      /\ payloads[p].stage = "new" => payloads'[p] = Payload("new")
    OBVIOUS
  <2>1. payloads[p].stage \in {"new", "enqueue", "refused", "queued", "verify", "done"}
    BY DEF PayloadType
  <2>2. payloads'[p] = Payload(IF payloads[p].stage = "enqueue" THEN "new"
                               ELSE IF payloads[p].stage \in {"queued", "verify"} THEN "done"
                               ELSE payloads[p].stage)
    BY DEF Restart
  <2> QED
    BY <2>1, <2>2, EmptyDeliveries DEF Acked
<1>5. payloads' \in [Payloads -> PayloadType]
  BY <1>4 DEF Restart
<1>6. TypeOK'
  BY <1>1, <1>2, <1>3, <1>5
<1>7. Unscheduled'
  BY <1>1, <1>4, EmptyDeliveries DEF WindowInv, Unscheduled
<1>8. WindowInv'
  BY <1>1, <1>7 DEF WindowInv, SelectedOnce, StartedOnce, AnchorsHeld, GateStands
<1>9. VerdictsKept' /\ AckedKept'
  BY <1>1, <1>2, <1>4 DEF SlotInv, VerdictsKept, AckedKept, Live
<1>10. SlotInv'
  BY <1>1, <1>2, <1>3, <1>9
  DEF SlotInv, ChargedMarked, MissIsLate, EarlyIsEarly, CommitBeforeChallenge
<1> QED
  BY <1>6, <1>8, <1>10

-----------------------------------------------------------------------------
(***************************************************************************)
(* The theorems                                                              *)
(***************************************************************************)

\* Every step keeps the invariant.
LEMMA NextIInv == IInv /\ [Next]_vars => IInv'
<1> SUFFICES ASSUME IInv, [Next]_vars PROVE IInv'
  OBVIOUS
<1>1. CASE UNCHANGED vars
  <2>1. TypeOK' /\ WindowInv'
    BY <1>1 DEF vars, dbVars, threadVars, taskVars, IInv, TypeOK, WindowInv, SelectedOnce, Unscheduled, StartedOnce, AnchorsHeld, GateStands
  <2>2. SlotInv'
    BY <1>1
    DEF vars, dbVars, threadVars, taskVars, IInv, SlotInv, ChargedMarked, MissIsLate, VerdictsKept, EarlyIsEarly, Late,
      CommitBeforeChallenge, ReceiptsOrdered, AckedKept, Live
  <2> QED
    BY <2>1, <2>2 DEF IInv
<1>2. CASE Next
  BY <1>2, GrowStep, BeginBlockStep, StartWindowsStep, ResolveStartStep,
     RecordChallengeStep, ConfirmFinalizedStep, ScheduleWindowStep, ChargeStep,
     RecordPass0Step, ReceiveFinalStep, ReadFinalStep, RecordFinalStep,
     RefuseFinalStep, ReceivePayloadStep, EnqueuePayloadStep, ReadPayloadStep,
     VerifyPayloadStep, CloseEpochStep, RetireIdentityStep, RestartStep,
     NextEpochStep, Zenon
  DEF Next
<1> QED
  BY <1>1, <1>2

\* The invariant always holds.
LEMMA SpecIInv == Spec => []IInv
BY InitIInv, NextIInv, PTL DEF Spec

\* Every reachable state is well typed, and the validator never handles a block
\* before the chain has it.
THEOREM TypeCorrect == Spec => []TypeOK
<1>1. IInv => TypeOK
  BY DEF IInv
<1> QED
  BY <1>1, SpecIInv, PTL

\* However many deliveries, threads and restarts find the failure, the miner's
\* EMA is halved for it at most once.
THEOREM PenalisedOnce == Spec => []PenaltyOnce
<1>1. IInv => PenaltyOnce
  BY DEF IInv, SlotInv, ChargedMarked, PenaltyOnce
<1> QED
  BY <1>1, SpecIInv, PTL

\* A penalty is charged only in a window that was started, on blocks that were
\* canonical.
THEOREM PenalisedIsStarted == Spec => []PenaltyStarted
<1>1. IInv => PenaltyStarted
  BY DEF IInv, WindowInv, StartedOnce, AnchorsHeld, PenaltyStarted
<1> QED
  BY <1>1, SpecIInv, PTL

\* What the score gate counted rests on three final anchors and is never taken
\* back.
THEOREM GateAlwaysStands == Spec => []GateStands
<1>1. IInv => GateStands
  BY DEF IInv, WindowInv
<1> QED
  BY <1>1, SpecIInv, PTL

\* A timing miss is always of a first receipt that came after the deadline.
THEOREM MissesAreLate == Spec => []MissIsLate
<1>1. IInv => MissIsLate
  BY DEF IInv, SlotInv
<1> QED
  BY <1>1, SpecIInv, PTL

\* A proof is verified only against a commitment older than its challenge.
THEOREM CommitsPrecedeChallenge == Spec => []CommitBeforeChallenge
<1>1. IInv => CommitBeforeChallenge
  BY DEF IInv, SlotInv
<1> QED
  BY <1>1, SpecIInv, PTL

\* A payload is declared missing only by the expiry at the beginning of a block,
\* which finds it still awaited.
LEMMA MissingIsExpiry ==
  ASSUME IInv, Next, slot'.proof = "missing", slot.proof # "missing"
  PROVE  slot.proof = "pending" /\ slot.verdict = "timing_pass"
<1> slot \in SlotType
  BY DEF IInv, TypeOK
<1>1. slot' # slot
  OBVIOUS
<1>2. CASE BeginBlock
  BY <1>1, <1>2, ExpiredRow DEF BeginBlock
<1>3. CASE StartWindows
  BY <1>1, <1>3, StaleSlotRow DEF StartWindows, dbVars
<1>4. CASE ResolveStart
  BY <1>4, StartResolvedRow DEF ResolveStart
<1>5. CASE ConfirmFinalized
  <2>1. slot' = [slot EXCEPT !.verdict = "chain_reorged", !.required = FALSE]
    BY <1>1, <1>5 DEF ConfirmFinalized, dbVars
  <2> QED
    BY <2>1, VerdictRow DEF Verdicts
<1>6. ASSUME NEW a \in Actors, Charge(a) PROVE FALSE
  BY <1>1, <1>6, OtherRows DEF Charge
<1>7. CASE RecordPass0
  BY <1>7, OtherRows DEF RecordPass0
<1>8. ASSUME NEW r \in Receipts, RecordFinal(r) PROVE FALSE
  <2>1. finals[r].at \in Nat
    BY <1>8, ReadReceipt DEF RecordFinal
  <2> QED
    BY <1>1, <1>8, <2>1, FinalOutcome, FinalRow
<1>9. ASSUME NEW p \in Payloads, EnqueuePayload(p) PROVE FALSE
  BY <1>1, <1>9, OtherRows DEF EnqueuePayload
<1>10. ASSUME NEW p \in Payloads, VerifyPayload(p) PROVE FALSE
  <2>1. \E proof \in {"verified", "error", "invalid"} :
          \E v, required : slot' = ProofRecorded(proof, v, required)
    BY <1>10 DEF VerifyPayload, KeepVerdict, WorkerFails
  <2> QED
    BY <1>1, <2>1 DEF ProofRecorded, SlotType
<1>11. CASE CloseEpoch
  <2>1. slot' = [slot EXCEPT !.verdict = "timing_excused"]
    BY <1>1, <1>11 DEF CloseEpoch
  <2> QED
    BY <2>1, VerdictRow DEF Verdicts
<1>12. CASE RetireIdentity
  BY <1>12, VerdictRow DEF RetireIdentity, Verdicts
<1>13. CASE Restart
  BY <1>1, <1>13, VerdictRow DEF Restart, Verdicts
<1>14. CASE \/ Grow \/ RecordChallenge \/ ScheduleWindow \/ NextEpoch
            \/ \E r \in Receipts : ReceiveFinal(r) \/ ReadFinal(r) \/ RefuseFinal(r)
            \/ \E p \in Payloads : ReceivePayload(p) \/ ReadPayload(p)
  BY <1>1, <1>14
  DEF Grow, RecordChallenge, ScheduleWindow, NextEpoch, ReceiveFinal, ReadFinal, RefuseFinal,
      ReceivePayload, ReadPayload, dbVars
<1> QED
  BY <1>2, <1>3, <1>4, <1>5, <1>6, <1>7, <1>8, <1>9, <1>10, <1>11, <1>12, <1>13,
     <1>14, Zenon
  DEF Next

\* A payload that was acknowledged is never declared missing afterwards, even if
\* a restart loses it.
THEOREM AckedNeverMissing == Spec => AckedIsNotMissing
<1> DEFINE A == slot'.proof = "missing" /\ slot.proof # "missing" =>
                  \A p \in Payloads : payloads[p].stage \in {"new", "enqueue", "refused"}
<1>1. IInv /\ [Next]_vars => [A]_vars
  <2> SUFFICES ASSUME IInv, Next, slot'.proof = "missing", slot.proof # "missing",
                      NEW p \in Payloads
               PROVE  payloads[p].stage \in {"new", "enqueue", "refused"}
    OBVIOUS
  <2>1. slot.proof = "pending" /\ slot.verdict = "timing_pass"
    BY MissingIsExpiry
  <2>2. payloads[p].stage \notin Acked
    BY <2>1 DEF IInv, SlotInv, AckedKept
  <2> QED
    BY <2>2 DEF IInv, TypeOK, PayloadType, Acked
<1> QED
  BY <1>1, SpecIInv, PTL DEF Spec, AckedIsNotMissing
=============================================================================
