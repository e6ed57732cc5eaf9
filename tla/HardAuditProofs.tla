-------------------------- MODULE HardAuditProofs --------------------------
(***************************************************************************)
(* Proofs about HardAudit, for every value of its constants: type           *)
(* correctness, that the saved strike ledger always reloads, that a         *)
(* recovery epoch is counted once, and, where both stores ask for the same  *)
(* number of passes, that they agree on every entry no thread is writing    *)
(* and that a failure leaves its entry on probation in both.                *)
(***************************************************************************)
EXTENDS HardAudit, FiniteSetTheorems, TLAPS

LEMMA EpochSets ==
  ASSUME NEW S \in SUBSET Epochs
  PROVE  IsFiniteSet(S) /\ Cardinality(S) \in Nat
<1>1. IsFiniteSet(Epochs)
  BY FS_Interval, HardAuditAssumption DEF Epochs
<1>2. QED
  BY <1>1, FS_Subset, FS_CardinalityType

LEMMA IdleType == Idle \in ThreadType
BY HardAuditAssumption DEF Idle, ThreadType, AnyKey, Pcs, Epochs

LEMMA GotoType ==
  ASSUME NEW t \in Threads, NEW p \in Pcs, thr \in [Threads -> ThreadType],
         Goto(t, p)
  PROVE  thr' \in [Threads -> ThreadType]
BY DEF Goto, ThreadType

LEMMA DoneType ==
  ASSUME NEW t \in Threads, thr \in [Threads -> ThreadType], Done(t)
  PROVE  thr' \in [Threads -> ThreadType]
BY IdleType DEF Done

LEMMA BeginType ==
  ASSUME NEW t \in Threads, NEW p \in Pcs, NEW k \in Keys, NEW e \in Epochs,
         NEW h \in BOOLEAN, thr \in [Threads -> ThreadType],
         Begin(t, p, k, e, h)
  PROVE  thr' \in [Threads -> ThreadType]
<1>1. [Idle EXCEPT !.pc = p, !.key = k, !.epoch = e, !.hard = h] \in ThreadType
  BY IdleType DEF ThreadType
<1>2. QED
  BY <1>1 DEF Begin

LEMMA EnterType ==
  ASSUME NEW p \in [Keys -> ProbationType], NEW k \in Keys, NEW e \in Epochs
  PROVE  Enter(p, k, e) \in [Keys -> ProbationType]
BY DEF Enter, ProbationType

LEMMA ResetPassesType ==
  ASSUME NEW p \in [Keys -> ProbationType], NEW k \in Keys
  PROVE  ResetPasses(p, k) \in [Keys -> ProbationType]
BY DEF ResetPasses, ProbationType

LEMMA OffType == OffProbation \in ProbationType
BY HardAuditAssumption DEF OffProbation, ProbationType, Epochs

LEMMA CountPassType ==
  ASSUME NEW p \in [Keys -> ProbationType], NEW k \in Keys, NEW n \in Nat
  PROVE  CountPass(p, k, n) \in [Keys -> ProbationType]
<1>1. [p[k] EXCEPT !.passes = @ + 1] \in ProbationType
  BY DEF ProbationType
<1>2. QED
  BY <1>1, OffType DEF CountPass

LEMMA NoStrikeType == NoStrike \in StrikeType(Epochs)
BY DEF NoStrike, StrikeType

LEMMA RecordFailureType ==
  ASSUME NEW s \in StrikeType(Epochs), NEW e \in Epochs, NEW f \in BOOLEAN
  PROVE  RecordFailure(s, e, f) \in StrikeType(Epochs)
BY DEF RecordFailure, StrikeType

LEMMA RecordCleanPassType ==
  ASSUME NEW s \in StrikeType(Epochs), NEW e \in Epochs
  PROVE  RecordCleanPass(s, e) \in StrikeType(Epochs)
BY NoStrikeType DEF RecordCleanPass, StrikeType

LEMMA ReloadType ==
  ASSUME NEW s \in StrikeType(Epochs)
  PROVE  Reload(s) \in StrikeType(Epochs)
BY DEF Reload, StrikeType

LEMMA MarkType ==
  ASSUME TypeOK, NEW k \in Keys, NEW e \in Epochs, MarkFailureEpoch(k, e)
  PROVE  /\ ledger' \in [Keys -> -1 .. MaxEpoch]
         /\ ledgerDb' \in [Keys -> -1 .. MaxEpoch]
<1>1. e \in -1 .. MaxEpoch
  BY HardAuditAssumption DEF Epochs
<1>2. [ledger EXCEPT ![k] = e] \in [Keys -> -1 .. MaxEpoch]
  BY <1>1 DEF TypeOK
<1>3. QED
  BY <1>2 DEF TypeOK, MarkFailureEpoch, SaveLedger, ledgerVars

LEMMA PenPcType ==
  ASSUME thr \in [Threads -> ThreadType],
         NEW t \in Threads, NEW b \in BOOLEAN, NEW p \in Pcs,
         thr' = [thr EXCEPT ![t].pen = b, ![t].pc = p]
  PROVE  thr' \in [Threads -> ThreadType]
<1>1. [thr[t] EXCEPT !.pen = b, !.pc = p] \in ThreadType
  BY DEF ThreadType
<1>2. thr' = [thr EXCEPT ![t] = [thr[t] EXCEPT !.pen = b, !.pc = p]]
  BY DEF ThreadType
<1>3. QED
  BY <1>1, <1>2

LEMMA TypeStep == TypeOK /\ [Next]_vars => TypeOK'
<1> SUFFICES ASSUME TypeOK, [Next]_vars PROVE TypeOK'
  OBVIOUS
<1> USE HardAuditAssumption
<1> USE DEF TypeOK, control, probation, strikeVars, ledgerVars, resetVars,
            bounds, history
<1>1. ASSUME NEW k \in Keys, StartNewEpoch(k) PROVE TypeOK'
  <2>1. cur' \in Epochs /\ reg' \in [Epochs -> Keys]
    BY <1>1 DEF StartNewEpoch, Epochs
  <2>2. QED
    BY <1>1, <2>1 DEF StartNewEpoch
<1>2. ASSUME NEW k \in Keys, CapacityVerdict(k) PROVE TypeOK'
  BY <1>2 DEF CapacityVerdict, Event
<1>3. ASSUME NEW kind \in {"miss", "fail"}, ObligationMissed(kind)
      PROVE  TypeOK'
  BY <1>3 DEF ObligationMissed, Event
<1>4. ASSUME OwnerPublishes PROVE TypeOK'
  BY <1>4 DEF OwnerPublishes
<1>5. ASSUME NEW w \in Workers, NEW e \in Epochs, HardTestFails(w, e)
      PROVE  TypeOK'
  <2>1. thr' \in [Threads -> ThreadType]
    BY <1>5, BeginType DEF HardTestFails, Threads, Pcs
  <2>2. QED
    BY <1>5, <2>1 DEF HardTestFails, Event, NoteOverlap, Overlapped
<1>6. ASSUME NEW w \in Workers, NEW e \in Epochs, LightTestFails(w, e)
      PROVE  TypeOK'
  <2>1. thr' \in [Threads -> ThreadType]
    BY <1>6, BeginType DEF LightTestFails, Threads, Pcs
  <2>2. QED
    BY <1>6, <2>1 DEF LightTestFails, Event, NoteOverlap, Overlapped
<1>7. ASSUME NEW w \in Workers, NEW e \in Epochs, HardTestPasses(w, e)
      PROVE  TypeOK'
  <2>1. thr' \in [Threads -> ThreadType]
    BY <1>7, BeginType DEF HardTestPasses, Threads, Pcs
  <2>2. strikes' \in [Keys -> StrikeType(Epochs)] /\ strikesDb' = strikes'
    BY <1>7, RecordCleanPassType DEF HardTestPasses, SaveStrikes
  <2>3. QED
    BY <1>7, <2>1, <2>2 DEF HardTestPasses, Event, NoteOverlap, Overlapped
<1>8. ASSUME NEW w \in Workers, StoreReceipt(w) PROVE TypeOK'
  <2>1. thr' \in [Threads -> ThreadType]
    BY <1>8, DoneType DEF StoreReceipt, Threads
  <2>2. outcome' \in [Epochs -> SUBSET {"miss", "fail", "pass", "excused"}]
    BY <1>8 DEF StoreReceipt
  <2>3. QED
    BY <1>8, <2>1, <2>2 DEF StoreReceipt, NoteOverlap, Overlapped
<1>9. ASSUME NEW w \in Workers, ReconcileLateHardPass(w) PROVE TypeOK'
  <2>1. thr' \in [Threads -> ThreadType]
    BY <1>9, GotoType DEF ReconcileLateHardPass, Threads, Pcs
  <2>2. /\ ledger' \in [Keys -> -1 .. MaxEpoch]
        /\ ledgerDb' \in [Keys -> -1 .. MaxEpoch]
    BY <1>9, MarkType DEF ReconcileLateHardPass, Threads, ThreadType
  <2>3. QED
    BY <1>9, <2>1, <2>2 DEF ReconcileLateHardPass, NoteOverlap, Overlapped
<1>10. ASSUME NEW w \in Workers, NEW k \in Keys, CapacityDb(w, k)
      PROVE  TypeOK'
  <2>1. thr' \in [Threads -> ThreadType]
    BY <1>10, BeginType DEF CapacityDb, Threads, Pcs
  <2>2. QED
    BY <1>10, <2>1, EnterType DEF CapacityDb, NoteOverlap, Overlapped
<1>11. ASSUME NEW w \in Workers, CapacityTracker(w) PROVE TypeOK'
  <2>1. thr' \in [Threads -> ThreadType]
    BY <1>11, DoneType DEF CapacityTracker, Threads
  <2>2. tracker' \in [Keys -> ProbationType]
    BY <1>11, EnterType DEF CapacityTracker, Threads, ThreadType
  <2>3. QED
    BY <1>11, <2>1, <2>2 DEF CapacityTracker, NoteOverlap, Overlapped
<1>12. ASSUME NEW t \in Workers \cup {"closer"}, RecordStrike(t) PROVE TypeOK'
  <2> DEFINE new == RecordFailure(strikes[thr[t].key], thr[t].epoch, FALSE)
  <2>1. t \in Threads /\ thr[t].key \in Keys /\ thr[t].epoch \in Epochs
    BY DEF Threads, ThreadType
  <2>2. new \in StrikeType(Epochs) /\ new.pen \in BOOLEAN
    BY <2>1, RecordFailureType DEF StrikeType
  <2>3. thr' \in [Threads -> ThreadType]
    <3>1. CASE Covers(thr[t].epoch)
      BY <1>12, <2>1, <3>1, PenPcType DEF RecordStrike, Pcs
    <3>2. CASE ~Covers(thr[t].epoch)
      BY <1>12, <2>1, <2>2, <3>2, PenPcType DEF RecordStrike, Pcs
    <3>3. QED
      BY <3>1, <3>2
  <2>4. /\ strikes' \in [Keys -> StrikeType(Epochs)]
        /\ strikesDb' \in [Keys -> StrikeType(Epochs)]
    <3>1. [strikes EXCEPT ![thr[t].key] = new] \in [Keys -> StrikeType(Epochs)]
      BY <2>1, <2>2
    <3>2. CASE Covers(thr[t].epoch)
      BY <1>12, <3>2 DEF RecordStrike
    <3>3. CASE ~Covers(thr[t].epoch)
      BY <1>12, <3>1, <3>3 DEF RecordStrike, SaveStrikes
    <3>4. QED
      BY <3>2, <3>3
  <2>5. QED
    BY <1>12, <2>3, <2>4 DEF RecordStrike, NoteOverlap, Overlapped
<1>13. ASSUME NEW t \in Workers \cup {"closer"}, Publish(t) PROVE TypeOK'
  <2>1. t \in Threads /\ thr[t].key \in Keys /\ thr[t].epoch \in Epochs
    BY DEF Threads, ThreadType
  <2>2. thr' \in [Threads -> ThreadType]
    BY <1>13, <2>1, GotoType, DoneType DEF Publish, Pcs
  <2>3. /\ ledger' \in [Keys -> -1 .. MaxEpoch]
        /\ ledgerDb' \in [Keys -> -1 .. MaxEpoch]
    BY <1>13, <2>1, MarkType DEF Publish
  <2>4. failures' \subseteq Epochs \X Keys
    BY <1>13, <2>1 DEF Publish
  <2>5. outcome' \in [Epochs -> SUBSET {"miss", "fail", "pass", "excused"}]
    BY <1>13, <2>1 DEF Publish
  <2>6. QED
    BY <1>13, <2>2, <2>3, <2>4, <2>5 DEF Publish, NoteOverlap, Overlapped
<1>14. ASSUME NEW t \in Workers \cup {"closer"}, Gate(t) PROVE TypeOK'
  <2>1. t \in Threads /\ thr[t].epoch \in Epochs
    BY DEF Threads, ThreadType
  <2>2. thr' \in [Threads -> ThreadType] /\ penal' \subseteq Epochs
    BY <1>14, <2>1, GotoType, DoneType DEF Gate, AfterFailure, Pcs
  <2>3. QED
    BY <1>14, <2>2 DEF Gate, NoteOverlap, Overlapped
<1>15. ASSUME NEW t \in Workers \cup {"closer"}, Branch(t) PROVE TypeOK'
  <2>1. thr' \in [Threads -> ThreadType]
    BY <1>15, GotoType DEF Branch, Threads, Pcs
  <2>2. QED
    BY <1>15, <2>1 DEF Branch, NoteOverlap, Overlapped
<1>16. ASSUME NEW t \in Workers \cup {"closer"}, TrackerWrite(t) PROVE TypeOK'
  <2>1. t \in Threads /\ thr[t].key \in Keys /\ thr[t].epoch \in Epochs
    BY DEF Threads, ThreadType
  <2>2. thr' \in [Threads -> ThreadType]
    BY <1>16, <2>1, GotoType DEF TrackerWrite, Pcs
  <2>3. tracker' \in [Keys -> ProbationType]
    <3>1. Enter(tracker, thr[t].key, thr[t].epoch) \in [Keys -> ProbationType]
      BY <2>1, EnterType
    <3>2. ResetPasses(tracker, thr[t].key) \in [Keys -> ProbationType]
      BY <2>1, ResetPassesType
    <3>3. QED
      BY <1>16, <3>1, <3>2 DEF TrackerWrite
  <2>4. QED
    BY <1>16, <2>2, <2>3 DEF TrackerWrite, NoteOverlap, Overlapped
<1>17. ASSUME NEW t \in Workers \cup {"closer"}, DbWrite(t) PROVE TypeOK'
  <2>1. t \in Threads /\ thr[t].key \in Keys /\ thr[t].epoch \in Epochs
    BY DEF Threads, ThreadType
  <2>2. thr' \in [Threads -> ThreadType] /\ penal' \subseteq Epochs
    BY <1>17, <2>1, GotoType, DoneType DEF DbWrite, AfterFailure, Pcs
  <2>3. db' \in [Keys -> ProbationType]
    <3>1. Enter(db, thr[t].key, thr[t].epoch) \in [Keys -> ProbationType]
      BY <2>1, EnterType
    <3>2. ResetPasses(db, thr[t].key) \in [Keys -> ProbationType]
      BY <2>1, ResetPassesType
    <3>3. QED
      BY <1>17, <3>1, <3>2 DEF DbWrite
  <2>4. QED
    BY <1>17, <2>2, <2>3 DEF DbWrite, NoteOverlap, Overlapped
<1>18. ASSUME NEW t \in Workers \cup {"closer"}, RecoveryLedger(t)
      PROVE  TypeOK'
  <2>1. t \in Threads /\ thr[t].key \in Keys /\ thr[t].epoch \in Epochs
    BY DEF Threads, ThreadType
  <2>2. thr' \in [Threads -> ThreadType]
    BY <1>18, <2>1, GotoType DEF RecoveryLedger, AfterRecovery, Pcs
  <2>3. /\ ledger' \in [Keys -> -1 .. MaxEpoch]
        /\ ledgerDb' \in [Keys -> -1 .. MaxEpoch]
    <3>1. thr[t].epoch \in -1 .. MaxEpoch
      BY <2>1 DEF Epochs
    <3>2. [ledger EXCEPT ![thr[t].key] = thr[t].epoch]
            \in [Keys -> -1 .. MaxEpoch]
      BY <2>1, <3>1
    <3>3. QED
      BY <1>18, <3>2 DEF RecoveryLedger, SaveLedger
  <2>4. counted' \in [Keys -> [Epochs -> Nat]]
    <3>1. [counted EXCEPT ![thr[t].key][thr[t].epoch] = @ + 1]
            \in [Keys -> [Epochs -> Nat]]
      BY <2>1
    <3>2. QED
      BY <1>18, <3>1 DEF RecoveryLedger
  <2>5. QED
    BY <1>18, <2>1, <2>2, <2>3, <2>4 DEF RecoveryLedger, NoteOverlap, Overlapped
<1>19. ASSUME NEW t \in Workers \cup {"closer"}, RecoveryTracker(t)
      PROVE  TypeOK'
  <2>1. t \in Threads /\ thr[t].key \in Keys
    BY DEF Threads, ThreadType
  <2>2. tracker' \in [Keys -> ProbationType]
    BY <1>19, <2>1, CountPassType DEF RecoveryTracker
  <2>3. thr' \in [Threads -> ThreadType]
    <3>1. (tracker[thr[t].key].on /\ ~tracker'[thr[t].key].on) \in BOOLEAN
      OBVIOUS
    <3>2. QED
      BY <1>19, <2>1, <3>1, PenPcType DEF RecoveryTracker, Pcs
  <2>4. QED
    BY <1>19, <2>2, <2>3 DEF RecoveryTracker, NoteOverlap, Overlapped
<1>20. ASSUME NEW t \in Workers \cup {"closer"}, RecoveryDb(t) PROVE TypeOK'
  <2>1. t \in Threads /\ thr[t].key \in Keys
    BY DEF Threads, ThreadType
  <2>2. db' \in [Keys -> ProbationType]
    BY <1>20, <2>1, CountPassType DEF RecoveryDb
  <2>3. thr' \in [Threads -> ThreadType]
    BY <1>20, <2>1, GotoType DEF RecoveryDb, Pcs
  <2>4. QED
    BY <1>20, <2>2, <2>3 DEF RecoveryDb, NoteOverlap, Overlapped
<1>21. ASSUME NEW t \in Workers \cup {"closer"}, RecoveryClear(t)
      PROVE  TypeOK'
  <2>1. t \in Threads /\ thr[t].key \in Keys
    BY DEF Threads, ThreadType
  <2>2. /\ strikes' \in [Keys -> StrikeType(Epochs)]
        /\ strikesDb' \in [Keys -> StrikeType(Epochs)]
    <3>1. [strikes EXCEPT ![thr[t].key] = NoStrike]
            \in [Keys -> StrikeType(Epochs)]
      BY <2>1, NoStrikeType
    <3>2. QED
      BY <1>21, <3>1 DEF RecoveryClear, SaveStrikes
  <2>3. thr' \in [Threads -> ThreadType]
    BY <1>21, <2>1, GotoType DEF RecoveryClear, AfterRecovery, Pcs
  <2>4. QED
    BY <1>21, <2>2, <2>3 DEF RecoveryClear, NoteOverlap, Overlapped
<1>22. ASSUME MigrateIndex PROVE TypeOK'
  <2>1. "closer" \in Threads /\ closed + 1 \in Epochs
    <3>1. closed + 1 < cur
      BY <1>22 DEF MigrateIndex
    <3> QED
      BY <3>1 DEF Threads, Epochs
  <2>2. reg[closed + 1] \in Keys
    BY <2>1
  <2>3. thr' \in [Threads -> ThreadType]
    <3>1. \A b \in BOOLEAN :
            [Idle EXCEPT !.pc = "migrate", !.key = reg[closed + 1],
                         !.epoch = closed + 1, !.rcpt = b] \in ThreadType
      BY <2>1, <2>2, IdleType DEF ThreadType, Pcs
    <3>2. thr' = [thr EXCEPT !["closer"] =
                    [Idle EXCEPT !.pc = "migrate", !.key = reg[closed + 1],
                                 !.epoch = closed + 1,
                                 !.rcpt = "pass" \in outcome[closed + 1]]]
      BY <1>22 DEF MigrateIndex
    <3>3. ("pass" \in outcome[closed + 1]) \in BOOLEAN
      OBVIOUS
    <3> QED
      BY <2>1, <3>1, <3>2, <3>3
  <2>4. tracker' \in [Keys -> ProbationType] /\ moved' \subseteq Keys
    <3>1. \A j \in Keys : Move(tracker, j, reg[closed + 1], OffProbation)
                            \in [Keys -> ProbationType]
      BY <2>2, OffType DEF Move
    <3>2. CASE tracker' = tracker /\ moved' = moved
      BY <3>2
    <3>3. CASE \E j \in Keys :
                 /\ tracker' = Move(tracker, j, reg[closed + 1], OffProbation)
                 /\ moved' = moved \cup {j, reg[closed + 1]}
      BY <2>2, <3>1, <3>3
    <3>4. QED
      BY <1>22, <3>2, <3>3 DEF MigrateIndex
  <2>5. QED
    BY <1>22, <2>3, <2>4 DEF MigrateIndex
<1>22a. ASSUME MigrateStrikes PROVE TypeOK'
  <2>1. "closer" \in Threads /\ thr["closer"].key \in Keys
    BY DEF Threads, ThreadType
  <2>2. thr' \in [Threads -> ThreadType]
    BY <1>22a, <2>1, GotoType DEF MigrateStrikes, Pcs
  <2>3. /\ strikes' \in [Keys -> StrikeType(Epochs)]
        /\ strikesDb' \in [Keys -> StrikeType(Epochs)]
    <3>1. \A j \in Keys : Move(strikes, j, thr["closer"].key, NoStrike)
                            \in [Keys -> StrikeType(Epochs)]
      BY <2>1, NoStrikeType DEF Move
    <3>2. QED
      BY <1>22a, <3>1 DEF MigrateStrikes, SaveStrikes
  <2>4. QED
    BY <1>22a, <2>2, <2>3 DEF MigrateStrikes, NoteOverlap, Overlapped
<1>23. ASSUME NEW grace \in Grace, NEW deferred \in BOOLEAN,
             NEW untested \in BOOLEAN, CloseHard(grace, deferred, untested)
      PROVE  TypeOK'
  <2>1. "closer" \in Threads
    BY DEF Threads
  <2>2. thr' \in [Threads -> ThreadType]
    <3>1. thr["closer"] \in ThreadType
      BY <2>1
    <3>2. \A k, c, n \in BOOLEAN, p \in Pcs :
            [thr["closer"] EXCEPT !.skip = k, !.clean = c, !.cont = n, !.pc = p]
              \in ThreadType
      BY <3>1 DEF ThreadType
    <3>3. {"closeGate", "strike", "closeObl"} \subseteq Pcs
      BY DEF Pcs
    <3>4. /\ (grace \/ Covers(thr["closer"].epoch)) \in BOOLEAN
          /\ ("excused" \in outcome[thr["closer"].epoch] \/ untested) \in BOOLEAN
      BY DEF Covers
    <3>5. QED
      BY <1>23, <2>1, <3>2, <3>3, <3>4 DEF CloseHard
  <2>3. QED
    BY <1>23, <2>2 DEF CloseHard, NoteOverlap, Overlapped
<1>24. ASSUME CloseObligations PROVE TypeOK'
  <2>1. "closer" \in Threads
    BY DEF Threads
  <2>2. thr' \in [Threads -> ThreadType]
    <3>1. thr["closer"] \in ThreadType
      BY <2>1
    <3>2. \A n, o, c \in BOOLEAN, p \in Pcs :
            [thr["closer"] EXCEPT !.pen = n, !.obl = o, !.clean = c, !.pc = p]
              \in ThreadType
      BY <3>1 DEF ThreadType
    <3>3. {"gate", "closeClean"} \subseteq Pcs
      BY DEF Pcs
    <3>4. QED
      BY <1>24, <2>1, <3>2, <3>3 DEF CloseObligations
  <2>3. QED
    BY <1>24, <2>2 DEF CloseObligations, NoteOverlap, Overlapped
<1>25. ASSUME NEW verdict \in {"none", "pass", "fail"}, CloseVerdict(verdict)
      PROVE  TypeOK'
  <2>1. /\ "closer" \in Threads /\ thr["closer"].key \in Keys
        /\ thr["closer"].epoch \in Epochs
    BY DEF Threads, ThreadType
  <2>2. thr' \in [Threads -> ThreadType]
    <3>1. thr["closer"] \in ThreadType
      BY <2>1
    <3>2. \A n, c \in BOOLEAN, p \in Pcs :
            [thr["closer"] EXCEPT !.pen = n, !.pc = p, !.clean = c]
              \in ThreadType
      BY <3>1 DEF ThreadType
    <3>3. "closeGate" \in Pcs
      BY DEF Pcs
    <3>4. QED
      BY <1>25, <2>1, <3>2, <3>3 DEF CloseVerdict
  <2>3. /\ strikes' \in [Keys -> StrikeType(Epochs)]
        /\ strikesDb' \in [Keys -> StrikeType(Epochs)]
    <3> DEFINE k == thr["closer"].key  e == thr["closer"].epoch
    <3>1. [strikes EXCEPT ![k] = RecordFailure(strikes[k], e, TRUE)]
            \in [Keys -> StrikeType(Epochs)]
      BY <2>1, RecordFailureType
    <3>2. [strikes EXCEPT ![k] = RecordCleanPass(strikes[k], e)]
            \in [Keys -> StrikeType(Epochs)]
      BY <2>1, RecordCleanPassType
    <3>3. QED
      BY <1>25, <3>1, <3>2 DEF CloseVerdict, SaveStrikes
  <2>4. QED
    BY <1>25, <2>2, <2>3 DEF CloseVerdict, NoteOverlap, Overlapped
<1>25a. ASSUME NEW gated \in Gates, NEW grace \in Grace, CloseGate(gated, grace)
      PROVE  TypeOK'
  <2>1. thr' \in [Threads -> ThreadType]
    BY <1>25a, GotoType DEF CloseGate, AfterGate, Threads, Pcs
  <2>2. QED
    BY <1>25a, <2>1 DEF CloseGate, NoteOverlap, Overlapped
<1>25b. ASSUME GateTracker PROVE TypeOK'
  <2>1. /\ "closer" \in Threads /\ thr["closer"].key \in Keys
        /\ thr["closer"].epoch \in Epochs
    BY DEF Threads, ThreadType
  <2>2. thr' \in [Threads -> ThreadType]
    BY <1>25b, <2>1, GotoType DEF GateTracker, Pcs
  <2>3. tracker' \in [Keys -> ProbationType]
    BY <1>25b, <2>1, EnterType DEF GateTracker
  <2>4. QED
    BY <1>25b, <2>2, <2>3 DEF GateTracker, NoteOverlap, Overlapped
<1>25c. ASSUME GateDb PROVE TypeOK'
  <2>1. /\ "closer" \in Threads /\ thr["closer"].key \in Keys
        /\ thr["closer"].epoch \in Epochs
    BY DEF Threads, ThreadType
  <2>2. thr' \in [Threads -> ThreadType]
    BY <1>25c, <2>1, GotoType DEF GateDb, AfterGate, Pcs
  <2>3. db' \in [Keys -> ProbationType]
    BY <1>25c, <2>1, EnterType DEF GateDb
  <2>4. QED
    BY <1>25c, <2>2, <2>3 DEF GateDb, NoteOverlap, Overlapped
<1>26. ASSUME CloseLifecycle PROVE TypeOK'
  <2>1. /\ "closer" \in Threads /\ thr["closer"].key \in Keys
        /\ thr["closer"].epoch \in Epochs
    BY DEF Threads, ThreadType
  <2>2. thr' \in [Threads -> ThreadType]
    BY <1>26, <2>1, GotoType DEF CloseLifecycle, Pcs
  <2>3. tracker' \in [Keys -> ProbationType]
    BY <1>26, <2>1, EnterType DEF CloseLifecycle
  <2>4. QED
    BY <1>26, <2>2, <2>3 DEF CloseLifecycle, NoteOverlap, Overlapped
<1>27. ASSUME CloseEnterDb PROVE TypeOK'
  <2>1. /\ "closer" \in Threads /\ thr["closer"].key \in Keys
        /\ thr["closer"].epoch \in Epochs
    BY DEF Threads, ThreadType
  <2>2. thr' \in [Threads -> ThreadType]
    BY <1>27, <2>1, GotoType DEF CloseEnterDb, Pcs
  <2>3. db' \in [Keys -> ProbationType]
    BY <1>27, <2>1, EnterType DEF CloseEnterDb
  <2>4. QED
    BY <1>27, <2>2, <2>3 DEF CloseEnterDb, NoteOverlap, Overlapped
<1>28. ASSUME CloseEnd PROVE TypeOK'
  <2>1. "closer" \in Threads /\ thr["closer"].epoch \in Epochs
    BY DEF Threads, ThreadType
  <2>2. thr' \in [Threads -> ThreadType]
    BY <1>28, <2>1, DoneType DEF CloseEnd
  <2>3. closed' \in -1 .. MaxEpoch
    BY <1>28, <2>1 DEF CloseEnd, Epochs
  <2>4. QED
    BY <1>28, <2>1, <2>2, <2>3 DEF CloseEnd, NoteOverlap, Overlapped
<1>29. ASSUME CloseRetry PROVE TypeOK'
  <2>1. thr' \in [Threads -> ThreadType]
    BY <1>29, DoneType DEF CloseRetry, Threads
  <2>2. QED
    BY <1>29, <2>1 DEF CloseRetry
<1>29a. ASSUME NEW k \in Keys, UpsertEntry(k) PROVE TypeOK'
  BY <1>29a, OffType DEF UpsertEntry, Event
<1>29b. ASSUME NEW raises \in BOOLEAN, ClearIdentityDb(raises) PROVE TypeOK'
  <2>1. thr' \in [Threads -> ThreadType]
    <3>1. AnyKey \in Keys
      BY DEF AnyKey
    <3> QED
      BY <1>29b, <3>1, BeginType DEF ClearIdentityDb, Threads, Pcs
  <2>2. QED
    BY <1>29b, <2>1, OffType DEF ClearIdentityDb, Event, Overlapped
<1>29c. ASSUME ClearIdentityTracker PROVE TypeOK'
  <2>1. thr' \in [Threads -> ThreadType]
    BY <1>29c, DoneType DEF ClearIdentityTracker, Threads
  <2>2. QED
    BY <1>29c, <2>1, OffType DEF ClearIdentityTracker, NoteOverlap, Overlapped
<1>30. ASSUME ResetBegin PROVE TypeOK'
  <2>1. AnyKey \in Keys
    BY DEF AnyKey
  <2>2. thr' \in [Threads -> ThreadType]
    BY <1>30, <2>1, BeginType DEF ResetBegin, Threads, Pcs
  <2>3. QED
    BY <1>30, <2>2 DEF ResetBegin, NoteOverlap, Overlapped
<1>31. ASSUME ResetTracker PROVE TypeOK'
  <2>1. thr' \in [Threads -> ThreadType]
    BY <1>31, GotoType DEF ResetTracker, Threads, Pcs
  <2>2. QED
    BY <1>31, <2>1, OffType DEF ResetTracker, NoteOverlap, Overlapped
<1>32. ASSUME ResetDb PROVE TypeOK'
  <2>1. "main" \in Threads /\ thr["main"].epoch \in Epochs
    BY DEF Threads, ThreadType
  <2>2. thr' \in [Threads -> ThreadType]
    BY <1>32, <2>1, GotoType DEF ResetDb, Pcs
  <2>3. resetDb' \in -1 .. MaxEpoch /\ ledgerDb' \in [Keys -> -1 .. MaxEpoch]
    <3>1. resetDb' = thr["main"].epoch
      BY <1>32 DEF ResetDb
    <3>2. ledgerDb' \in [Keys -> -1 .. MaxEpoch]
      BY <1>32 DEF ResetDb
    <3>3. Epochs \subseteq -1 .. MaxEpoch
      BY DEF Epochs
    <3> QED
      BY <2>1, <3>1, <3>2, <3>3
  <2>4. QED
    BY <1>32, <2>2, <2>3, OffType, NoStrikeType
       DEF ResetDb, NoneCounted, NoteOverlap, Overlapped
<1>33. ASSUME ResetMemory PROVE TypeOK'
  <2>1. thr' \in [Threads -> ThreadType]
    BY <1>33, GotoType DEF ResetMemory, Threads, Pcs
  <2>2. ledger' \in [Keys -> -1 .. MaxEpoch]
    BY <1>33 DEF ResetMemory
  <2>3. QED
    BY <1>33, <2>1, <2>2, NoStrikeType DEF ResetMemory, NoneCounted, NoteOverlap, Overlapped
<1>34. ASSUME ResetEffective PROVE TypeOK'
  <2>1. "main" \in Threads /\ thr["main"].epoch \in Epochs
    BY DEF Threads, ThreadType
  <2>2. thr' \in [Threads -> ThreadType]
    BY <1>34, <2>1, DoneType DEF ResetEffective
  <2>3. reset' \in -1 .. MaxEpoch
    BY <1>34, <2>1 DEF ResetEffective, Epochs
  <2>4. QED
    BY <1>34, <2>2, <2>3 DEF ResetEffective, SaveStrikes, NoteOverlap, Overlapped
<1>35. ASSUME Crash PROVE TypeOK'
  <2>1. thr' \in [Threads -> ThreadType]
    BY <1>35, IdleType DEF Crash
  <2>2. strikes' \in [Keys -> StrikeType(Epochs)]
    BY <1>35, NoStrikeType, ReloadType DEF Crash
  <2>3. first' \in 0 .. (MaxEpoch + 1) /\ closed' \in -1 .. MaxEpoch
    <3>1. cur \in 0 .. MaxEpoch /\ (first' = cur \/ first' = cur + 1)
          /\ closed' = first' - 1
      BY <1>35 DEF Crash, Epochs
    <3>2. QED
      BY <3>1
  <2>4. outcome' \in [Epochs -> SUBSET {"miss", "fail", "pass", "excused"}]
    BY <1>35 DEF Crash
  <2>5. /\ crashes' \in 0 .. MaxCrashes
        /\ recLock' \in Threads \cup {NoThread}
        /\ disturbed' \subseteq Keys
    BY <1>35 DEF Crash
  <2>6. QED
    BY <1>35, <2>1, <2>2, <2>3, <2>4, <2>5 DEF Crash
<1>36. CASE UNCHANGED vars
  BY <1>36 DEF vars, Overlapped, Writing
<1>37. QED
  BY <1>1, <1>2, <1>3, <1>4, <1>5, <1>6, <1>7, <1>8, <1>9, <1>10,
     <1>11, <1>12, <1>13, <1>14, <1>15, <1>16, <1>17, <1>18, <1>19,
     <1>20, <1>21, <1>22, <1>23, <1>24, <1>25, <1>26, <1>27, <1>28,
     <1>29, <1>30, <1>31, <1>32, <1>33, <1>34, <1>35,
     <1>36, <1>22a, <1>25a, <1>25b, <1>25c, <1>29a, <1>29b, <1>29c
     DEF Next, Environment, WorkerStep, SharedStep, CloserStep, MainStep,
         SetupStep

LEMMA TypeInit == Init => TypeOK
BY HardAuditAssumption, IdleType, OffType, NoStrikeType
   DEF Init, TypeOK, Epochs, AnyKey, NoneCounted

\* Every reachable state of the enforcement machinery is well typed, for any
\* number of workers, indices, epochs, restarts and resets: no interleaving
\* of the handlers stores a value from_json, SQLite or the probation file
\* could not hold.
THEOREM TypeCorrect == Spec => []TypeOK
BY TypeInit, TypeStep, PTL DEF Spec

----------------------------------------------------------------------------
LEMMA NoStrikeWellFormed == WellFormed(NoStrike)
<1>1. Cardinality({}) = 0
  BY FS_EmptySet
<1>2. QED
  BY <1>1, ThresholdAssumption DEF WellFormed, NoStrike

LEMMA RecordFailureWellFormed ==
  ASSUME NEW s \in StrikeType(Epochs), NEW e \in Epochs, NEW f \in BOOLEAN,
         WellFormed(s)
  PROVE  WellFormed(RecordFailure(s, e, f))
<1> DEFINE all == s.fail \cup {e}
<1>1. all \in SUBSET Epochs /\ all # {}
  BY DEF StrikeType
<1>2. Cardinality(all) \in Nat
  BY <1>1, EpochSets
<1>3. CASE f
  BY <1>1, <1>3 DEF RecordFailure, WellFormed
<1>4. CASE ~f /\ e \in s.fail
  BY <1>4 DEF RecordFailure
<1>5. CASE ~f /\ e \notin s.fail
  <2> DEFINE new == [fail |-> all, clean |-> {},
                     pen |-> s.pen \/ Cardinality(all) >= FailThreshold]
  <2>1. RecordFailure(s, e, f) = new
    BY <1>5 DEF RecordFailure
  <2>2. ~(Cardinality(all) >= FailThreshold) => Cardinality(all) < FailThreshold
    <3> HIDE DEF all
    <3>1. QED
      BY <1>2, ThresholdAssumption
  <2>3. WellFormed(new)
    BY <1>1, <2>2 DEF WellFormed
  <2>4. QED
    BY <2>1, <2>3
<1>6. QED
  BY <1>3, <1>4, <1>5

LEMMA RecordCleanPassWellFormed ==
  ASSUME NEW s \in StrikeType(Epochs), NEW e \in Epochs, WellFormed(s)
  PROVE  WellFormed(RecordCleanPass(s, e))
<1> DEFINE counts == ~s.pen /\ s.fail # {} /\ \A f \in s.fail : e > f
           new    == [s EXCEPT !.clean = s.clean \cup {e}]
<1>1. RecordCleanPass(s, e) \in {s, NoStrike} \/
      (counts /\ RecordCleanPass(s, e) = new)
  BY DEF RecordCleanPass
<1>2. counts => WellFormed(new)
  BY DEF WellFormed, StrikeType
<1>3. QED
  BY <1>1, <1>2, NoStrikeWellFormed

LEMMA WellFormedReloads ==
  ASSUME NEW s \in StrikeType(Epochs), WellFormed(s)
  PROVE  ~Malformed(s) /\ Reload(s) = s
<1>1. Cardinality(s.fail) \in Nat
  BY EpochSets DEF StrikeType
<1>2. ~Malformed(s)
  BY DEF Malformed, WellFormed, StrikeType, Epochs
<1>3. (s.pen \/ Cardinality(s.fail) >= FailThreshold) = s.pen
  BY <1>1, ThresholdAssumption DEF WellFormed, StrikeType
<1>4. QED
  BY <1>2, <1>3 DEF Reload, StrikeType

LEMMA StrikesStep ==
  TypeOK /\ StrikesWellFormed /\ [Next]_vars => StrikesWellFormed'
<1> SUFFICES ASSUME TypeOK, StrikesWellFormed, [Next]_vars
             PROVE  StrikesWellFormed'
  OBVIOUS
<1>0. /\ strikes \in [Keys -> StrikeType(Epochs)]
      /\ strikesDb \in [Keys -> StrikeType(Epochs)]
      /\ \A t \in Threads : thr[t].key \in Keys /\ thr[t].epoch \in Epochs
  BY DEF TypeOK, ThreadType
<1>1. CASE UNCHANGED strikeVars
  BY <1>1 DEF StrikesWellFormed, strikeVars
<1>2. ASSUME NEW k \in Keys, NEW s, WellFormed(s),
             strikes' = [strikes EXCEPT ![k] = s], strikesDb' = strikes'
      PROVE  StrikesWellFormed'
  BY <1>0, <1>2 DEF StrikesWellFormed
<1>3. ASSUME NEW w \in Workers, NEW e \in Epochs, HardTestPasses(w, e)
      PROVE  StrikesWellFormed'
  <2>1. reg[e] \in Keys
    BY DEF TypeOK
  <2>2. WellFormed(RecordCleanPass(strikes[reg[e]], e))
    BY <1>0, <2>1, RecordCleanPassWellFormed DEF StrikesWellFormed
  <2>3. QED
    BY <1>2, <1>3, <2>1, <2>2 DEF HardTestPasses, SaveStrikes
<1>4. ASSUME NEW t \in Workers \cup {"closer"}, RecordStrike(t)
      PROVE  StrikesWellFormed'
  <2> DEFINE k == thr[t].key
             new == RecordFailure(strikes[k], thr[t].epoch, FALSE)
  <2>1. k \in Keys /\ thr[t].epoch \in Epochs
    BY <1>0 DEF Threads
  <2>2. WellFormed(new)
    BY <1>0, <2>1, RecordFailureWellFormed DEF StrikesWellFormed
  <2>3. CASE Covers(thr[t].epoch)
    BY <1>1, <1>4, <2>3 DEF RecordStrike
  <2>4. CASE ~Covers(thr[t].epoch)
    BY <1>2, <1>4, <2>1, <2>2, <2>4 DEF RecordStrike, SaveStrikes
  <2>5. QED
    BY <2>3, <2>4
<1>5. ASSUME NEW t \in Workers \cup {"closer"}, RecoveryClear(t)
      PROVE  StrikesWellFormed'
  <2>1. thr[t].key \in Keys
    BY <1>0 DEF Threads
  <2>2. QED
    BY <1>1, <1>2, <1>5, <2>1, NoStrikeWellFormed
       DEF RecoveryClear, SaveStrikes
<1>6. ASSUME MigrateStrikes PROVE StrikesWellFormed'
  <2> DEFINE k == thr["closer"].key
  <2>1. k \in Keys
    BY <1>0 DEF Threads
  <2>2. ASSUME NEW j \in Keys, SaveStrikes(Move(strikes, j, k, NoStrike))
        PROVE  StrikesWellFormed'
    BY <1>0, <2>1, <2>2, NoStrikeWellFormed
       DEF StrikesWellFormed, SaveStrikes, Move
  <2>3. QED
    BY <1>1, <1>6, <2>2 DEF MigrateStrikes
<1>7. ASSUME NEW verdict \in {"none", "pass", "fail"}, CloseVerdict(verdict)
      PROVE  StrikesWellFormed'
  <2> DEFINE k == thr["closer"].key
             e == thr["closer"].epoch
  <2>1. k \in Keys /\ e \in Epochs
    BY <1>0 DEF Threads
  <2>2. /\ WellFormed(RecordFailure(strikes[k], e, TRUE))
        /\ WellFormed(RecordCleanPass(strikes[k], e))
    BY <1>0, <2>1, RecordFailureWellFormed, RecordCleanPassWellFormed
       DEF StrikesWellFormed
  <2>3. \/ SaveStrikes([strikes EXCEPT ![k] = RecordFailure(@, e, TRUE)])
        \/ SaveStrikes([strikes EXCEPT ![k] = RecordCleanPass(@, e)])
        \/ UNCHANGED strikeVars
    BY <1>7 DEF CloseVerdict
  <2>4. QED
    BY <1>1, <1>2, <2>1, <2>2, <2>3 DEF SaveStrikes
<1>8. ASSUME ResetDb \/ ResetMemory \/ ResetEffective
      PROVE  StrikesWellFormed'
  BY <1>8, NoStrikeWellFormed
     DEF ResetDb, ResetMemory, ResetEffective, SaveStrikes, StrikesWellFormed
<1>9. ASSUME Crash PROVE StrikesWellFormed'
  <2>1. \A k \in Keys : Reload(strikesDb[k]) = strikesDb[k]
    BY <1>0, WellFormedReloads DEF StrikesWellFormed
  <2>2. strikesDb' = strikesDb
    BY <1>9 DEF Crash
  <2>3. \A k \in Keys : strikes'[k] \in {NoStrike, Reload(strikesDb[k])}
    BY <1>9 DEF Crash
  <2>4. QED
    BY <2>1, <2>2, <2>3, NoStrikeWellFormed DEF StrikesWellFormed
<1>10. QED
  BY <1>1, <1>3, <1>4, <1>5, <1>6, <1>7, <1>8, <1>9
     DEF Next, Environment, WorkerStep, SharedStep, CloserStep, MainStep,
         SetupStep, UpsertEntry, ClearIdentityDb, ClearIdentityTracker,
         StartNewEpoch, CapacityVerdict, ObligationMissed, OwnerPublishes,
         HardTestFails, LightTestFails, StoreReceipt,
         ReconcileLateHardPass, CapacityDb, CapacityTracker, Publish, Gate,
         Branch, TrackerWrite, DbWrite, RecoveryLedger, RecoveryTracker,
         RecoveryDb, MigrateIndex, CloseHard, CloseObligations, CloseGate,
         GateTracker, GateDb, CloseLifecycle,
         CloseEnterDb, CloseEnd, CloseRetry, ResetBegin, ResetTracker,
         strikeVars, vars

\* A restart always finds a strike ledger it accepts and restores it exactly,
\* whatever threads, epochs, migrations, resets and earlier restarts did to it
\* and whatever the thresholds: _load_hard_failure_strikes never falls back.
THEOREM LedgerAlwaysReloads == Spec => []LedgerReloads
<1>1. Init => StrikesWellFormed
  BY NoStrikeWellFormed DEF Init, StrikesWellFormed
<1>2. TypeOK /\ StrikesWellFormed => LedgerReloads
  BY WellFormedReloads DEF TypeOK, StrikesWellFormed, LedgerReloads
<1>3. QED
  BY <1>1, <1>2, TypeCorrect, StrikesStep, PTL DEF Spec

----------------------------------------------------------------------------
LEMMA CountTypes ==
  ASSUME TypeOK
  PROVE  /\ ledger \in [Keys -> Int] /\ counted \in [Keys -> [Epochs -> Nat]]
         /\ Epochs \subseteq Int
<1>1. -1 .. MaxEpoch \subseteq Int /\ Epochs \subseteq Int
  BY HardAuditAssumption DEF Epochs
<1>2. ledger \in [Keys -> -1 .. MaxEpoch]
      /\ counted \in [Keys -> [Epochs -> Nat]]
  BY DEF TypeOK
<1> QED
  BY <1>1, <1>2

\* Saving a later source epoch keeps every counted epoch on the ledger.
LEMMA LedgerGrows ==
  ASSUME TypeOK, CountedIsLedgered, NEW k \in Keys, NEW e \in Epochs,
         e > ledger[k], SaveLedger([ledger EXCEPT ![k] = e]),
         counted' = counted
  PROVE  CountedIsLedgered'
<1>1. /\ ledger \in [Keys -> Int] /\ counted \in [Keys -> [Epochs -> Nat]]
      /\ Epochs \subseteq Int
  BY CountTypes
<1>2. /\ ledger' = [ledger EXCEPT ![k] = e] /\ ledgerDb' = ledger'
  BY DEF SaveLedger
<1>3. \A j \in Keys : ledger'[j] \in Int /\ ledger'[j] >= ledger[j]
  BY <1>1, <1>2
<1>4. ASSUME NEW j \in Keys, NEW d \in Epochs, counted[j][d] >= 1
      PROVE  ledger'[j] >= d
  <2>1. ledger[j] >= d
    BY <1>4 DEF CountedIsLedgered
  <2>2. QED
    BY <1>1, <1>3, <2>1
<1>5. QED
  BY <1>2, <1>4 DEF CountedIsLedgered

LEMMA CountedStep ==
  TypeOK /\ CountedIsLedgered /\ [Next]_vars => CountedIsLedgered'
<1> SUFFICES ASSUME TypeOK, CountedIsLedgered, [Next]_vars
             PROVE  CountedIsLedgered'
  OBVIOUS
<1>0. \A t \in Threads : thr[t].key \in Keys /\ thr[t].epoch \in Epochs
  BY DEF TypeOK, ThreadType
<1>1. CASE UNCHANGED <<ledgerVars, counted>>
  BY <1>1 DEF CountedIsLedgered, ledgerVars
<1>2. ASSUME NEW k \in Keys, NEW e \in Epochs, MarkFailureEpoch(k, e),
             counted' = counted
      PROVE  CountedIsLedgered'
  BY <1>1, <1>2, LedgerGrows DEF MarkFailureEpoch
<1>3. ASSUME NEW w \in Workers, ReconcileLateHardPass(w)
      PROVE  CountedIsLedgered'
  <2>1. thr[w].key \in Keys /\ thr[w].epoch \in Epochs
    BY <1>0 DEF Threads
  <2>2. QED
    BY <1>1, <1>2, <1>3, <2>1 DEF ReconcileLateHardPass
<1>4. ASSUME NEW t \in Workers \cup {"closer"}, Publish(t)
      PROVE  CountedIsLedgered'
  <2>1. thr[t].key \in Keys /\ thr[t].epoch \in Epochs
    BY <1>0 DEF Threads
  <2>2. QED
    BY <1>1, <1>2, <1>4, <2>1 DEF Publish, ledgerVars
<1>5. ASSUME NEW t \in Workers \cup {"closer"}, RecoveryLedger(t)
      PROVE  CountedIsLedgered'
  <2> DEFINE k == thr[t].key
             e == thr[t].epoch
  <2>0. k \in Keys /\ e \in Epochs
    BY <1>0 DEF Threads
  <2>1. CASE ~(e > ledger[k] /\ tracker[k].on)
    BY <1>1, <1>5, <2>1 DEF RecoveryLedger
  <2>2. CASE e > ledger[k] /\ tracker[k].on
    <3>1. /\ ledger' = [ledger EXCEPT ![k] = e] /\ ledgerDb' = ledger'
          /\ counted' = [counted EXCEPT ![k][e] = @ + 1]
      BY <1>5, <2>2 DEF RecoveryLedger, SaveLedger
    <3>2. /\ ledger \in [Keys -> Int] /\ counted \in [Keys -> [Epochs -> Nat]]
          /\ Epochs \subseteq Int
      BY CountTypes
    <3>3. counted[k][e] = 0
      <4>1. counted[k][e] \in Nat /\ ledger[k] \in Int /\ e \in Int
        BY <2>0, <3>2
      <4>2. counted[k][e] >= 1 => ledger[k] >= e
        BY <2>0 DEF CountedIsLedgered
      <4> HIDE DEF k, e
      <4>3. QED
        BY <2>2, <4>1, <4>2
    <3>4. ASSUME NEW j \in Keys, NEW d \in Epochs
          PROVE  /\ counted'[j][d] <= 1
                 /\ counted'[j][d] >= 1 => ledger'[j] >= d
      <4>1. CASE j = k /\ d = e
        BY <2>0, <3>1, <3>2, <3>3, <4>1
      <4>2. CASE ~(j = k /\ d = e)
        <5>1. counted'[j][d] = counted[j][d]
          BY <2>0, <3>1, <3>2, <4>2
        <5>2. counted[j][d] <= 1 /\ (counted[j][d] >= 1 => ledger[j] >= d)
          BY DEF CountedIsLedgered
        <5>3. ledger'[j] >= ledger[j] /\ ledger'[j] \in Int
          <6>1. ledger[k] \in Int /\ ledger[j] \in Int /\ e \in Int
            BY <2>0, <3>2
          <6>2. ledger'[j] = IF j = k THEN e ELSE ledger[j]
            BY <2>0, <3>1, <3>2
          <6> HIDE DEF k, e
          <6>3. QED
            BY <2>2, <6>1, <6>2
        <5>4. QED
          BY <3>2, <5>1, <5>2, <5>3
      <4>3. QED
        BY <4>1, <4>2
    <3>5. QED
      BY <3>1, <3>4 DEF CountedIsLedgered
  <2>3. QED
    BY <2>1, <2>2
<1>6. ASSUME ResetDb \/ ResetMemory PROVE CountedIsLedgered'
  BY <1>6 DEF ResetDb, ResetMemory, NoneCounted, CountedIsLedgered
<1>7. ASSUME Crash PROVE CountedIsLedgered'
  BY <1>7 DEF Crash, CountedIsLedgered
<1>8. QED
  BY <1>1, <1>3, <1>4, <1>5, <1>6, <1>7
     DEF Next, Environment, WorkerStep, SharedStep, CloserStep, MainStep,
         SetupStep, UpsertEntry, ClearIdentityDb, ClearIdentityTracker,
         StartNewEpoch, CapacityVerdict, ObligationMissed, OwnerPublishes,
         HardTestFails, LightTestFails, HardTestPasses, StoreReceipt,
         CapacityDb, CapacityTracker, RecordStrike, Gate, Branch,
         TrackerWrite, DbWrite, RecoveryTracker, RecoveryDb, RecoveryClear,
         MigrateIndex, MigrateStrikes, CloseHard, CloseObligations,
         CloseVerdict, CloseGate, GateTracker, GateDb,
         CloseLifecycle, CloseEnterDb, CloseEnd, CloseRetry, ResetBegin,
         ResetTracker, ResetEffective, ledgerVars, vars

\* _record_probation_recovery_source_pass counts a source epoch of an entry
\* at most once between two resets, for any number of workers, late passes,
\* close retries and restarts: the ledger is saved before the pass is counted
\* and every writer of the ledger only moves an entry forward.
THEOREM RecoveryCountedOnce == Spec => []CountsOnce
<1>1. Init => CountedIsLedgered
  BY DEF Init, NoneCounted, CountedIsLedgered
<1>2. CountedIsLedgered => CountsOnce
  BY DEF CountedIsLedgered, CountsOnce
<1>3. QED
  BY <1>1, <1>2, TypeCorrect, CountedStep, PTL DEF Spec
----------------------------------------------------------------------------
(***************************************************************************)
(* The two stores.  The tracker and the database are written one after the  *)
(* other, without a common lock.  The invariant says what each thread       *)
(* between its writes knows of an entry it is alone with.                   *)
(***************************************************************************)
\* What one more pass makes of an entry.
AfterPass(p, n) ==
  CASE ~p.on -> p
    [] p.on /\ p.passes + 1 >= n -> OffProbation
    [] OTHER -> [p EXCEPT !.passes = @ + 1]

InStep(t, k) ==
  /\ thr[t].pc \in {"branch", "trkEnter", "recTracker", "gateTrk"} => Agree(k)
  /\ thr[t].pc = "trkFail" => Agree(k) /\ tracker[k].on
  /\ thr[t].pc \in {"dbEnter", "closeDb", "gateDb"} =>
       tracker[k].on /\ tracker[k].passes = 0
  /\ thr[t].pc = "dbFail" =>
       /\ tracker[k].on /\ tracker[k].passes = 0
       /\ db[k].on \/ k \in switched
  /\ thr[t].pc = "recDb" =>
       /\ db[k].on => /\ tracker[k].on = AfterPass(db[k], Required).on
                      /\ tracker[k].passes = AfterPass(db[k], Required).passes
       /\ tracker[k].on => db[k].on \/ k \in switched
  /\ thr[t].pc = "capTrk" => db[k].on /\ db[k].passes = 0
  /\ thr[t].pc = "rstDb" => ~tracker[k].on
  /\ thr[t].pc = "clrTrk" => ~db[k].on

\* Entries the stores may disagree on for good.
Exempt == disturbed \cup moved

StoresInv ==
  /\ Overlapped \subseteq disturbed
  /\ DbTracksTracker
  /\ \A k \in Keys \ Exempt : \A t \in Threads : Writing(t, k) => InStep(t, k)

\* What thread t knows of entry k when no other thread is writing it.
Local(t, k) == /\ Writing(t, k) => InStep(t, k)
               /\ ~Writing(t, k) => Agree(k)

\* A step forgets a model switch only of an entry it brings together again.
Kept == \A k \in Keys :
          k \in switched /\ tracker'[k].on /\ ~db'[k].on => k \in switched'

WritingPcs == {"branch", "trkEnter", "dbEnter", "trkFail", "dbFail", "closeDb",
               "recTracker", "recDb", "capTrk", "gateTrk", "gateDb", "rstDb",
               "clrTrk"}

\* What the history variables say after a step that notes overlaps.
LEMMA Noted ==
  ASSUME NoteOverlap
  PROVE  /\ Kept
         /\ disturbed \subseteq disturbed' /\ Overlapped' \subseteq disturbed'
         /\ moved' = moved
BY DEF NoteOverlap, Kept

\* A step of one thread keeps the invariant if, on every entry that no two
\* threads are writing, it touches only what it is writing and keeps what it
\* knows.
LEMMA OneThread ==
  ASSUME StoresInv, NEW t \in Threads, Kept,
         \A u \in Threads \ {t} : thr'[u] = thr[u],
         disturbed \subseteq disturbed', Overlapped' \subseteq disturbed',
         moved \subseteq moved',
         \A k \in Keys \ Exempt' :
           /\ ~Writing(t, k) /\ ~Writing(t, k)' =>
                tracker'[k] = tracker[k] /\ db'[k] = db[k]
           /\ Local(t, k) => Local(t, k)'
  PROVE  StoresInv'
<1> SUFFICES ASSUME NEW k \in Keys \ Exempt'
             PROVE  /\ (\A u \in Threads : ~Writing(u, k)') => Agree(k)'
                    /\ \A u \in Threads : Writing(u, k)' => InStep(u, k)'
  BY DEF StoresInv, DbTracksTracker, Exempt
<1>1. /\ k \in Keys /\ k \notin Exempt /\ k \notin disturbed
      /\ k \notin Overlapped /\ k \notin Overlapped'
  BY DEF StoresInv, Exempt
<1>2. \A u \in Threads \ {t} : Writing(u, k)' <=> Writing(u, k)
  BY DEF Writing
<1>3. CASE \E u \in Threads \ {t} : Writing(u, k)
  <2>1. PICK u \in Threads \ {t} : Writing(u, k)
    BY <1>3
  <2>2. ~Writing(t, k) /\ ~Writing(t, k)'
    BY <1>1, <1>2, <2>1 DEF Overlapped
  <2>3. tracker'[k] = tracker[k] /\ db'[k] = db[k]
    BY <2>2
  <2>4. \A v \in Threads : Writing(v, k)' => v = u
    BY <1>1, <1>2, <2>1 DEF Overlapped
  <2>5. InStep(u, k)
    BY <1>1, <2>1 DEF StoresInv
  <2>6. k \in switched /\ tracker[k].on /\ ~db[k].on => k \in switched'
    BY <1>1, <2>3 DEF Kept
  <2>7. InStep(u, k)'
    <3>1. thr'[u] = thr[u]
      OBVIOUS
    <3> QED
      BY <2>3, <2>5, <2>6, <3>1 DEF InStep, Agree
  <2> QED
    BY <1>2, <2>1, <2>4, <2>7
<1>4. CASE ~\E u \in Threads \ {t} : Writing(u, k)
  <2>1. Local(t, k)
    BY <1>1, <1>4 DEF StoresInv, Local, DbTracksTracker, Exempt
  <2>2. Local(t, k)'
    BY <2>1
  <2> QED
    BY <1>2, <1>4, <2>2 DEF Local
<1> QED
  BY <1>3, <1>4

\* The same when the thread writes nothing, before or after.
LEMMA QuietThread ==
  ASSUME StoresInv, NEW t \in Threads,
         \A u \in Threads \ {t} : thr'[u] = thr[u],
         thr[t].pc \notin WritingPcs, thr'[t].pc \notin WritingPcs,
         UNCHANGED probation, NoteOverlap
  PROVE  StoresInv'
<1>1. \A k \in Keys : ~Writing(t, k) /\ ~Writing(t, k)'
  BY DEF Writing, WritingPcs
<1>2. \A k \in Keys : Local(t, k) => Local(t, k)'
  BY <1>1, Noted DEF Local, Agree, Kept, probation
<1> QED
  BY <1>2, Noted, OneThread DEF probation

\* A step that leaves the threads and the stores alone.
LEMMA NoThreadMoves ==
  ASSUME StoresInv, UNCHANGED <<thr, tracker, db, history>>
  PROVE  StoresInv'
<1>1. UNCHANGED <<thr, tracker, db, disturbed, switched, moved>>
  BY DEF history
<1>2. /\ \A k : Agree(k)' <=> Agree(k)
      /\ \A t, k : Writing(t, k)' <=> Writing(t, k)
      /\ \A t, k : InStep(t, k)' <=> InStep(t, k)
      /\ Exempt' = Exempt
  BY <1>1 DEF Agree, Writing, InStep, Exempt
<1> QED
  BY <1>1, <1>2 DEF StoresInv, DbTracksTracker, Overlapped, Exempt

\* Writing an entry of a store.
LEMMA StoreWrites ==
  ASSUME NEW p \in [Keys -> ProbationType], NEW k \in Keys
  PROVE  /\ \A e \in Epochs :
              /\ Enter(p, k, e)[k].on /\ Enter(p, k, e)[k].passes = 0
              /\ \A j \in Keys \ {k} : Enter(p, k, e)[j] = p[j]
         /\ p[k].on => ResetPasses(p, k)[k].on /\ ResetPasses(p, k)[k].passes = 0
         /\ ~p[k].on => ResetPasses(p, k)[k] = p[k]
         /\ \A j \in Keys \ {k} : ResetPasses(p, k)[j] = p[j]
         /\ \A n \in Nat :
              /\ CountPass(p, k, n)[k] = AfterPass(p[k], n)
              /\ \A j \in Keys \ {k} : CountPass(p, k, n)[j] = p[j]
<1>1. \A e \in Epochs :
        /\ Enter(p, k, e)[k].on /\ Enter(p, k, e)[k].passes = 0
        /\ \A j \in Keys \ {k} : Enter(p, k, e)[j] = p[j]
  BY DEF Enter, ProbationType
<1>2. /\ p[k].on => ResetPasses(p, k)[k].on /\ ResetPasses(p, k)[k].passes = 0
      /\ ~p[k].on => ResetPasses(p, k)[k] = p[k]
  BY DEF ResetPasses, ProbationType
<1>3. \A j \in Keys \ {k} : ResetPasses(p, k)[j] = p[j]
  BY DEF ResetPasses
<1>4. \A n \in Nat :
        /\ CountPass(p, k, n)[k] = AfterPass(p[k], n)
        /\ \A j \in Keys \ {k} : CountPass(p, k, n)[j] = p[j]
  BY DEF CountPass, AfterPass
<1> QED
  BY <1>1, <1>2, <1>3, <1>4

\* Entries that agree still do after one pass each.
LEMMA PassesAgree ==
  ASSUME NEW p \in ProbationType, NEW q \in ProbationType, NEW n \in Nat,
         p.on = q.on, p.passes = q.passes
  PROVE  /\ AfterPass(p, n).on = AfterPass(q, n).on
         /\ AfterPass(p, n).passes = AfterPass(q, n).passes
BY DEF AfterPass, ProbationType

\* A write of one entry, after which the thread is through with it or goes on.
LEMMA LastWrite ==
  ASSUME NEW t \in Threads, NEW k0 \in Keys, Kept, thr[t].key = k0,
         thr[t].pc \in WritingPcs \ {"rstDb", "clrTrk"},
         thr'[t].pc \notin WritingPcs,
         \A j \in Keys \ {k0} : tracker'[j] = tracker[j] /\ db'[j] = db[j],
         InStep(t, k0) => Agree(k0)'
  PROVE  \A k \in Keys : Local(t, k) => Local(t, k)'
<1> SUFFICES ASSUME NEW k \in Keys, Local(t, k) PROVE Local(t, k)'
  OBVIOUS
<1>1. ~Writing(t, k)' /\ (Writing(t, k) <=> k = k0)
  BY DEF Writing, WritingPcs
<1>2. CASE k = k0
  BY <1>1, <1>2 DEF Local
<1>3. CASE k # k0
  <2>1. Agree(k) /\ tracker'[k] = tracker[k] /\ db'[k] = db[k]
    BY <1>1, <1>3 DEF Local
  <2>2. Agree(k)'
    BY <2>1 DEF Agree, Kept
  <2> QED
    BY <1>1, <2>2 DEF Local
<1> QED
  BY <1>2, <1>3

LEMMA NextWrite ==
  ASSUME NEW t \in Threads, NEW k0 \in Keys, Kept,
         thr[t].key = k0, thr'[t].key = k0,
         thr[t].pc \in WritingPcs \ {"rstDb", "clrTrk"},
         thr'[t].pc \in WritingPcs \ {"rstDb", "clrTrk"},
         \A j \in Keys \ {k0} : tracker'[j] = tracker[j] /\ db'[j] = db[j],
         InStep(t, k0) => InStep(t, k0)'
  PROVE  \A k \in Keys : Local(t, k) => Local(t, k)'
<1> SUFFICES ASSUME NEW k \in Keys, Local(t, k) PROVE Local(t, k)'
  OBVIOUS
<1>1. (Writing(t, k) <=> k = k0) /\ (Writing(t, k)' <=> k = k0)
  BY DEF Writing, WritingPcs
<1>2. CASE k = k0
  BY <1>1, <1>2 DEF Local
<1>3. CASE k # k0
  <2>1. Agree(k) /\ tracker'[k] = tracker[k] /\ db'[k] = db[k]
    BY <1>1, <1>3 DEF Local
  <2>2. Agree(k)'
    BY <2>1 DEF Agree, Kept
  <2> QED
    BY <1>1, <1>3, <2>2 DEF Local
<1> QED
  BY <1>2, <1>3

\* Where a thread is after Goto, Done and Begin.
LEMMA ThreadMoves ==
  ASSUME TypeOK, NEW t \in Threads
  PROVE  /\ \A p : Goto(t, p) => /\ thr'[t].pc = p /\ thr'[t].key = thr[t].key
                                 /\ \A u \in Threads \ {t} : thr'[u] = thr[u]
         /\ Done(t) => /\ thr'[t].pc = "idle"
                       /\ \A u \in Threads \ {t} : thr'[u] = thr[u]
         /\ \A p, k, e, h :
              Begin(t, p, k, e, h) =>
                /\ thr'[t].pc = p /\ thr'[t].key = k
                /\ \A u \in Threads \ {t} : thr'[u] = thr[u]
         /\ \A b, p :
              thr' = [thr EXCEPT ![t].pen = b, ![t].pc = p] =>
                /\ thr'[t].pc = p /\ thr'[t].key = thr[t].key
                /\ \A u \in Threads \ {t} : thr'[u] = thr[u]
<1>1. thr \in [Threads -> ThreadType]
  BY DEF TypeOK
<1>2. ASSUME NEW p, Goto(t, p)
      PROVE  /\ thr'[t].pc = p /\ thr'[t].key = thr[t].key
             /\ \A u \in Threads \ {t} : thr'[u] = thr[u]
  BY <1>1, <1>2 DEF Goto, ThreadType
<1>3. ASSUME Done(t)
      PROVE  /\ thr'[t].pc = "idle"
             /\ \A u \in Threads \ {t} : thr'[u] = thr[u]
  BY <1>1, <1>3 DEF Done, Idle
<1>4. ASSUME NEW p, NEW k, NEW e, NEW h, Begin(t, p, k, e, h)
      PROVE  /\ thr'[t].pc = p /\ thr'[t].key = k
             /\ \A u \in Threads \ {t} : thr'[u] = thr[u]
  BY <1>1, <1>4 DEF Begin, Idle
<1>5. ASSUME NEW b, NEW p, thr' = [thr EXCEPT ![t].pen = b, ![t].pc = p]
      PROVE  /\ thr'[t].pc = p /\ thr'[t].key = thr[t].key
             /\ \A u \in Threads \ {t} : thr'[u] = thr[u]
  <2> DEFINE r == [thr[t] EXCEPT !.pen = b, !.pc = p]
  <2>1. thr' = [thr EXCEPT ![t] = r]
    BY <1>1, <1>5 DEF ThreadType
  <2>2. r.pc = p /\ r.key = thr[t].key
    BY <1>1 DEF ThreadType
  <2> HIDE DEF r
  <2> QED
    BY <1>1, <2>1, <2>2
<1> QED
  BY <1>2, <1>3, <1>4, <1>5

\* The thread's entry and epoch.
LEMMA ThreadEntry ==
  ASSUME TypeOK, NEW t \in Threads
  PROVE  thr[t].key \in Keys /\ thr[t].epoch \in Epochs
BY DEF TypeOK, ThreadType

\* The steps of a thread that leave the stores alone and begin no writing.
LEMMA QuietSteps ==
  ASSUME TypeOK, StoresInv, NEW w \in Workers, NEW e \in Epochs,
         \/ HardTestFails(w, e) \/ LightTestFails(w, e) \/ HardTestPasses(w, e)
         \/ StoreReceipt(w) \/ ReconcileLateHardPass(w)
  PROVE  StoresInv'
<1>1. w \in Threads
  BY DEF Threads
<1>2. /\ thr[w].pc \notin WritingPcs /\ thr'[w].pc \notin WritingPcs
      /\ \A u \in Threads \ {w} : thr'[u] = thr[u]
  <2>1. CASE HardTestFails(w, e)
    BY <1>1, <2>1, ThreadMoves DEF HardTestFails, At, WritingPcs
  <2>2. CASE LightTestFails(w, e)
    BY <1>1, <2>2, ThreadMoves DEF LightTestFails, At, WritingPcs
  <2>3. CASE HardTestPasses(w, e)
    BY <1>1, <2>3, ThreadMoves DEF HardTestPasses, At, WritingPcs
  <2>4. CASE StoreReceipt(w)
    BY <1>1, <2>4, ThreadMoves DEF StoreReceipt, At, WritingPcs
  <2>5. CASE ReconcileLateHardPass(w)
    <3>1. Goto(w, "receipt") \/ Goto(w, "recLedger")
      BY <2>5 DEF ReconcileLateHardPass
    <3> QED
      BY <1>1, <2>5, <3>1, ThreadMoves DEF ReconcileLateHardPass, At, WritingPcs
  <2> QED
    BY <2>1, <2>2, <2>3, <2>4, <2>5
<1>3. UNCHANGED probation /\ NoteOverlap
  BY DEF HardTestFails, LightTestFails, HardTestPasses, StoreReceipt,
         ReconcileLateHardPass
<1> QED
  BY <1>1, <1>2, <1>3, QuietThread

LEMMA QuietSharedSteps ==
  ASSUME TypeOK, StoresInv, NEW t \in Workers \cup {"closer"},
         RecordStrike(t) \/ Publish(t) \/ RecoveryClear(t)
  PROVE  StoresInv'
<1>1. t \in Threads
  BY DEF Threads
<1>2. /\ thr[t].pc \notin WritingPcs /\ thr'[t].pc \notin WritingPcs
      /\ \A u \in Threads \ {t} : thr'[u] = thr[u]
  <2>1. CASE RecordStrike(t)
    <3>1. PICK b : thr' = [thr EXCEPT ![t].pen = b, ![t].pc = "publish"]
      BY <2>1 DEF RecordStrike
    <3>2. thr[t].pc = "strike"
      BY <2>1 DEF RecordStrike, At
    <3>3. /\ thr'[t].pc = "publish" /\ thr'[t].key = thr[t].key
          /\ \A u \in Threads \ {t} : thr'[u] = thr[u]
      BY <1>1, <3>1, ThreadMoves
    <3> QED
      BY <3>2, <3>3 DEF WritingPcs
  <2>2. CASE Publish(t)
    BY <1>1, <2>2, ThreadMoves DEF Publish, At, WritingPcs
  <2>3. CASE RecoveryClear(t)
    BY <1>1, <2>3, ThreadMoves DEF RecoveryClear, AfterRecovery, At, WritingPcs
  <2> QED
    BY <2>1, <2>2, <2>3
<1>3. UNCHANGED probation /\ NoteOverlap
  BY DEF RecordStrike, Publish, RecoveryClear
<1> QED
  BY <1>1, <1>2, <1>3, QuietThread

LEMMA QuietCloserSteps ==
  ASSUME TypeOK, StoresInv,
         \/ \E grace \in Grace, deferred, untested \in BOOLEAN :
              CloseHard(grace, deferred, untested)
         \/ CloseObligations
         \/ \E verdict \in {"none", "pass", "fail"} : CloseVerdict(verdict)
         \/ CloseEnd \/ MigrateStrikes
  PROVE  StoresInv'
<1> DEFINE t == "closer"
<1>1. t \in Threads
  BY DEF Threads
<1>2. /\ thr[t].pc \notin WritingPcs /\ thr'[t].pc \notin WritingPcs
      /\ \A u \in Threads \ {t} : thr'[u] = thr[u]
  <2>1. CASE \E grace \in Grace, deferred, untested \in BOOLEAN :
               CloseHard(grace, deferred, untested)
    <3>1. PICK grace \in Grace, deferred \in BOOLEAN, untested \in BOOLEAN :
            CloseHard(grace, deferred, untested)
      BY <2>1
    <3> DEFINE e == thr[t].epoch
               cont == "excused" \in outcome[e] \/ untested
               p == CASE cont -> "closeGate"
                      [] /\ ~cont
                         /\ "fail" \in outcome[e]
                         /\ ~deferred -> "strike"
                      [] OTHER -> "closeObl"
               u == [thr[t] EXCEPT !.skip = grace \/ Covers(e),
                                   !.clean = ~deferred, !.cont = cont, !.pc = p]
    <3>2. thr[t].pc = "closeHard" /\ thr' = [thr EXCEPT ![t] = u]
      BY <3>1 DEF CloseHard, At
    <3>3. p \in {"closeGate", "strike", "closeObl"}
      OBVIOUS
    <3>4. u.pc = p
      BY <1>1 DEF TypeOK, ThreadType
    <3> HIDE DEF u, p
    <3>5. thr'[t] = u /\ \A v \in Threads \ {t} : thr'[v] = thr[v]
      BY <1>1, <3>2 DEF TypeOK
    <3> QED
      BY <3>2, <3>3, <3>4, <3>5 DEF WritingPcs
  <2>2. CASE CloseObligations
    BY <1>1, <2>2 DEF CloseObligations, At, WritingPcs, TypeOK, ThreadType
  <2>3. CASE \E verdict \in {"none", "pass", "fail"} : CloseVerdict(verdict)
    BY <1>1, <2>3 DEF CloseVerdict, At, WritingPcs, TypeOK, ThreadType
  <2>4. CASE CloseEnd \/ MigrateStrikes
    BY <1>1, <2>4, ThreadMoves DEF CloseEnd, MigrateStrikes, At, WritingPcs
  <2> QED
    BY <2>1, <2>2, <2>3, <2>4
<1>3. UNCHANGED probation /\ NoteOverlap
  BY DEF CloseHard, CloseObligations, CloseVerdict, CloseEnd, MigrateStrikes
<1> QED
  BY <1>1, <1>2, <1>3, QuietThread

LEMMA QuietMainSteps ==
  ASSUME TypeOK, StoresInv, ResetBegin \/ ResetMemory \/ ResetEffective
  PROVE  StoresInv'
<1> DEFINE t == "main"
<1>1. t \in Threads
  BY DEF Threads
<1>2. /\ thr[t].pc \notin WritingPcs /\ thr'[t].pc \notin WritingPcs
      /\ \A u \in Threads \ {t} : thr'[u] = thr[u]
  <2>1. CASE ResetBegin
    BY <1>1, <2>1, ThreadMoves DEF ResetBegin, At, WritingPcs
  <2>2. CASE ResetMemory
    BY <1>1, <2>2, ThreadMoves DEF ResetMemory, At, WritingPcs
  <2>3. CASE ResetEffective
    BY <1>1, <2>3, ThreadMoves DEF ResetEffective, At, WritingPcs
  <2> QED
    BY <2>1, <2>2, <2>3
<1>3. UNCHANGED probation /\ NoteOverlap
  BY DEF ResetBegin, ResetMemory, ResetEffective
<1> QED
  BY <1>1, <1>2, <1>3, QuietThread

\* The branch is chosen and the tracker written under separate locks.
LEMMA FailureSteps ==
  ASSUME TypeOK, StoresInv, NEW t \in Workers \cup {"closer"},
         Gate(t) \/ Branch(t) \/ TrackerWrite(t) \/ DbWrite(t)
  PROVE  StoresInv'
<1> DEFINE k0 == thr[t].key
<1>1. t \in Threads /\ k0 \in Keys /\ thr[t].epoch \in Epochs
  BY ThreadEntry DEF Threads
<1>2. tracker \in [Keys -> ProbationType] /\ db \in [Keys -> ProbationType]
  BY DEF TypeOK
<1>3. NoteOverlap
  BY DEF Gate, Branch, TrackerWrite, DbWrite
<1>4. /\ Kept /\ moved \subseteq moved'
      /\ disturbed \subseteq disturbed' /\ Overlapped' \subseteq disturbed'
  BY <1>3, Noted
<1>5. CASE Gate(t)
  <2>1. /\ UNCHANGED <<tracker, db>> /\ thr[t].pc = "gate"
        /\ \/ thr'[t].pc = "branch" /\ thr'[t].key = k0
           \/ thr'[t].pc \in {"idle", "closeClean"}
        /\ \A u \in Threads \ {t} : thr'[u] = thr[u]
    BY <1>1, <1>5, ThreadMoves DEF Gate, AfterFailure, At, probation
  <2>2. \A k \in Keys : Local(t, k) => Local(t, k)'
    BY <1>4, <2>1 DEF Local, Writing, InStep, Agree, Kept
  <2> QED
    BY <1>1, <1>4, <2>1, <2>2, OneThread
<1>6. CASE Branch(t)
  <2>1. /\ UNCHANGED <<tracker, db>> /\ thr[t].pc = "branch"
        /\ \/ thr'[t].pc = "trkFail" /\ tracker[k0].on
           \/ thr'[t].pc = "trkEnter"
        /\ thr'[t].key = k0
        /\ \A u \in Threads \ {t} : thr'[u] = thr[u]
    BY <1>1, <1>6, ThreadMoves DEF Branch, At, probation
  <2>2. \A k \in Keys : Local(t, k) => Local(t, k)'
    BY <1>4, <2>1 DEF Local, Writing, InStep, Agree, Kept
  <2> QED
    BY <1>1, <1>4, <2>1, <2>2, OneThread
<1>7. CASE TrackerWrite(t)
  <2>1. /\ UNCHANGED db
        /\ \/ /\ thr[t].pc = "trkEnter" /\ thr'[t].pc = "dbEnter"
              /\ tracker' = Enter(tracker, k0, thr[t].epoch)
           \/ /\ thr[t].pc = "trkFail" /\ thr'[t].pc = "dbFail"
              /\ tracker' = ResetPasses(tracker, k0)
        /\ thr'[t].key = k0
        /\ \A u \in Threads \ {t} : thr'[u] = thr[u]
    BY <1>1, <1>7, ThreadMoves DEF TrackerWrite, At
  <2>2. /\ \A j \in Keys \ {k0} : tracker'[j] = tracker[j]
        /\ thr[t].pc = "trkEnter" \/ tracker[k0].on =>
             tracker'[k0].on /\ tracker'[k0].passes = 0
    BY <1>1, <1>2, <2>1, StoreWrites
  <2>3. \A k \in Keys : Local(t, k) => Local(t, k)'
    BY <1>4, <1>1, <2>1, <2>2 DEF Local, Writing, InStep, Agree, Kept
  <2>4. \A k \in Keys : ~Writing(t, k) => tracker'[k] = tracker[k] /\ db'[k] = db[k]
    BY <1>1, <2>1, <2>2 DEF Writing
  <2> QED
    BY <1>1, <1>4, <2>1, <2>3, <2>4, OneThread
<1>8. CASE DbWrite(t)
  <2>1. /\ UNCHANGED tracker
        /\ \/ thr[t].pc = "dbEnter" /\ db' = Enter(db, k0, thr[t].epoch)
           \/ thr[t].pc = "dbFail" /\ db' = ResetPasses(db, k0)
        /\ thr'[t].pc \in {"idle", "closeClean"}
        /\ \A u \in Threads \ {t} : thr'[u] = thr[u]
    BY <1>1, <1>8, ThreadMoves DEF DbWrite, AfterFailure, At
  <2>2. /\ \A j \in Keys \ {k0} : db'[j] = db[j]
        /\ thr[t].pc = "dbEnter" \/ db[k0].on => db'[k0].on /\ db'[k0].passes = 0
        /\ thr[t].pc = "dbFail" /\ ~db[k0].on => db'[k0] = db[k0]
    BY <1>1, <1>2, <2>1, StoreWrites
  <2>3. PICK k \in Keys : k = thr[t].key
    BY <1>1
  <2>4. InStep(t, k) => Agree(k)'
    <3> SUFFICES ASSUME InStep(t, k) PROVE Agree(k)'
      OBVIOUS
    <3>1. tracker'[k].on /\ tracker'[k].passes = 0
      BY <2>1, <2>3 DEF InStep
    <3>2. CASE thr[t].pc = "dbEnter" \/ db[k].on
      BY <2>2, <2>3, <3>1, <3>2 DEF Agree
    <3>3. CASE thr[t].pc = "dbFail" /\ ~db[k].on
      <4>1. k \in switched /\ ~db'[k].on
        BY <2>2, <2>3, <3>3 DEF InStep
      <4>2. k \in switched'
        BY <1>4, <3>1, <4>1 DEF Kept
      <4> QED
        BY <3>1, <4>1, <4>2 DEF Agree
    <3> QED
      BY <2>1, <3>2, <3>3
  <2>6. \A j \in Keys : Local(t, j) => Local(t, j)'
    <3>1. /\ thr[t].pc \in WritingPcs \ {"rstDb", "clrTrk"}
          /\ thr'[t].pc \notin WritingPcs
      BY <2>1 DEF WritingPcs
    <3>2. \A j \in Keys \ {k} : tracker'[j] = tracker[j] /\ db'[j] = db[j]
      BY <2>1, <2>2, <2>3
    <3> QED
      BY <1>1, <1>4, <2>3, <2>4, <3>1, <3>2, LastWrite
  <2>5. \A j \in Keys : ~Writing(t, j) => tracker'[j] = tracker[j] /\ db'[j] = db[j]
    BY <1>1, <2>1, <2>2 DEF Writing
  <2> QED
    BY <1>1, <1>4, <2>1, <2>5, <2>6, OneThread
<1> QED
  BY <1>5, <1>6, <1>7, <1>8

\* A pass is counted in the tracker and then in the database, under the
\* recovery lock only.
LEMMA RecoverySteps ==
  ASSUME TypeOK, StoresInv, Required = DbRequired,
         NEW t \in Workers \cup {"closer"},
         RecoveryLedger(t) \/ RecoveryTracker(t) \/ RecoveryDb(t)
  PROVE  StoresInv'
<1> DEFINE k0 == thr[t].key
<1>1. t \in Threads /\ k0 \in Keys
  BY ThreadEntry DEF Threads
<1>2. tracker \in [Keys -> ProbationType] /\ db \in [Keys -> ProbationType]
  BY DEF TypeOK
<1>3. NoteOverlap
  BY DEF RecoveryLedger, RecoveryTracker, RecoveryDb
<1>4. /\ Kept /\ moved \subseteq moved'
      /\ disturbed \subseteq disturbed' /\ Overlapped' \subseteq disturbed'
  BY <1>3, Noted
<1>5. Required \in Nat
  BY HardAuditAssumption
<1>6. CASE RecoveryLedger(t)
  <2>1. /\ UNCHANGED <<tracker, db>> /\ thr[t].pc = "recLedger"
        /\ \/ thr'[t].pc = "recTracker" /\ thr'[t].key = k0
           \/ thr'[t].pc \in {"receipt", "closeEnd"}
        /\ \A u \in Threads \ {t} : thr'[u] = thr[u]
    BY <1>1, <1>6, ThreadMoves DEF RecoveryLedger, AfterRecovery, At, probation
  <2>2. \A k \in Keys : Local(t, k) => Local(t, k)'
    BY <1>4, <2>1 DEF Local, Writing, InStep, Agree, Kept
  <2> QED
    BY <1>1, <1>4, <2>1, <2>2, OneThread
<1>7. CASE RecoveryTracker(t)
  <2>1. /\ UNCHANGED db /\ thr[t].pc = "recTracker" /\ thr'[t].pc = "recDb"
        /\ tracker' = CountPass(tracker, k0, Required)
        /\ thr'[t].key = k0
        /\ \A u \in Threads \ {t} : thr'[u] = thr[u]
    <3>1. PICK b : thr' = [thr EXCEPT ![t].pen = b, ![t].pc = "recDb"]
      BY <1>7 DEF RecoveryTracker
    <3>2. /\ thr'[t].pc = "recDb" /\ thr'[t].key = k0
          /\ \A u \in Threads \ {t} : thr'[u] = thr[u]
      BY <1>1, <3>1, ThreadMoves
    <3> QED
      BY <1>7, <3>2 DEF RecoveryTracker, At
  <2>2. /\ \A j \in Keys \ {k0} : tracker'[j] = tracker[j]
        /\ tracker'[k0] = AfterPass(tracker[k0], Required)
    BY <1>1, <1>2, <1>5, <2>1, StoreWrites
  <2>3. InStep(t, k0) => InStep(t, k0)'
    <3> SUFFICES ASSUME Agree(k0) PROVE InStep(t, k0)'
      BY <2>1 DEF InStep
    <3>1. db[k0].on => /\ tracker'[k0].on = AfterPass(db[k0], Required).on
                       /\ tracker'[k0].passes = AfterPass(db[k0], Required).passes
      BY <1>1, <1>2, <1>5, <2>2, PassesAgree DEF Agree, ProbationType
    <3>2. tracker'[k0].on => tracker[k0].on
      BY <1>1, <1>2, <2>2 DEF AfterPass, ProbationType, OffProbation
    <3>3. tracker'[k0].on => db[k0].on \/ k0 \in switched'
      BY <1>1, <1>4, <2>1, <3>2 DEF Agree, Kept
    <3> QED
      BY <2>1, <3>1, <3>3 DEF InStep
  <2>4. \A k \in Keys : Local(t, k) => Local(t, k)'
    BY <1>1, <1>4, <2>1, <2>2, <2>3, NextWrite DEF WritingPcs
  <2>5. \A k \in Keys : ~Writing(t, k) => tracker'[k] = tracker[k] /\ db'[k] = db[k]
    BY <1>1, <2>1, <2>2 DEF Writing
  <2> QED
    BY <1>1, <1>4, <2>1, <2>4, <2>5, OneThread
<1>8. CASE RecoveryDb(t)
  <2>1. /\ UNCHANGED tracker /\ thr[t].pc = "recDb" /\ thr'[t].pc = "recClear"
        /\ db' = CountPass(db, k0, Required)
        /\ thr'[t].key = k0
        /\ \A u \in Threads \ {t} : thr'[u] = thr[u]
    BY <1>1, <1>8, ThreadMoves DEF RecoveryDb, At
  <2>2. /\ \A j \in Keys \ {k0} : db'[j] = db[j]
        /\ db'[k0] = AfterPass(db[k0], Required)
    BY <1>1, <1>2, <1>5, <2>1, StoreWrites
  <2>3. \A k \in Keys : Local(t, k) => Local(t, k)'
    <3>1. InStep(t, k0) => Agree(k0)'
      <4> SUFFICES ASSUME InStep(t, k0) PROVE Agree(k0)'
        OBVIOUS
      <4>1. CASE db[k0].on
        BY <1>1, <1>2, <2>1, <2>2, <4>1 DEF InStep, Agree, AfterPass, ProbationType
      <4>2. CASE ~db[k0].on
        <5>1. db'[k0] = db[k0]
          BY <2>2, <4>2 DEF AfterPass
        <5>2. tracker[k0].on => k0 \in switched
          BY <2>1, <4>2 DEF InStep
        <5>3. tracker'[k0].on => k0 \in switched'
          BY <1>1, <1>4, <2>1, <4>2, <5>1, <5>2 DEF Kept
        <5> QED
          BY <2>1, <4>2, <5>1, <5>3 DEF Agree
      <4> QED
        BY <4>1, <4>2
    <3> QED
      BY <1>1, <1>4, <2>1, <2>2, <3>1, LastWrite DEF WritingPcs
  <2>4. \A k \in Keys : ~Writing(t, k) => tracker'[k] = tracker[k] /\ db'[k] = db[k]
    BY <1>1, <2>1, <2>2 DEF Writing
  <2> QED
    BY <1>1, <1>4, <2>1, <2>3, <2>4, OneThread
<1> QED
  BY <1>6, <1>7, <1>8

\* The close writes the tracker and then the database.
LEMMA LifecycleSteps ==
  ASSUME TypeOK, StoresInv, CloseLifecycle \/ CloseEnterDb
  PROVE  StoresInv'
<1> DEFINE t == "closer"
           k0 == thr[t].key
<1>1. t \in Threads /\ k0 \in Keys /\ thr[t].epoch \in Epochs
  BY ThreadEntry DEF Threads
<1>2. tracker \in [Keys -> ProbationType] /\ db \in [Keys -> ProbationType]
  BY DEF TypeOK
<1>3. NoteOverlap
  BY DEF CloseLifecycle, CloseEnterDb
<1>4. /\ Kept /\ moved \subseteq moved'
      /\ disturbed \subseteq disturbed' /\ Overlapped' \subseteq disturbed'
  BY <1>3, Noted
<1>5. CASE CloseLifecycle
  <2> DEFINE failed == (thr[t].obl \/ thr[t].pen) /\ ~thr[t].skip
             p == CASE failed -> "closeDb"
                    [] ~failed /\ tracker[k0].on /\ thr[t].clean -> "recLedger"
                    [] OTHER -> "closeEnd"
  <2>1. /\ UNCHANGED db /\ thr[t].pc = "closeLife"
        /\ tracker' = IF failed THEN Enter(tracker, k0, thr[t].epoch) ELSE tracker
        /\ Goto(t, p)
    BY <1>5 DEF CloseLifecycle, At
  <2>2. /\ failed => p = "closeDb"
        /\ ~failed => p \in {"recLedger", "closeEnd"}
    OBVIOUS
  <2>3. /\ thr'[t].pc = p /\ thr'[t].key = k0
        /\ \A u \in Threads \ {t} : thr'[u] = thr[u]
    BY <1>1, <2>1, ThreadMoves
  <2> HIDE DEF failed, p
  <2>4. /\ \A j \in Keys \ {k0} : tracker'[j] = tracker[j]
        /\ failed => tracker'[k0].on /\ tracker'[k0].passes = 0
        /\ ~failed => tracker'[k0] = tracker[k0]
    BY <1>1, <1>2, <2>1, StoreWrites
  <2>5. \A k \in Keys : Local(t, k) => Local(t, k)'
    BY <1>4, <1>1, <2>1, <2>2, <2>3, <2>4 DEF Local, Writing, InStep, Agree, Kept
  <2>6. \A k \in Keys : ~Writing(t, k) /\ ~Writing(t, k)' =>
                          tracker'[k] = tracker[k] /\ db'[k] = db[k]
    BY <1>1, <2>1, <2>2, <2>3, <2>4 DEF Writing
  <2> QED
    BY <1>1, <1>4, <2>3, <2>5, <2>6, OneThread
<1>6. CASE CloseEnterDb
  <2>1. /\ UNCHANGED tracker /\ thr[t].pc = "closeDb" /\ thr'[t].pc = "closeEnd"
        /\ db' = Enter(db, k0, thr[t].epoch)
        /\ \A u \in Threads \ {t} : thr'[u] = thr[u]
    BY <1>1, <1>6, ThreadMoves DEF CloseEnterDb, At
  <2>2. /\ \A j \in Keys \ {k0} : db'[j] = db[j]
        /\ db'[k0].on /\ db'[k0].passes = 0
    BY <1>1, <1>2, <2>1, StoreWrites
  <2>3. \A k \in Keys : tracker[k].on \in BOOLEAN /\ db'[k].on \in BOOLEAN
    <3>1. db' \in [Keys -> ProbationType]
      BY <1>1, <1>2, <2>1, EnterType
    <3> QED
      BY <1>2, <3>1 DEF ProbationType
  <2>4. \A k \in Keys : Local(t, k) => Local(t, k)'
    BY <1>4, <1>1, <2>1, <2>2, <2>3 DEF Local, Writing, InStep, Agree, Kept
  <2>5. \A k \in Keys : ~Writing(t, k) => tracker'[k] = tracker[k] /\ db'[k] = db[k]
    BY <1>1, <2>1, <2>2 DEF Writing
  <2> QED
    BY <1>1, <1>4, <2>1, <2>4, <2>5, OneThread
<1> QED
  BY <1>5, <1>6

\* The score gate tests the tracker, then writes it, then the database.
LEMMA GateSteps ==
  ASSUME TypeOK, StoresInv,
         \/ \E gated \in Gates, grace \in Grace : CloseGate(gated, grace)
         \/ GateTracker \/ GateDb
  PROVE  StoresInv'
<1> DEFINE t == "closer"
           k0 == thr[t].key
<1>1. t \in Threads /\ k0 \in Keys /\ thr[t].epoch \in Epochs
  BY ThreadEntry DEF Threads
<1>2. tracker \in [Keys -> ProbationType] /\ db \in [Keys -> ProbationType]
  BY DEF TypeOK
<1>3. NoteOverlap
  BY DEF CloseGate, GateTracker, GateDb
<1>4. /\ Kept /\ moved \subseteq moved'
      /\ disturbed \subseteq disturbed' /\ Overlapped' \subseteq disturbed'
  BY <1>3, Noted
<1>5. AfterGate \in {"closeEnd", "closeLife"}
  BY DEF AfterGate
<1>6. CASE \E gated \in Gates, grace \in Grace : CloseGate(gated, grace)
  <2>1. /\ UNCHANGED <<tracker, db>> /\ thr[t].pc = "closeGate"
        /\ thr'[t].pc \in {"gateTrk", "closeEnd", "closeLife"}
        /\ thr'[t].key = k0
        /\ \A u \in Threads \ {t} : thr'[u] = thr[u]
    BY <1>1, <1>5, <1>6, ThreadMoves DEF CloseGate, At, probation
  <2>2. \A k \in Keys : Local(t, k) => Local(t, k)'
    BY <1>4, <2>1 DEF Local, Writing, InStep, Agree, Kept
  <2> QED
    BY <1>1, <1>4, <2>1, <2>2, OneThread
<1>7. CASE GateTracker
  <2>1. /\ UNCHANGED db /\ thr[t].pc = "gateTrk" /\ thr'[t].pc = "gateDb"
        /\ tracker' = Enter(tracker, k0, thr[t].epoch)
        /\ thr'[t].key = k0
        /\ \A u \in Threads \ {t} : thr'[u] = thr[u]
    BY <1>1, <1>7, ThreadMoves DEF GateTracker, At
  <2>2. /\ \A j \in Keys \ {k0} : tracker'[j] = tracker[j]
        /\ tracker'[k0].on /\ tracker'[k0].passes = 0
    BY <1>1, <1>2, <2>1, StoreWrites
  <2>3. \A k \in Keys : Local(t, k) => Local(t, k)'
    BY <1>1, <1>4, <2>1, <2>2 DEF Local, Writing, InStep, Agree, Kept
  <2>4. \A k \in Keys : ~Writing(t, k) => tracker'[k] = tracker[k] /\ db'[k] = db[k]
    BY <1>1, <2>1, <2>2 DEF Writing
  <2> QED
    BY <1>1, <1>4, <2>1, <2>3, <2>4, OneThread
<1>8. CASE GateDb
  <2>1. /\ UNCHANGED tracker /\ thr[t].pc = "gateDb"
        /\ thr'[t].pc \in {"closeEnd", "closeLife"}
        /\ db' = Enter(db, k0, thr[t].epoch)
        /\ \A u \in Threads \ {t} : thr'[u] = thr[u]
    BY <1>1, <1>5, <1>8, ThreadMoves DEF GateDb, At
  <2>2. /\ \A j \in Keys \ {k0} : db'[j] = db[j]
        /\ db'[k0].on /\ db'[k0].passes = 0
    BY <1>1, <1>2, <2>1, StoreWrites
  <2>3. \A k \in Keys : Local(t, k) => Local(t, k)'
    BY <1>1, <1>4, <2>1, <2>2 DEF Local, Writing, InStep, Agree, Kept
  <2>4. \A k \in Keys : ~Writing(t, k) => tracker'[k] = tracker[k] /\ db'[k] = db[k]
    BY <1>1, <2>1, <2>2 DEF Writing
  <2> QED
    BY <1>1, <1>4, <2>1, <2>3, <2>4, OneThread
<1> QED
  BY <1>6, <1>7, <1>8

\* An exception ends the close; the entry it was writing is noted.
LEMMA RetryStores ==
  ASSUME TypeOK, StoresInv, CloseRetry
  PROVE  StoresInv'
<1> DEFINE t == "closer"
<1>1. t \in Threads
  BY DEF Threads
<1>2. /\ UNCHANGED <<tracker, db, switched, moved>> /\ thr'[t].pc = "idle"
      /\ disturbed' = disturbed \cup {k \in Keys : Writing(t, k)}
      /\ \A u \in Threads \ {t} : thr'[u] = thr[u]
  BY <1>1, ThreadMoves DEF CloseRetry, probation
<1>3. \A k \in Keys : ~Writing(t, k)'
  BY <1>2 DEF Writing
<1>4. Overlapped' \subseteq Overlapped
  <2>1. \A u \in Threads, k \in Keys : Writing(u, k)' => Writing(u, k)
    BY <1>2, <1>3 DEF Writing
  <2> QED
    BY <2>1 DEF Overlapped
<1>5. \A k \in Keys \ Exempt' : ~Writing(t, k)
  BY <1>2 DEF Exempt
<1>6. \A k \in Keys \ Exempt' : Local(t, k) => Local(t, k)'
  BY <1>2, <1>3, <1>5 DEF Local, Agree
<1>7. Kept /\ disturbed \subseteq disturbed' /\ Overlapped' \subseteq disturbed'
  BY <1>2, <1>4 DEF Kept, StoresInv
<1> QED
  BY <1>1, <1>2, <1>6, <1>7, OneThread

\* A model switch clears a row nobody is writing, or is noted.
LEMMA SwitchStores ==
  ASSUME TypeOK, StoresInv, NEW k0 \in Keys, UpsertEntry(k0)
  PROVE  StoresInv'
<1>1. /\ UNCHANGED <<thr, tracker, moved>> /\ db' = [db EXCEPT ![k0] = OffProbation]
      /\ switched' = (IF tracker[k0].on THEN switched \cup {k0} ELSE switched)
      /\ disturbed' = (IF \E t \in Threads : Writing(t, k0)
                       THEN disturbed \cup {k0} ELSE disturbed)
  BY DEF UpsertEntry
<1>2. /\ db \in [Keys -> ProbationType]
      /\ \A k \in Keys \ {k0} : db'[k] = db[k] /\ (k \in switched' <=> k \in switched)
      /\ ~db'[k0].on /\ (tracker[k0].on => k0 \in switched')
  BY <1>1 DEF TypeOK, OffProbation
<1>3. \A t, k : Writing(t, k)' <=> Writing(t, k)
  BY <1>1 DEF Writing
<1>4. Overlapped' = Overlapped /\ disturbed \subseteq disturbed'
  BY <1>1, <1>3 DEF Overlapped
<1>5. ASSUME NEW k \in Keys \ Exempt'
      PROVE  /\ (\A u \in Threads : ~Writing(u, k)') => Agree(k)'
             /\ \A u \in Threads : Writing(u, k)' => InStep(u, k)'
  <2>1. k \in Keys /\ k \notin Exempt
    BY <1>1, <1>4 DEF Exempt
  <2>2. CASE k = k0
    <3>1. \A u \in Threads : ~Writing(u, k)
      BY <1>1, <2>2 DEF Exempt
    <3>2. Agree(k)'
      BY <1>1, <1>2, <2>2 DEF Agree
    <3> QED
      BY <1>3, <3>1, <3>2
  <2>3. CASE k # k0
    <3>1. /\ tracker'[k] = tracker[k] /\ db'[k] = db[k]
          /\ (k \in switched' <=> k \in switched)
      BY <1>1, <1>2, <2>1, <2>3
    <3>2. Agree(k) => Agree(k)'
      BY <3>1 DEF Agree
    <3>3. \A u \in Threads : InStep(u, k) => InStep(u, k)'
      BY <1>1, <3>1, <3>2 DEF InStep
    <3> QED
      BY <1>3, <2>1, <3>2, <3>3 DEF StoresInv, DbTracksTracker, Exempt
  <2> QED
    BY <2>2, <2>3
<1> QED
  BY <1>4, <1>5 DEF StoresInv, DbTracksTracker, Exempt

\* A retired identity loses its rows, then its tracker entries.
LEMMA ClearSteps ==
  ASSUME TypeOK, StoresInv,
         (\E raises \in BOOLEAN : ClearIdentityDb(raises)) \/ ClearIdentityTracker
  PROVE  StoresInv'
<1> DEFINE t == "setup"
<1>1. t \in Threads
  BY DEF Threads
<1>2. ~OffProbation.on
  BY DEF OffProbation
<1>3. CASE ClearIdentityDb(TRUE)
  <2>1. Exempt' \cap Keys = Keys /\ disturbed' = Keys
    BY <1>3 DEF ClearIdentityDb, Exempt
  <2>2. Overlapped' \subseteq Keys
    BY DEF Overlapped
  <2> QED
    BY <2>1, <2>2 DEF StoresInv, DbTracksTracker, Exempt
<1>4. CASE ClearIdentityDb(FALSE)
  <2>1. /\ UNCHANGED <<tracker, switched, moved>>
        /\ \A k \in Keys : db'[k] = OffProbation
        /\ thr[t].pc = "idle" /\ thr'[t].pc = "clrTrk"
        /\ \A u \in Threads \ {t} : thr'[u] = thr[u]
        /\ disturbed' = disturbed \cup Overlapped'
    BY <1>1, <1>4, ThreadMoves DEF ClearIdentityDb, At
  <2>2. \A k \in Keys : Local(t, k) => Local(t, k)'
    BY <1>2, <2>1 DEF Local, Writing, InStep, Agree
  <2>3. \A k \in Keys : Writing(t, k)'
    BY <2>1 DEF Writing
  <2>4. Kept
    BY <2>1 DEF Kept
  <2> QED
    BY <1>1, <2>1, <2>2, <2>3, <2>4, OneThread
<1>5. CASE ClearIdentityTracker
  <2>1. /\ UNCHANGED db /\ thr[t].pc = "clrTrk" /\ thr'[t].pc = "idle"
        /\ \A k \in Keys : tracker'[k] = OffProbation
        /\ \A u \in Threads \ {t} : thr'[u] = thr[u]
        /\ NoteOverlap
    BY <1>1, <1>5, ThreadMoves DEF ClearIdentityTracker, At
  <2>2. \A k \in Keys : Writing(t, k) /\ ~Writing(t, k)'
    BY <2>1 DEF Writing
  <2>3. \A k \in Keys : Local(t, k) => Local(t, k)'
    BY <1>2, <2>1, <2>2 DEF Local, InStep, Agree
  <2> QED
    BY <1>1, <2>1, <2>2, <2>3, Noted, OneThread
<1> QED
  BY <1>3, <1>4, <1>5

\* A capacity penalty is written to the database and then to the tracker.
LEMMA CapacitySteps ==
  ASSUME TypeOK, StoresInv, NEW w \in Workers, NEW k0 \in Keys,
         CapacityDb(w, k0) \/ CapacityTracker(w)
  PROVE  StoresInv'
<1>1. w \in Threads /\ thr[w].key \in Keys /\ thr[w].epoch \in Epochs
  BY ThreadEntry DEF Threads
<1>2. /\ tracker \in [Keys -> ProbationType] /\ db \in [Keys -> ProbationType]
      /\ cur \in Epochs
  BY DEF TypeOK
<1>3. NoteOverlap
  BY DEF CapacityDb, CapacityTracker
<1>4. /\ Kept /\ moved \subseteq moved'
      /\ disturbed \subseteq disturbed' /\ Overlapped' \subseteq disturbed'
  BY <1>3, Noted
<1>5. CASE CapacityDb(w, k0)
  <2>1. /\ UNCHANGED tracker /\ thr[w].pc = "idle" /\ thr'[w].pc = "capTrk"
        /\ thr'[w].key = k0 /\ db' = Enter(db, k0, cur)
        /\ \A u \in Threads \ {w} : thr'[u] = thr[u]
    BY <1>1, <1>5, ThreadMoves DEF CapacityDb, At
  <2>2. /\ \A j \in Keys \ {k0} : db'[j] = db[j]
        /\ db'[k0].on /\ db'[k0].passes = 0
    BY <1>1, <1>2, <2>1, StoreWrites
  <2>3. \A k \in Keys : Local(w, k) => Local(w, k)'
    BY <1>4, <1>1, <2>1, <2>2 DEF Local, Writing, InStep, Agree, Kept
  <2>4. \A k \in Keys : ~Writing(w, k) /\ ~Writing(w, k)' =>
                          tracker'[k] = tracker[k] /\ db'[k] = db[k]
    BY <1>1, <2>1, <2>2 DEF Writing
  <2> QED
    BY <1>1, <1>4, <2>1, <2>3, <2>4, OneThread
<1>6. CASE CapacityTracker(w)
  <2> DEFINE j0 == thr[w].key
  <2>1. /\ UNCHANGED db /\ thr[w].pc = "capTrk" /\ thr'[w].pc = "idle"
        /\ tracker' = Enter(tracker, j0, thr[w].epoch)
        /\ \A u \in Threads \ {w} : thr'[u] = thr[u]
    BY <1>1, <1>6, ThreadMoves DEF CapacityTracker, At
  <2>2. /\ \A j \in Keys \ {j0} : tracker'[j] = tracker[j]
        /\ tracker'[j0].on /\ tracker'[j0].passes = 0
    BY <1>1, <1>2, <2>1, StoreWrites
  <2>3. \A k \in Keys : db[k].on \in BOOLEAN /\ tracker'[k].on \in BOOLEAN
    <3>1. tracker' \in [Keys -> ProbationType]
      BY <1>1, <1>2, <2>1, EnterType
    <3> QED
      BY <1>2, <3>1 DEF ProbationType
  <2>4. \A k \in Keys : Local(w, k) => Local(w, k)'
    BY <1>4, <1>1, <2>1, <2>2, <2>3 DEF Local, Writing, InStep, Agree, Kept
  <2>5. \A k \in Keys : ~Writing(w, k) => tracker'[k] = tracker[k] /\ db'[k] = db[k]
    BY <1>1, <2>1, <2>2 DEF Writing
  <2> QED
    BY <1>1, <1>4, <2>1, <2>4, <2>5, OneThread
<1> QED
  BY <1>5, <1>6

\* The reset writes every entry of the tracker, then every row.
LEMMA ResetSteps ==
  ASSUME TypeOK, StoresInv, ResetTracker \/ ResetDb
  PROVE  StoresInv'
<1> DEFINE t == "main"
<1>1. t \in Threads
  BY DEF Threads
<1>2. NoteOverlap
  BY DEF ResetTracker, ResetDb
<1>3. /\ Kept /\ moved \subseteq moved'
      /\ disturbed \subseteq disturbed' /\ Overlapped' \subseteq disturbed'
  BY <1>2, Noted
<1>4. ~OffProbation.on /\ OffProbation.on = FALSE /\ OffProbation.passes = 0
  BY DEF OffProbation
<1>5. CASE ResetTracker
  <2>1. /\ UNCHANGED db /\ thr[t].pc = "rstTracker" /\ thr'[t].pc = "rstDb"
        /\ \A k \in Keys : tracker'[k] = OffProbation
        /\ \A u \in Threads \ {t} : thr'[u] = thr[u]
    BY <1>1, <1>5, ThreadMoves DEF ResetTracker, At
  <2>2. \A k \in Keys : Local(t, k) => Local(t, k)'
    BY <1>3, <1>4, <2>1 DEF Local, Writing, InStep, Agree, Kept
  <2>3. \A k \in Keys : Writing(t, k)'
    BY <2>1 DEF Writing
  <2> QED
    BY <1>1, <1>3, <2>1, <2>2, <2>3, OneThread
<1>6. CASE ResetDb
  <2>1. /\ UNCHANGED tracker /\ thr[t].pc = "rstDb" /\ thr'[t].pc = "rstMem"
        /\ \A k \in Keys : db'[k] = OffProbation
        /\ \A u \in Threads \ {t} : thr'[u] = thr[u]
    BY <1>1, <1>6, ThreadMoves DEF ResetDb, At
  <2>2. \A k \in Keys : Writing(t, k)
    BY <2>1 DEF Writing
  <2>3. \A k \in Keys : tracker[k].on \in BOOLEAN
    BY DEF TypeOK, ProbationType
  <2>4. \A k \in Keys : Local(t, k) => Local(t, k)'
    BY <1>3, <1>4, <2>1, <2>2, <2>3 DEF Local, Writing, InStep, Agree, Kept
  <2> QED
    BY <1>1, <1>3, <2>1, <2>2, <2>4, OneThread
<1> QED
  BY <1>5, <1>6

\* A migration moves a tracker entry only, and is noted.
LEMMA MigrateStores ==
  ASSUME TypeOK, StoresInv, MigrateIndex
  PROVE  StoresInv'
<1> DEFINE t == "closer"
<1>1. t \in Threads
  BY DEF Threads
<1>2. /\ UNCHANGED <<db, disturbed, switched>>
      /\ thr[t].pc = "idle" /\ thr'[t].pc = "migrate"
      /\ \A u \in Threads \ {t} : thr'[u] = thr[u]
  <2>1. PICK r : thr' = [thr EXCEPT ![t] = r] /\ r.pc = "migrate"
    <3> DEFINE r0 == [Idle EXCEPT !.pc = "migrate", !.key = reg[closed + 1],
                                  !.epoch = closed + 1,
                                  !.rcpt = "pass" \in outcome[closed + 1]]
    <3>1. thr' = [thr EXCEPT ![t] = r0]
      BY DEF MigrateIndex
    <3>2. r0.pc = "migrate"
      BY DEF Idle
    <3> HIDE DEF r0
    <3> QED
      BY <3>1, <3>2
  <2> QED
    BY <1>1, <2>1 DEF MigrateIndex, At, TypeOK
<1>3. /\ moved \subseteq moved'
      /\ \A k \in Keys \ Exempt' : tracker'[k] = tracker[k]
  <2>1. CASE UNCHANGED <<tracker, moved>>
    BY <2>1
  <2>2. CASE \E j, k \in Keys : /\ tracker' = Move(tracker, j, k, OffProbation)
                                /\ moved' = moved \cup {j, k}
    <3>1. PICK j \in Keys, k \in Keys :
            /\ tracker' = Move(tracker, j, k, OffProbation)
            /\ moved' = moved \cup {j, k}
      BY <2>2
    <3>2. \A i \in Keys \ {j, k} : tracker'[i] = tracker[i]
      BY <3>1 DEF Move, TypeOK
    <3> QED
      BY <3>1, <3>2 DEF Exempt
  <2>3. reg[closed + 1] \in Keys
    <3>1. closed + 1 < cur
      BY DEF MigrateIndex
    <3>2. closed \in -1 .. MaxEpoch /\ cur \in Epochs /\ reg \in [Epochs -> Keys]
      BY DEF TypeOK
    <3> QED
      BY <3>1, <3>2, HardAuditAssumption DEF Epochs
  <2> DEFINE k1 == reg[closed + 1]
             listed == IF LowerCase THEN {j \in Keys \ {k1} : tracker[j].on}
                       ELSE {}
  <2>4. listed \subseteq Keys
    OBVIOUS
  <2>5. \/ UNCHANGED <<tracker, moved>>
        \/ \E j \in listed : /\ tracker' = Move(tracker, j, k1, OffProbation)
                             /\ moved' = moved \cup {j, k1}
    BY DEF MigrateIndex
  <2> HIDE DEF listed, k1
  <2>6. k1 \in Keys
    BY <2>3 DEF k1
  <2> QED
    BY <2>1, <2>2, <2>4, <2>5, <2>6
<1>4. \A k \in Keys : ~Writing(t, k) /\ ~Writing(t, k)'
  BY <1>2 DEF Writing
<1>5. Overlapped' \subseteq Overlapped
  <2>1. \A u \in Threads, k \in Keys : Writing(u, k)' => Writing(u, k)
    BY <1>2, <1>4 DEF Writing
  <2> QED
    BY <2>1 DEF Overlapped
<1>6. \A k \in Keys \ Exempt' : Local(t, k) => Local(t, k)'
  BY <1>2, <1>3, <1>4 DEF Local, Agree
<1>7. Kept /\ Overlapped' \subseteq disturbed'
  BY <1>2, <1>5 DEF Kept, StoresInv
<1> QED
  BY <1>1, <1>2, <1>3, <1>6, <1>7, OneThread

\* A restart leaves every thread idle; an entry whose write it cut off is
\* noted, every other one agreed already.
LEMMA CrashStores ==
  ASSUME TypeOK, StoresInv, Crash
  PROVE  StoresInv'
<1>1. /\ UNCHANGED <<tracker, db, switched, moved>>
      /\ \A t \in Threads : thr'[t].pc = "idle"
      /\ disturbed' = disturbed \cup {k \in Keys : \E t \in Threads : Writing(t, k)}
  BY DEF Crash, Idle, probation
<1>2. \A t \in Threads, k \in Keys : ~Writing(t, k)'
  BY <1>1 DEF Writing
<1>3. Overlapped' = {}
  BY <1>2 DEF Overlapped
<1>4. \A k \in Keys \ Exempt' : Agree(k)'
  <2>1. \A k \in Keys : Agree(k) => Agree(k)'
    BY <1>1 DEF Agree
  <2> QED
    BY <1>1, <2>1 DEF StoresInv, DbTracksTracker, Exempt
<1> QED
  BY <1>2, <1>3, <1>4 DEF StoresInv, DbTracksTracker, Exempt

LEMMA StoresStep ==
  ASSUME TypeOK, StoresInv, Required = DbRequired, [Next]_vars
  PROVE  StoresInv'
<1>1. CASE UNCHANGED vars
  BY <1>1, NoThreadMoves DEF vars, history
<1>2. CASE Environment
  <2>1. CASE ~\E k \in Keys : UpsertEntry(k)
    <3>1. UNCHANGED <<thr, tracker, db, history>>
      BY <1>2, <2>1 DEF Environment, StartNewEpoch, CapacityVerdict,
                        ObligationMissed, OwnerPublishes, probation
    <3> QED
      BY <3>1, NoThreadMoves
  <2> QED
    BY <2>1, SwitchStores
<1>3. CASE \E w \in Workers : WorkerStep(w)
  <2>1. PICK w \in Workers : WorkerStep(w)
    BY <1>3
  <2>2. 0 \in Epochs
    BY HardAuditAssumption DEF Epochs
  <2>3. CASE \E e \in Epochs : \/ HardTestFails(w, e) \/ LightTestFails(w, e)
                               \/ HardTestPasses(w, e)
    BY <2>3, QuietSteps
  <2>4. CASE StoreReceipt(w) \/ ReconcileLateHardPass(w)
    BY <2>2, <2>4, QuietSteps
  <2>5. CASE \E k \in Keys : CapacityDb(w, k)
    BY <2>5, CapacitySteps
  <2>6. CASE CapacityTracker(w)
    BY <2>6, CapacitySteps, HardAuditAssumption
  <2> QED
    BY <2>1, <2>3, <2>4, <2>5, <2>6 DEF WorkerStep
<1>4. CASE \E t \in Workers \cup {"closer"} : SharedStep(t)
  BY <1>4, QuietSharedSteps, FailureSteps, RecoverySteps DEF SharedStep
<1>5. CASE CloserStep
  BY <1>5, MigrateStores, QuietCloserSteps, GateSteps, LifecycleSteps,
     RetryStores DEF CloserStep
<1>6. CASE MainStep
  BY <1>6, QuietMainSteps, ResetSteps DEF MainStep
<1>7. CASE Crash
  BY <1>7, CrashStores
<1>8. CASE SetupStep
  BY <1>8, ClearSteps DEF SetupStep
<1> QED
  BY <1>1, <1>2, <1>3, <1>4, <1>5, <1>6, <1>7, <1>8 DEF Next

LEMMA StoresInit == Init => StoresInv
<1> SUFFICES ASSUME Init PROVE StoresInv
  OBVIOUS
<1>1. \A t \in Threads, k \in Keys : ~Writing(t, k)
  BY DEF Init, Writing, Idle
<1>2. \A k \in Keys : Agree(k)
  BY DEF Init, Agree, OffProbation
<1> QED
  BY <1>1, <1>2 DEF StoresInv, Overlapped, DbTracksTracker

\* With one pass count in both stores, the probation file and the database
\* agree on every entry that no thread is writing, whatever the interleaving
\* of the failure handlers, the recovery, the close and its score gate, the
\* capacity penalties, model switches, retired identities, the reset and
\* restarts.  A model switch leaves the entry listed and its row cleared, and
\* no more than that; only an entry written by two threads at once, cut off
\* by a crash or an exception or moved to another index may differ otherwise.
THEOREM StoresAgree ==
  ASSUME Required = DbRequired
  PROVE  Spec => []DbTracksTracker
<1>1. Init => TypeOK /\ StoresInv
  BY TypeInit, StoresInit
<1>2. TypeOK /\ StoresInv /\ [Next]_vars => (TypeOK /\ StoresInv)'
  BY TypeStep, StoresStep
<1>3. StoresInv => DbTracksTracker
  BY DEF StoresInv
<1> QED
  BY <1>1, <1>2, <1>3, PTL DEF Spec

\* Only the handler's own last write, an exception in the close, or a restart
\* takes a thread out of it.
LEMMA FailureStep ==
  ASSUME TypeOK, StoresInv, Next, NEW t \in Threads,
         thr[t].pc \in {"dbEnter", "dbFail"}, thr'[t].pc # thr[t].pc,
         crashes' = crashes
  PROVE  \/ t \in Workers \cup {"closer"} /\ DbWrite(t)
         \/ t = "closer" /\ CloseRetry
<1>1. ~Crash
  BY DEF Crash, TypeOK
<1>2. ~Environment
  BY DEF Environment, StartNewEpoch, CapacityVerdict, ObligationMissed,
         OwnerPublishes, UpsertEntry
<1>3. ASSUME NEW w \in Workers, WorkerStep(w)
      PROVE  FALSE
  <2>1. w \in Threads
    BY DEF Threads
  <2>2. /\ thr[w].pc \in {"idle", "passed", "receipt", "capTrk"}
        /\ \A u \in Threads \ {w} : thr'[u] = thr[u]
    <3>1. CASE \E e \in Epochs : HardTestFails(w, e)
      BY <2>1, <3>1, ThreadMoves DEF HardTestFails, At
    <3>2. CASE \E e \in Epochs : LightTestFails(w, e)
      BY <2>1, <3>2, ThreadMoves DEF LightTestFails, At
    <3>3. CASE \E e \in Epochs : HardTestPasses(w, e)
      BY <2>1, <3>3, ThreadMoves DEF HardTestPasses, At
    <3>4. CASE StoreReceipt(w)
      BY <2>1, <3>4, ThreadMoves DEF StoreReceipt, At
    <3>5. CASE ReconcileLateHardPass(w)
      BY <2>1, <3>5, ThreadMoves DEF ReconcileLateHardPass, At
    <3>6. CASE \E k \in Keys : CapacityDb(w, k)
      BY <2>1, <3>6, ThreadMoves DEF CapacityDb, At
    <3>7. CASE CapacityTracker(w)
      BY <2>1, <3>7, ThreadMoves DEF CapacityTracker, At
    <3> QED
      BY <1>3, <3>1, <3>2, <3>3, <3>4, <3>5, <3>6, <3>7 DEF WorkerStep
  <2> QED
    BY <2>1, <2>2
<1>4. ASSUME NEW u \in Workers \cup {"closer"}, SharedStep(u)
      PROVE  DbWrite(u) /\ u = t
  <2>1. u \in Threads
    BY DEF Threads
  <2>2. CASE DbWrite(u)
    <3>1. \A v \in Threads \ {u} : thr'[v] = thr[v]
      BY <2>1, <2>2, ThreadMoves DEF DbWrite, AfterFailure
    <3> QED
      BY <2>2, <3>1
  <2>3. CASE ~DbWrite(u)
    <3>1. /\ thr[u].pc \notin {"dbEnter", "dbFail"}
          /\ \A v \in Threads \ {u} : thr'[v] = thr[v]
      <4>1. CASE RecordStrike(u)
        <5>1. PICK b : thr' = [thr EXCEPT ![u].pen = b, ![u].pc = "publish"]
          BY <4>1 DEF RecordStrike
        <5>2. \A v \in Threads \ {u} : thr'[v] = thr[v]
          BY <2>1, <5>1, ThreadMoves
        <5> QED
          BY <4>1, <5>2 DEF RecordStrike, At
      <4>2. CASE Publish(u)
        BY <2>1, <4>2, ThreadMoves DEF Publish, At
      <4>3. CASE Gate(u)
        BY <2>1, <4>3, ThreadMoves DEF Gate, AfterFailure, At
      <4>4. CASE Branch(u)
        BY <2>1, <4>4, ThreadMoves DEF Branch, At
      <4>5. CASE TrackerWrite(u)
        BY <2>1, <4>5, ThreadMoves DEF TrackerWrite, At
      <4>6. CASE RecoveryLedger(u)
        BY <2>1, <4>6, ThreadMoves DEF RecoveryLedger, AfterRecovery, At
      <4>7. CASE RecoveryTracker(u)
        <5>1. PICK b : thr' = [thr EXCEPT ![u].pen = b, ![u].pc = "recDb"]
          BY <4>7 DEF RecoveryTracker
        <5>2. \A v \in Threads \ {u} : thr'[v] = thr[v]
          BY <2>1, <5>1, ThreadMoves
        <5> QED
          BY <4>7, <5>2 DEF RecoveryTracker, At
      <4>8. CASE RecoveryDb(u)
        BY <2>1, <4>8, ThreadMoves DEF RecoveryDb, At
      <4>9. CASE RecoveryClear(u)
        BY <2>1, <4>9, ThreadMoves DEF RecoveryClear, AfterRecovery, At
      <4> QED
        BY <1>4, <2>3, <4>1, <4>2, <4>3, <4>4, <4>5, <4>6, <4>7, <4>8, <4>9
        DEF SharedStep
    <3> QED
      BY <2>1, <3>1
  <2> QED
    BY <2>2, <2>3
<1>5. ASSUME CloserStep PROVE t = "closer" /\ CloseRetry
  <2>1. "closer" \in Threads
    BY DEF Threads
  <2>2. thr[t] # thr'[t]
    OBVIOUS
  <2>3. thr \in [Threads -> ThreadType]
    BY DEF TypeOK
  <2>4. CASE MigrateIndex
    BY <2>1, <2>2, <2>3, <2>4 DEF MigrateIndex, At
  <2>5. CASE \E grace \in Grace, deferred, untested \in BOOLEAN :
               CloseHard(grace, deferred, untested)
    BY <2>1, <2>2, <2>3, <2>5 DEF CloseHard, At
  <2>6. CASE CloseObligations
    BY <2>1, <2>2, <2>3, <2>6 DEF CloseObligations, At
  <2>7. CASE \E verdict \in {"none", "pass", "fail"} : CloseVerdict(verdict)
    BY <2>1, <2>2, <2>3, <2>7 DEF CloseVerdict, At
  <2>8. CASE CloseLifecycle
    BY <2>1, <2>8, ThreadMoves DEF CloseLifecycle, At
  <2>9. CASE CloseEnterDb
    BY <2>1, <2>9, ThreadMoves DEF CloseEnterDb, At
  <2>10. CASE CloseEnd \/ MigrateStrikes
    BY <2>1, <2>10, ThreadMoves DEF CloseEnd, MigrateStrikes, At
  <2>11. CASE CloseRetry
    BY <2>1, <2>11, ThreadMoves DEF CloseRetry
  <2>12. CASE \E gated \in Gates, grace \in Grace : CloseGate(gated, grace)
    BY <2>1, <2>12, ThreadMoves DEF CloseGate, At
  <2>13. CASE GateTracker \/ GateDb
    BY <2>1, <2>13, ThreadMoves DEF GateTracker, GateDb, At
  <2> QED
    BY <1>5, <2>4, <2>5, <2>6, <2>7, <2>8, <2>9, <2>10, <2>11, <2>12, <2>13
    DEF CloserStep
<1>6. ~MainStep
  <2> SUFFICES ASSUME MainStep PROVE FALSE
    OBVIOUS
  <2>1. "main" \in Threads
    BY DEF Threads
  <2>2. /\ thr["main"].pc \in {"idle", "rstTracker", "rstDb", "rstMem", "rstEpoch"}
        /\ \A u \in Threads \ {"main"} : thr'[u] = thr[u]
    <3>1. CASE ResetBegin
      BY <2>1, <3>1, ThreadMoves DEF ResetBegin, At
    <3>2. CASE ResetTracker
      BY <2>1, <3>2, ThreadMoves DEF ResetTracker, At
    <3>3. CASE ResetDb
      BY <2>1, <3>3, ThreadMoves DEF ResetDb, At
    <3>4. CASE ResetMemory
      BY <2>1, <3>4, ThreadMoves DEF ResetMemory, At
    <3>5. CASE ResetEffective
      BY <2>1, <3>5, ThreadMoves DEF ResetEffective, At
    <3> QED
      BY <3>1, <3>2, <3>3, <3>4, <3>5 DEF MainStep
  <2> QED
    BY <2>1, <2>2
<1>7. ~SetupStep
  <2> SUFFICES ASSUME SetupStep PROVE FALSE
    OBVIOUS
  <2>1. "setup" \in Threads
    BY DEF Threads
  <2>2. /\ thr["setup"].pc \in {"idle", "clrTrk"}
        /\ \A u \in Threads \ {"setup"} : thr'[u] = thr[u]
    BY <2>1, ThreadMoves DEF SetupStep, ClearIdentityDb, ClearIdentityTracker, At
  <2> QED
    BY <2>1, <2>2
<1> QED
  BY <1>1, <1>2, <1>3, <1>4, <1>5, <1>6, <1>7 DEF Next

\* When _on_proof_failure has made its last write on an entry it was alone
\* with, the tracker has the entry on probation with no pass counted, and so
\* has the database unless a model switch cleared the row before.
THEOREM FailureAlwaysLeavesProbation ==
  ASSUME Required = DbRequired
  PROVE  Spec => FailureLeavesProbation
<1> DEFINE Enters == \A t \in Threads :
             LET k == thr[t].key IN
             /\ thr[t].pc \in {"dbEnter", "dbFail"} /\ thr'[t].pc # thr[t].pc
             /\ k \notin disturbed' \cup moved' /\ crashes' = crashes
             => /\ tracker'[k].on /\ tracker'[k].passes = 0
                /\ db'[k].on => db'[k].passes = 0
                /\ k \notin switched' => db'[k].on
<1>1. Init => TypeOK /\ StoresInv
  BY TypeInit, StoresInit
<1>2. TypeOK /\ StoresInv /\ [Next]_vars => (TypeOK /\ StoresInv)'
  BY TypeStep, StoresStep
<1>3. TypeOK /\ StoresInv /\ [Next]_vars => [Enters]_vars
  <2> SUFFICES ASSUME TypeOK, StoresInv, Next, NEW t \in Threads,
                      thr[t].pc \in {"dbEnter", "dbFail"},
                      thr'[t].pc # thr[t].pc, crashes' = crashes,
                      thr[t].key \notin disturbed' \cup moved'
               PROVE  LET k == thr[t].key IN
                      /\ tracker'[k].on /\ tracker'[k].passes = 0
                      /\ db'[k].on => db'[k].passes = 0
                      /\ k \notin switched' => db'[k].on
    OBVIOUS
  <2> DEFINE k == thr[t].key
  <2>1. k \in Keys /\ thr[t].epoch \in Epochs /\ Writing(t, k)
    BY ThreadEntry DEF Writing
  <2>2. DbWrite(t)
    <3>1. ~(t = "closer" /\ CloseRetry)
      BY <2>1 DEF CloseRetry
    <3> QED
      BY <3>1, FailureStep
  <2>3. k \notin Exempt /\ Kept
    BY <2>2, Noted DEF DbWrite, Exempt
  <2>4. InStep(t, k)
    BY <2>1, <2>3 DEF StoresInv
  <2>5. /\ tracker' = tracker /\ db \in [Keys -> ProbationType]
        /\ \/ thr[t].pc = "dbEnter" /\ db' = Enter(db, k, thr[t].epoch)
           \/ thr[t].pc = "dbFail" /\ db' = ResetPasses(db, k)
    BY <2>2 DEF DbWrite, At, TypeOK
  <2>6. /\ tracker[k].on /\ tracker[k].passes = 0
        /\ thr[t].pc = "dbFail" => db[k].on \/ k \in switched
    BY <2>4, <2>5 DEF InStep
  <2>7. CASE thr[t].pc = "dbEnter" \/ db[k].on
    BY <2>1, <2>5, <2>6, <2>7, StoreWrites
  <2>8. CASE thr[t].pc = "dbFail" /\ ~db[k].on
    <3>1. db'[k] = db[k] /\ k \in switched
      BY <2>1, <2>5, <2>6, <2>8, StoreWrites
    <3>2. k \in switched'
      BY <2>1, <2>3, <2>5, <2>6, <2>8, <3>1 DEF Kept
    <3> QED
      BY <2>5, <2>6, <2>8, <3>1, <3>2
  <2> QED
    BY <2>5, <2>7, <2>8
<1> QED
  BY <1>1, <1>2, <1>3, PTL DEF Spec, FailureLeavesProbation
============================================================================
