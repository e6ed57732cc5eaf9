----------------------------- MODULE HardAudit -----------------------------
(***************************************************************************)
(* Enforcement of hard-audit outcomes by the validator: the strike ledger,  *)
(* the probation tracker (a JSON file), the probation columns of the SQLite *)
(* database, the recovery ledger and the owner's generation reset, with the *)
(* threads that write them.                                                 *)
(*                                                                          *)
(* One miner endpoint is followed.  Keys are the contract indices it may be *)
(* registered under; reg[e] is its index in epoch e.  Every handler is cut  *)
(* where it releases a lock or commits a durable write, so other threads    *)
(* and a crash can fall in between.                                         *)
(***************************************************************************)
EXTENDS StrikeTracker

CONSTANTS
  Keys,         \* (address, model_index) entries of one miner endpoint
  Workers,      \* canary worker threads
  MaxEpoch,     \* bound on the epochs explored
  Required,     \* required_passes of the ProbationTracker (runtime config)
  DbRequired,   \* probation_required_passes of a database row (DEFAULT 3)
  MaxGen,       \* bound on the probation state generation
  MaxCrashes,   \* bound on validator restarts
  MaxLag,       \* bound on unclosed epochs when a new one starts
  MaxEvents,    \* bound on test results, missed tests, capacity verdicts
  ModelSwitches,  \* may discovery find another model under an index?
  IdentityClears, \* may the owner of the UID or its hotkey change?
  Gates,        \* answers _capacity_audit_score_gate_reason may give
  HardAuditor,  \* is this validator the designated hard auditor?
  Grace,        \* answers _maintenance_grace_active may give
  LowerCase     \* does discovery report addresses in lower case?  (The
                \* mock chain does, web3 returns the checksummed form.)

ASSUME HardAuditAssumption ==
  /\ Keys # {}
  /\ Workers \cap {"closer", "main", "setup"} = {}
  /\ MaxEpoch \in Nat
  /\ Required \in Nat \ {0}
  /\ DbRequired \in Nat \ {0}
  /\ MaxGen \in Nat
  /\ MaxCrashes \in Nat
  /\ MaxLag \in Nat
  /\ MaxEvents \in Nat
  /\ ModelSwitches \in BOOLEAN
  /\ IdentityClears \in BOOLEAN
  /\ Gates \subseteq BOOLEAN
  /\ HardAuditor \in BOOLEAN
  /\ Grace \subseteq BOOLEAN
  /\ LowerCase \in BOOLEAN

Epochs  == 0 .. MaxEpoch
Threads == Workers \cup {"closer", "main", "setup"}

VARIABLES
  cur,          \* _current_epoch
  first,        \* first epoch this process run has tests for
  reg,          \* [Epochs -> Keys], the registration discovered per epoch
  closed,       \* _last_closed_epoch
  outcome,      \* per epoch, what the receipts and the inventory will show
  penal,        \* epochs whose entry is in _canary_penalized_keys
  tracker,      \* ProbationTracker._probation (saved on every change)
  db,           \* probation columns of miner_entries
  strikes,      \* _hard_failure_strikes, in memory
  strikesDb,    \* its copy in validator_meta
  ledger,       \* _last_probation_recovery_source_epoch, in memory
  ledgerDb,     \* its copy in validator_meta
  failures,     \* stored signed hard failures, <<epoch, key>>
  gen,          \* proof_v3_probation_state_generation_v1
  hosted,       \* generation the owner's hosted config asks for
  reset,        \* _probation_state_reset_effective_epoch (-1: none)
  resetDb,      \* its copy in validator_meta
  capPending,   \* entries with an unapplied finalized capacity penalty
  recLock,      \* holder of _probation_recovery_epoch_lock
  thr,          \* what each thread is doing
  crashes,      \* restarts so far
  events,       \* results, missed tests and capacity verdicts so far
  counted,      \* history: recovery passes counted per entry and epoch
                \* since the recovery ledger was last cleared
  disturbed,    \* history: entries written by two threads at once, or cut
                \* off between two writes by a restart or an exception
  switched,     \* history: entries whose row a model switch cleared while
                \* the tracker still has them on probation
  moved         \* history: indices a migration moved probation between

control == <<cur, first, reg, closed, outcome, penal>>
probation == <<tracker, db>>
strikeVars == <<strikes, strikesDb>>
ledgerVars == <<ledger, ledgerDb>>
resetVars == <<gen, hosted, reset, resetDb>>
bounds == <<crashes, events>>
history == <<disturbed, switched, moved>>
vars == <<cur, first, reg, closed, outcome, penal, tracker, db, strikes,
          strikesDb, ledger, ledgerDb, failures, gen, hosted, reset, resetDb,
          capPending, recLock, thr, crashes, events, counted,
          disturbed, switched, moved>>

OffProbation == [on |-> FALSE, passes |-> 0, entered |-> 0]
AnyKey == CHOOSE k \in Keys : TRUE
Idle == [pc |-> "idle", key |-> AnyKey, epoch |-> 0,
         hard |-> FALSE, pen |-> FALSE, obl |-> FALSE, clean |-> FALSE,
         skip |-> FALSE, cont |-> FALSE, rcpt |-> FALSE]
NoThread == "none"
NoneCounted == [k \in Keys |-> [e \in Epochs |-> 0]]

Pcs == { "idle", "strike", "publish", "gate", "branch", "trkEnter", "dbEnter",
         "trkFail", "dbFail", "passed", "receipt", "recLedger", "recTracker",
         "recDb", "recClear", "capTrk", "clrTrk", "migrate", "closeHard",
         "closeObl", "closeClean", "closeGate", "gateTrk", "gateDb",
         "closeLife", "closeDb", "closeEnd",
         "rstTracker", "rstDb", "rstMem", "rstEpoch" }

Init ==
  /\ cur = 0 /\ first = 0 /\ closed = -1
  /\ reg = [e \in Epochs |-> AnyKey]
  /\ outcome = [e \in Epochs |-> {}]
  /\ penal = {}
  /\ tracker = [k \in Keys |-> OffProbation]
  /\ db = [k \in Keys |-> OffProbation]
  /\ strikes = [k \in Keys |-> NoStrike]
  /\ strikesDb = [k \in Keys |-> NoStrike]
  /\ ledger = [k \in Keys |-> -1]
  /\ ledgerDb = [k \in Keys |-> -1]
  /\ failures = {}
  /\ gen = 0 /\ hosted = 0 /\ reset = -1 /\ resetDb = -1
  /\ capPending = {}
  /\ recLock = NoThread
  /\ thr = [t \in Threads |-> Idle]
  /\ crashes = 0
  /\ events = 0
  /\ counted = NoneCounted
  /\ disturbed = {} /\ switched = {} /\ moved = {}

----------------------------------------------------------------------------
(***************************************************************************)
(* Helpers                                                                  *)
(***************************************************************************)
At(t, p) == thr[t].pc = p
Goto(t, p) == thr' = [thr EXCEPT ![t].pc = p]
Done(t) == thr' = [thr EXCEPT ![t] = Idle]
Begin(t, p, k, e, h) ==
  thr' = [thr EXCEPT ![t] =
            [Idle EXCEPT !.pc = p, !.key = k, !.epoch = e, !.hard = h]]

\* Thread t has begun to write entry k and is not through.
Writing(t, k) ==
  \/ /\ thr[t].key = k
     /\ thr[t].pc \in {"branch", "trkEnter", "dbEnter", "trkFail", "dbFail",
                       "closeDb", "recTracker", "recDb", "capTrk",
                       "gateTrk", "gateDb"}
  \/ thr[t].pc \in {"rstDb", "clrTrk"}

Overlapped ==
  {k \in Keys : \E t, u \in Threads :
                  t # u /\ Writing(t, k) /\ Writing(u, k)}

\* History: every step that moves a thread notes the overlaps it creates,
\* and that an entry is in both stores, or in neither, again.
NoteOverlap ==
  /\ disturbed' = disturbed \cup Overlapped'
  /\ switched' = {k \in switched : tracker'[k].on /\ ~db'[k].on}
  /\ moved' = moved

\* Another event of the environment, within the bound.
Event == events < MaxEvents /\ events' = events + 1

\* _probation_reset_covers_source_epoch
Covers(e) == reset # -1 /\ e < reset

\* The in-memory strike ledger changes and the whole of it is saved, under
\* _hard_failure_strike_lock.
SaveStrikes(s) == strikes' = s /\ strikesDb' = s

\* The same for the recovery ledger under _probation_recovery_epoch_lock.
SaveLedger(l) == ledger' = l /\ ledgerDb' = l

\* Mutated form: probation starts with the epoch after the failure.
EnterNextEpoch(p, k, e) ==
  [p EXCEPT ![k] = [on |-> TRUE, passes |-> 0, entered |-> e + 1]]

\* ProbationTracker.enter_probation and ValidatorStateDB.enter_probation.
Enter(p, k, e) ==
  [p EXCEPT ![k] = IF p[k].on THEN [p[k] EXCEPT !.passes = 0]
                   ELSE [on |-> TRUE, passes |-> 0, entered |-> e]]

\* Mutated form: a failure does not restart the recovery count.
ResetPassesSkipped(p, k) == p

\* record_failure of either store: resets the counter of a listed entry.
ResetPasses(p, k) ==
  [p EXCEPT ![k] = IF p[k].on THEN [p[k] EXCEPT !.passes = 0] ELSE p[k]]

\* record_pass of either store: n consecutive passes take the entry off.
CountPass(p, k, n) ==
  [p EXCEPT ![k] =
     CASE ~p[k].on -> p[k]
       [] p[k].on /\ p[k].passes + 1 >= n -> OffProbation
       [] OTHER -> [p[k] EXCEPT !.passes = @ + 1]]

\* What follows _on_proof_failure: the worker notes the penalised key while
\* its epoch is still active, the close always does.
AfterFailure(t) ==
  IF t = "closer"
  THEN /\ penal' = penal \cup {thr[t].epoch}
       /\ Goto(t, "closeClean")
  ELSE /\ penal' = IF thr[t].epoch = cur THEN penal \cup {cur} ELSE penal
       /\ Done(t)

----------------------------------------------------------------------------
(***************************************************************************)
(* Epochs and test outcomes                                                 *)
(***************************************************************************)

\* _start_new_epoch and the discovery in _do_epoch_setup: the endpoint may
\* have been registered again under another index.
StartNewEpoch(k) ==
  /\ cur < MaxEpoch /\ cur - closed <= MaxLag
  /\ cur' = cur + 1
  /\ reg' = [e \in Epochs |-> IF e > cur THEN k ELSE reg[e]]
  /\ UNCHANGED <<first, closed, outcome, penal, probation, strikeVars,
                 ledgerVars, failures, resetVars, capPending, recLock, thr,
                 bounds, counted, history>>

\* A running test belongs to the active epoch or, started before the
\* boundary, to the one before it.
Testable(e) == e \in {cur - 1, cur} /\ e >= first /\ e >= 0

\* ProofV3PeerFailure of a hard test.  A failure inside the epoch leaves no
\* receipt, so the obligation is missing at close.
HardTestFails(w, e) ==
  /\ Event
  /\ At(w, "idle") /\ Testable(e) /\ HardAuditor
  /\ outcome' = IF e = cur THEN [outcome EXCEPT ![e] = @ \cup {"fail"}]
                ELSE outcome
  /\ Begin(w, "strike", reg[e], e, TRUE)
  /\ UNCHANGED <<cur, first, reg, closed, penal, probation, strikeVars,
                 ledgerVars, failures, resetVars, capPending, recLock,
                 crashes, counted>>
  /\ NoteOverlap

\* The same of a light test: no strike, the consequence is immediate.
LightTestFails(w, e) ==
  /\ Event
  /\ At(w, "idle") /\ Testable(e)
  /\ outcome' = IF e = cur THEN [outcome EXCEPT ![e] = @ \cup {"miss"}]
                ELSE outcome
  /\ Begin(w, "gate", reg[e], e, FALSE)
  /\ UNCHANGED <<cur, first, reg, closed, penal, probation, strikeVars,
                 ledgerVars, failures, resetVars, capPending, recLock,
                 crashes, counted>>
  /\ NoteOverlap

\* A planned obligation of the active epoch is never completed: its receipt
\* will be missing when the epoch closes, and a hard one is then a failure.
ObligationMissed(kind) ==
  /\ Event
  /\ cur >= first
  /\ kind = "fail" => HardAuditor
  /\ outcome' = [outcome EXCEPT ![cur] = @ \cup {kind}]
  /\ UNCHANGED <<cur, first, reg, closed, penal, probation, strikeVars,
                 ledgerVars, failures, resetVars, capPending, recLock, thr,
                 crashes, counted, history>>

\* A hard proof verifies: _record_hard_audit_pass.
HardTestPasses(w, e) ==
  /\ Event
  /\ At(w, "idle") /\ Testable(e) /\ HardAuditor
  /\ SaveStrikes([strikes EXCEPT ![reg[e]] = RecordCleanPass(@, e)])
  /\ Begin(w, "passed", reg[e], e, TRUE)
  /\ UNCHANGED <<control, probation, ledgerVars, failures, resetVars,
                 capPending, recLock, crashes, counted>>
  /\ NoteOverlap

\* Another hard test of the same entry and source epoch is still running
\* (_pending_cross_epoch_hard_obligations holds more than this one).
OtherHardPending(w, k, e) ==
  \E v \in Workers \ {w} :
    thr[v].hard /\ thr[v].key = k /\ thr[v].epoch = e

\* _mark_probation_recovery_failure_epoch
MarkFailureEpoch(k, e) ==
  /\ recLock = NoThread
  /\ IF e > ledger[k] THEN SaveLedger([ledger EXCEPT ![k] = e])
     ELSE UNCHANGED ledgerVars

\* _push_receipt_to_miner: in time or late, the verified result becomes a
\* receipt of its source epoch in the validator's own store, where a close
\* that has not ended may still find it.
StoreReceipt(w) ==
  LET e == thr[w].epoch IN
  /\ At(w, "receipt") \/ (At(w, "passed") /\ e = cur)
  /\ outcome' = IF e > closed THEN [outcome EXCEPT ![e] = @ \cup {"pass"}]
                ELSE outcome
  /\ Done(w)
  /\ UNCHANGED <<cur, first, reg, closed, penal, probation, strikeVars,
                 ledgerVars, failures, resetVars, capPending, recLock,
                 bounds, counted>>
  /\ NoteOverlap

\* A late pass is reconciled with the source epoch before its receipt is
\* stored: _reconcile_late_hard_probation_pass.
ReconcileLateHardPass(w) ==
  LET k == thr[w].key  e == thr[w].epoch IN
  /\ At(w, "passed") /\ e < cur
  /\ \/ UNCHANGED ledgerVars /\ Goto(w, "receipt")  \* others outstanding
     \/ /\ ~OtherHardPending(w, k, e)
        /\ IF <<e, k>> \in failures
           THEN MarkFailureEpoch(k, e) /\ Goto(w, "receipt")
           ELSE UNCHANGED ledgerVars /\ Goto(w, "recLedger")
  /\ UNCHANGED <<control, probation, strikeVars, failures, resetVars,
                 capPending, recLock, bounds, counted>>
  /\ NoteOverlap

----------------------------------------------------------------------------
(***************************************************************************)
(* _record_hard_audit_failure                                               *)
(***************************************************************************)

\* _record_hard_failure_strike
RecordStrike(t) ==
  LET k == thr[t].key  e == thr[t].epoch
      new == RecordFailure(strikes[k], e, FALSE)
  IN
  /\ At(t, "strike")
  /\ IF Covers(e)
     THEN /\ thr' = [thr EXCEPT ![t].pen = FALSE, ![t].pc = "publish"]
          /\ UNCHANGED strikeVars
     ELSE /\ thr' = [thr EXCEPT ![t].pen = new.pen, ![t].pc = "publish"]
          /\ SaveStrikes([strikes EXCEPT ![k] = new])
  /\ UNCHANGED <<control, probation, ledgerVars, failures, resetVars,
                 capPending, recLock, bounds, counted>>
  /\ NoteOverlap

\* Sign and store the failure; a failure that carries the consequence also
\* closes its source epoch to recovery.  Signing or storing may raise: that
\* is the validator's fault, and it excuses the entry from the epoch's close.
Publish(t) ==
  LET k == thr[t].key  e == thr[t].epoch IN
  /\ At(t, "publish")
  /\ \/ /\ failures' = failures \cup {<<e, k>>}
        /\ IF thr[t].pen THEN MarkFailureEpoch(k, e)
           ELSE UNCHANGED ledgerVars
        /\ UNCHANGED outcome
     \/ /\ outcome' = IF e = cur
                      THEN [outcome EXCEPT ![e] = @ \cup {"excused"}]
                      ELSE outcome
        /\ UNCHANGED <<failures, ledgerVars>>
  /\ CASE t = "closer" -> Goto(t, "closeObl")
       [] t # "closer" /\ thr[t].pen -> Goto(t, "gate")
       [] OTHER -> Done(t)
  /\ UNCHANGED <<cur, first, reg, closed, penal, probation, strikeVars,
                 resetVars, capPending, recLock, bounds, counted>>
  /\ NoteOverlap

----------------------------------------------------------------------------
(***************************************************************************)
(* _on_proof_failure                                                        *)
(***************************************************************************)

\* The early returns: a reset that covers the source epoch, or maintenance
\* grace (a matter of time and configuration).
Gate(t) ==
  /\ At(t, "gate")
  /\ \/ (Covers(thr[t].epoch) \/ TRUE \in Grace) /\ AfterFailure(t)
     \/ /\ FALSE \in Grace /\ ~Covers(thr[t].epoch)
        /\ Goto(t, "branch") /\ UNCHANGED penal
  /\ UNCHANGED <<cur, first, reg, closed, outcome, probation, strikeVars,
                 ledgerVars, failures, resetVars, capPending, recLock,
                 bounds, counted>>
  /\ NoteOverlap

\* is_on_probation decides the branch; its lock is released again.
Branch(t) ==
  /\ At(t, "branch")
  /\ Goto(t, IF tracker[thr[t].key].on THEN "trkFail" ELSE "trkEnter")
  /\ UNCHANGED <<control, probation, strikeVars, ledgerVars, failures,
                 resetVars, capPending, recLock, bounds, counted>>
  /\ NoteOverlap

TrackerWrite(t) ==
  LET k == thr[t].key  e == thr[t].epoch IN
  /\ \/ /\ At(t, "trkEnter")
        /\ tracker' = Enter(tracker, k, e)
        /\ Goto(t, "dbEnter")
     \/ /\ At(t, "trkFail")
        /\ tracker' = ResetPasses(tracker, k)
        /\ Goto(t, "dbFail")
  /\ UNCHANGED <<control, db, strikeVars, ledgerVars, failures, resetVars,
                 capPending, recLock, bounds, counted>>
  /\ NoteOverlap

\* Mutated form: the failure never reaches the database.
DbWriteSkipped(t) ==
  /\ thr[t].pc \in {"dbEnter", "dbFail"}
  /\ AfterFailure(t)
  /\ UNCHANGED <<cur, first, reg, closed, outcome, probation, strikeVars,
                 ledgerVars, failures, resetVars, capPending, recLock, bounds,
                 counted>>
  /\ NoteOverlap

DbWrite(t) ==
  LET k == thr[t].key  e == thr[t].epoch IN
  /\ \/ At(t, "dbEnter") /\ db' = Enter(db, k, e)
     \/ At(t, "dbFail") /\ db' = ResetPasses(db, k)
  /\ AfterFailure(t)
  /\ UNCHANGED <<cur, first, reg, closed, outcome, tracker, strikeVars,
                 ledgerVars, failures, resetVars, capPending, recLock,
                 bounds, counted>>
  /\ NoteOverlap

----------------------------------------------------------------------------
(***************************************************************************)
(* _record_probation_recovery_source_pass, under the recovery lock          *)
(***************************************************************************)
AfterRecovery(t) ==
  Goto(t, IF t = "closer" THEN "closeEnd" ELSE "receipt")

\* Mutated form: the ledger is written but not consulted.
RecoveryLedgerUnguarded(t) ==
  LET k == thr[t].key  e == thr[t].epoch IN
  /\ At(t, "recLedger") /\ recLock = NoThread /\ tracker[k].on
  /\ SaveLedger([ledger EXCEPT ![k] = e])
  /\ recLock' = t
  /\ counted' = [counted EXCEPT ![k][e] = @ + 1]
  /\ Goto(t, "recTracker")
  /\ UNCHANGED <<control, probation, strikeVars, failures, resetVars,
                 capPending, bounds>>
  /\ NoteOverlap

RecoveryLedger(t) ==
  LET k == thr[t].key  e == thr[t].epoch IN
  /\ At(t, "recLedger") /\ recLock = NoThread
  /\ IF e > ledger[k] /\ tracker[k].on
     THEN /\ SaveLedger([ledger EXCEPT ![k] = e])
          /\ recLock' = t
          /\ counted' = [counted EXCEPT ![k][e] = @ + 1]
          /\ Goto(t, "recTracker")
     ELSE AfterRecovery(t) /\ UNCHANGED <<ledgerVars, recLock, counted>>
  /\ UNCHANGED <<control, probation, strikeVars, failures, resetVars,
                 capPending, bounds>>
  /\ NoteOverlap

RecoveryTracker(t) ==
  LET k == thr[t].key IN
  /\ At(t, "recTracker")
  /\ tracker' = CountPass(tracker, k, Required)
  /\ thr' = [thr EXCEPT ![t].pen = tracker[k].on /\ ~tracker'[k].on,
                        ![t].pc = "recDb"]
  /\ UNCHANGED <<control, db, strikeVars, ledgerVars, failures, resetVars,
                 capPending, recLock, bounds, counted>>
  /\ NoteOverlap

RecoveryDb(t) ==
  /\ At(t, "recDb")
  /\ db' = CountPass(db, thr[t].key, DbRequired)
  /\ Goto(t, "recClear")
  /\ UNCHANGED <<control, tracker, strikeVars, ledgerVars, failures,
                 resetVars, capPending, recLock, bounds, counted>>
  /\ NoteOverlap

\* A lifted probation also clears the strike.
RecoveryClear(t) ==
  /\ At(t, "recClear")
  /\ IF thr[t].pen
     THEN SaveStrikes([strikes EXCEPT ![thr[t].key] = NoStrike])
     ELSE UNCHANGED strikeVars
  /\ recLock' = NoThread
  /\ AfterRecovery(t)
  /\ UNCHANGED <<control, probation, ledgerVars, failures, resetVars,
                 capPending, bounds, counted>>
  /\ NoteOverlap

----------------------------------------------------------------------------
(***************************************************************************)
(* _close_epoch, for the entry the epoch discovered                         *)
(***************************************************************************)
\* The tracker moves an entry of the same address and endpoint to the new
\* index, the strike ledger moves its only candidate; the database row of
\* the old index is left as it is.  The tracker compares its lower-case keys
\* with the address as it was discovered, the strike ledger lowers it first.
\* The receipts of the epoch were loaded before.
Move(f, j, k, none) == [f EXCEPT ![k] = f[j], ![j] = none]

MigrateIndex ==
  LET e == closed + 1
      k == reg[e]
      listed == IF LowerCase THEN {j \in Keys \ {k} : tracker[j].on}
                ELSE {}
  IN
  /\ At("closer", "idle") /\ e < cur
  /\ IF tracker[k].on \/ listed = {}
     THEN UNCHANGED <<tracker, moved>>
     ELSE \E j \in listed : /\ tracker' = Move(tracker, j, k, OffProbation)
                            /\ moved' = moved \cup {j, k}
  /\ thr' = [thr EXCEPT !["closer"] =
               [Idle EXCEPT !.pc = "migrate", !.key = k, !.epoch = e,
                            !.rcpt = "pass" \in outcome[e]]]
  /\ UNCHANGED <<control, db, strikeVars, ledgerVars, failures, resetVars,
                 capPending, recLock, bounds, counted, disturbed, switched>>

\* The strike ledger follows in a critical section of its own.
MigrateStrikes ==
  LET k == thr["closer"].key
      striked == {j \in Keys \ {k} : strikes[j] # NoStrike}
  IN
  /\ At("closer", "migrate")
  /\ IF strikes[k] = NoStrike /\ Cardinality(striked) = 1
     THEN \E j \in striked : SaveStrikes(Move(strikes, j, k, NoStrike))
     ELSE UNCHANGED strikeVars
  /\ Goto("closer", "closeHard")
  /\ UNCHANGED <<control, probation, ledgerVars, failures, resetVars,
                 capPending, recLock, bounds, counted>>
  /\ NoteOverlap

\* An entry excused by a validator fault, or with no test dispatched, is left
\* out of the rest (after the score gate).  Missing obligations may be
\* deferred on busy evidence; otherwise an absent hard one goes through
\* _record_hard_audit_failure again.  Grace is maintenance grace.
CloseHard(grace, deferred, untested) ==
  LET e == thr["closer"].epoch
      skip == grace \/ Covers(e)
      cont == "excused" \in outcome[e] \/ untested
  IN
  /\ At("closer", "closeHard")
  /\ deferred => outcome[e] \cap {"miss", "fail"} # {} /\ ~skip
  /\ untested => outcome[e] = {}
  /\ thr' = [thr EXCEPT !["closer"] =
               [@ EXCEPT !.skip = skip, !.clean = ~deferred, !.cont = cont,
                         !.pc = CASE cont -> "closeGate"
                                  [] /\ ~cont
                                     /\ "fail" \in outcome[e]
                                     /\ ~deferred -> "strike"
                                  [] OTHER -> "closeObl"]]
  /\ UNCHANGED <<control, probation, strikeVars, ledgerVars, failures,
                 resetVars, capPending, recLock, bounds, counted>>
  /\ NoteOverlap

\* A hard obligation whose strike is neutral is waived; any other missing
\* and undeferred one is an obligation failure.
CloseObligations ==
  LET me  == thr["closer"]
      obl == /\ me.clean
             /\ \/ "miss" \in outcome[me.epoch]
                \/ "fail" \in outcome[me.epoch] /\ me.pen
  IN
  /\ At("closer", "closeObl")
  /\ thr' = [thr EXCEPT !["closer"] =
               [@ EXCEPT !.pen = FALSE, !.obl = obl, !.clean = @ /\ ~obl,
                         !.pc = IF obl /\ ~me.skip /\ me.epoch \notin penal
                                THEN "gate" ELSE "closeClean"]]
  /\ UNCHANGED <<control, probation, strikeVars, ledgerVars, failures,
                 resetVars, capPending, recLock, bounds, counted>>
  /\ NoteOverlap

\* The epoch's hard verdict: the auditor's own receipts, or for another
\* validator the shared verdict it received (a negative one is forced).
CloseVerdict(verdict) ==
  LET k == thr["closer"].key  e == thr["closer"].epoch
      forced == verdict = "fail" /\ ~Covers(e)
  IN
  /\ At("closer", "closeClean")
  /\ IF HardAuditor
     THEN verdict = IF thr["closer"].rcpt THEN "pass" ELSE "none"
     ELSE verdict \in {"none", "pass", "fail"}
  /\ CASE forced ->
            SaveStrikes([strikes EXCEPT ![k] = RecordFailure(@, e, TRUE)])
       [] verdict = "pass" ->
            SaveStrikes([strikes EXCEPT ![k] = RecordCleanPass(@, e)])
       [] OTHER -> UNCHANGED strikeVars
  /\ thr' = [thr EXCEPT !["closer"] =
               [@ EXCEPT !.pen = forced, !.pc = "closeGate",
                         !.clean = @ /\ verdict = "pass"]]
  /\ UNCHANGED <<control, probation, ledgerVars, failures, resetVars,
                 capPending, recLock, bounds, counted>>
  /\ NoteOverlap

\* Where the score gate returns to.
AfterGate == IF thr["closer"].cont THEN "closeEnd" ELSE "closeLife"

\* _apply_capacity_audit_score_gate: an entry with a finalized capacity
\* penalty that the tracker does not list is put on probation again
\* (_ensure_capacity_audit_entry_probation); tested, then written twice.
CloseGate(gated, grace) ==
  LET me == thr["closer"] IN
  /\ At("closer", "closeGate")
  /\ Goto("closer",
          IF gated /\ ~grace /\ ~Covers(me.epoch) /\ ~tracker[me.key].on
          THEN "gateTrk" ELSE AfterGate)
  /\ UNCHANGED <<control, probation, strikeVars, ledgerVars, failures,
                 resetVars, capPending, recLock, bounds, counted>>
  /\ NoteOverlap

GateTracker ==
  /\ At("closer", "gateTrk")
  /\ tracker' = Enter(tracker, thr["closer"].key, thr["closer"].epoch)
  /\ Goto("closer", "gateDb")
  /\ UNCHANGED <<control, db, strikeVars, ledgerVars, failures, resetVars,
                 capPending, recLock, bounds, counted>>
  /\ NoteOverlap

GateDb ==
  /\ At("closer", "gateDb")
  /\ db' = Enter(db, thr["closer"].key, thr["closer"].epoch)
  /\ Goto("closer", AfterGate)
  /\ UNCHANGED <<control, tracker, strikeVars, ledgerVars, failures,
                 resetVars, capPending, recLock, bounds, counted>>
  /\ NoteOverlap

\* The probation lifecycle: (re)enter, or count a clean epoch.
CloseLifecycle ==
  LET me == thr["closer"]
      failed == (me.obl \/ me.pen) /\ ~me.skip
  IN
  /\ At("closer", "closeLife")
  /\ tracker' = IF failed THEN Enter(tracker, me.key, me.epoch) ELSE tracker
  /\ Goto("closer", CASE failed -> "closeDb"
                      [] ~failed /\ tracker[me.key].on /\ me.clean ->
                           "recLedger"
                      [] OTHER -> "closeEnd")
  /\ UNCHANGED <<control, db, strikeVars, ledgerVars, failures, resetVars,
                 capPending, recLock, bounds, counted>>
  /\ NoteOverlap

\* Mutated form: the close leaves the database row alone.
CloseEnterDbSkipped ==
  /\ At("closer", "closeDb")
  /\ Goto("closer", "closeEnd")
  /\ UNCHANGED <<control, probation, strikeVars, ledgerVars, failures,
                 resetVars, capPending, recLock, bounds, counted>>
  /\ NoteOverlap

CloseEnterDb ==
  /\ At("closer", "closeDb")
  /\ db' = Enter(db, thr["closer"].key, thr["closer"].epoch)
  /\ Goto("closer", "closeEnd")
  /\ UNCHANGED <<control, tracker, strikeVars, ledgerVars, failures,
                 resetVars, capPending, recLock, bounds, counted>>
  /\ NoteOverlap

\* The frozen state of the epoch is dropped with the close.
CloseEnd ==
  /\ At("closer", "closeEnd")
  /\ outcome' = [outcome EXCEPT ![thr["closer"].epoch] = {}]
  /\ penal' = penal \ {thr["closer"].epoch}
  /\ closed' = thr["closer"].epoch
  /\ Done("closer")
  /\ UNCHANGED <<cur, first, reg, probation, strikeVars,
                 ledgerVars, failures, resetVars, capPending, recLock,
                 bounds, counted>>
  /\ NoteOverlap

\* _close_epoch raises (RPC, database) anywhere, between two writes and under
\* the recovery lock too, and _run_queued_epoch_close tries the frozen epoch
\* again from the start.
CloseRetry ==
  /\ ~At("closer", "idle")
  /\ recLock' = IF recLock = "closer" THEN NoThread ELSE recLock
  /\ disturbed' = disturbed \cup {k \in Keys : Writing("closer", k)}
  /\ Done("closer")
  /\ UNCHANGED <<control, probation, strikeVars, ledgerVars, failures,
                 resetVars, capPending, bounds, counted, switched, moved>>

----------------------------------------------------------------------------
(***************************************************************************)
(* Discovery: model switches and changes of identity                        *)
(***************************************************************************)

\* upsert_entry finds another model under the index and resets the row's
\* probation.  The tracker is not told.
UpsertEntry(k) ==
  /\ ModelSwitches /\ Event /\ k = reg[cur]
  /\ db' = [db EXCEPT ![k] = OffProbation]
  /\ switched' = IF tracker[k].on THEN switched \cup {k} ELSE switched
  /\ disturbed' = IF \E t \in Threads : Writing(t, k)
                  THEN disturbed \cup {k} ELSE disturbed
  /\ UNCHANGED <<control, tracker, strikeVars, ledgerVars, failures,
                 resetVars, capPending, recLock, thr, crashes, counted,
                 moved>>

\* _stale_uid_identity and _reconcile_uid_owner_identity retire an address:
\* its rows first, then its tracker entries.  A database error is swallowed.
ClearIdentityDb(raises) ==
  /\ IdentityClears /\ Event /\ At("setup", "idle")
  /\ db' = IF raises THEN db ELSE [k \in Keys |-> OffProbation]
  /\ Begin("setup", "clrTrk", AnyKey, cur, FALSE)
  /\ disturbed' = IF raises THEN Keys ELSE disturbed \cup Overlapped'
  /\ UNCHANGED <<control, tracker, strikeVars, ledgerVars, failures,
                 resetVars, capPending, recLock, crashes, counted, switched,
                 moved>>

\* ProbationTracker.clear_address
ClearIdentityTracker ==
  /\ At("setup", "clrTrk")
  /\ tracker' = [k \in Keys |-> OffProbation]
  /\ Done("setup")
  /\ UNCHANGED <<control, db, strikeVars, ledgerVars, failures, resetVars,
                 capPending, recLock, bounds, counted>>
  /\ NoteOverlap

----------------------------------------------------------------------------
(***************************************************************************)
(* Capacity-audit penalties: the database commits first                     *)
(***************************************************************************)
CapacityVerdict(k) ==
  /\ Event
  /\ k \notin capPending /\ k = reg[cur]
  /\ capPending' = capPending \cup {k}
  /\ UNCHANGED <<control, probation, strikeVars, ledgerVars, failures,
                 resetVars, recLock, thr, crashes, counted, history>>

\* apply_finalized_capacity_audit_probation_once
CapacityDb(w, k) ==
  /\ At(w, "idle") /\ k \in capPending
  /\ capPending' = capPending \ {k}
  /\ db' = Enter(db, k, cur)
  /\ Begin(w, "capTrk", k, cur, FALSE)
  /\ UNCHANGED <<control, tracker, strikeVars, ledgerVars, failures,
                 resetVars, recLock, bounds, counted>>
  /\ NoteOverlap

CapacityTracker(w) ==
  /\ At(w, "capTrk")
  /\ tracker' = Enter(tracker, thr[w].key, thr[w].epoch)
  /\ Done(w)
  /\ UNCHANGED <<control, db, strikeVars, ledgerVars, failures, resetVars,
                 capPending, recLock, bounds, counted>>
  /\ NoteOverlap

----------------------------------------------------------------------------
(***************************************************************************)
(* _apply_probation_state_generation, on the main thread                    *)
(***************************************************************************)
OwnerPublishes ==
  /\ hosted < MaxGen
  /\ hosted' = hosted + 1
  /\ UNCHANGED <<control, probation, strikeVars, ledgerVars, failures, gen,
                 reset, resetDb, capPending, recLock, thr, bounds, counted,
                 history>>

ResetBegin ==
  /\ At("main", "idle") /\ hosted > gen
  /\ Begin("main", "rstTracker", AnyKey, cur, FALSE)
  /\ UNCHANGED <<control, probation, strikeVars, ledgerVars, failures,
                 resetVars, capPending, recLock, bounds, counted>>
  /\ NoteOverlap

\* The sidecar file first, then one database transaction, then memory.
ResetTracker ==
  /\ At("main", "rstTracker")
  /\ tracker' = [k \in Keys |-> OffProbation]
  /\ Goto("main", "rstDb")
  /\ UNCHANGED <<control, db, strikeVars, ledgerVars, failures, resetVars,
                 capPending, recLock, bounds, counted>>
  /\ NoteOverlap

\* Mutated form: the transaction does not record the generation.
ResetDbKeepsGeneration ==
  /\ At("main", "rstDb")
  /\ db' = [k \in Keys |-> OffProbation]
  /\ Goto("main", "rstMem")
  /\ UNCHANGED <<control, tracker, strikeVars, ledgerVars, failures, resetVars,
                 capPending, recLock, bounds, counted>>
  /\ NoteOverlap

ResetDb ==
  /\ At("main", "rstDb")
  /\ db' = [k \in Keys |-> OffProbation]
  /\ strikesDb' = [k \in Keys |-> NoStrike]
  /\ ledgerDb' = [k \in Keys |-> -1]
  /\ resetDb' = thr["main"].epoch
  /\ gen' \in (gen + 1) .. hosted   \* the target ResetBegin read
  /\ capPending' = {}
  /\ counted' = NoneCounted
  /\ Goto("main", "rstMem")
  /\ UNCHANGED <<control, tracker, strikes, ledger, failures, hosted, reset,
                 recLock, bounds>>
  /\ NoteOverlap

ResetMemory ==
  /\ At("main", "rstMem") /\ recLock = NoThread
  /\ strikes' = [k \in Keys |-> NoStrike]
  /\ ledger' = [k \in Keys |-> -1]
  /\ counted' = NoneCounted
  /\ Goto("main", "rstEpoch")
  /\ UNCHANGED <<control, probation, strikesDb, ledgerDb, failures,
                 resetVars, capPending, recLock, bounds>>
  /\ NoteOverlap

\* Only now are source epochs before the reset refused; the runtime refresh
\* that called the reset then saves the strike ledger once more.
ResetEffective ==
  /\ At("main", "rstEpoch")
  /\ reset' = thr["main"].epoch
  /\ SaveStrikes(strikes)
  /\ Done("main")
  /\ UNCHANGED <<control, probation, ledgerVars, failures, gen, hosted,
                 resetDb, capPending, recLock, bounds, counted>>
  /\ NoteOverlap

----------------------------------------------------------------------------
(***************************************************************************)
(* Restart, and the next-state relation                                     *)
(***************************************************************************)

\* The process stops and starts again: files and database remain, memory is
\* loaded from them, and it joins the current epoch or the next one.
Crash ==
  /\ crashes < MaxCrashes
  /\ crashes' = crashes + 1
  /\ first' \in {cur, cur + 1}
  /\ closed' = first' - 1
  /\ \E kept \in {{}, {"pass"}} :   \* receipts are in the database
       outcome' = [e \in Epochs |-> outcome[e] \cap kept]
  /\ penal' = {}
  /\ strikes' = IF \E k \in Keys : Malformed(strikesDb[k])
                THEN [k \in Keys |-> NoStrike]
                ELSE [k \in Keys |-> Reload(strikesDb[k])]
  /\ ledger' = ledgerDb
  /\ reset' = resetDb
  /\ recLock' = NoThread
  /\ thr' = [t \in Threads |-> Idle]
  /\ disturbed' = disturbed \cup
                  {k \in Keys : \E t \in Threads : Writing(t, k)}
  /\ UNCHANGED <<cur, reg, probation, strikesDb, ledgerDb, failures, gen,
                 hosted, resetDb, capPending, events, counted, switched,
                 moved>>

Environment ==
  \/ \E k \in Keys : StartNewEpoch(k) \/ CapacityVerdict(k) \/ UpsertEntry(k)
  \/ \E kind \in {"miss", "fail"} : ObligationMissed(kind)
  \/ OwnerPublishes

WorkerStep(w) ==
  \/ \E e \in Epochs : \/ HardTestFails(w, e)
                       \/ LightTestFails(w, e)
                       \/ HardTestPasses(w, e)
  \/ StoreReceipt(w)
  \/ ReconcileLateHardPass(w)
  \/ \E k \in Keys : CapacityDb(w, k)
  \/ CapacityTracker(w)

\* Handlers a worker and the close share.
SharedStep(t) ==
  \/ RecordStrike(t) \/ Publish(t)
  \/ Gate(t) \/ Branch(t) \/ TrackerWrite(t) \/ DbWrite(t)
  \/ RecoveryLedger(t) \/ RecoveryTracker(t)
  \/ RecoveryDb(t) \/ RecoveryClear(t)

CloserStep ==
  \/ MigrateIndex \/ MigrateStrikes
  \/ \E grace \in Grace, deferred, untested \in BOOLEAN :
       CloseHard(grace, deferred, untested)
  \/ CloseObligations
  \/ \E verdict \in {"none", "pass", "fail"} : CloseVerdict(verdict)
  \/ \E gated \in Gates, grace \in Grace : CloseGate(gated, grace)
  \/ GateTracker \/ GateDb
  \/ CloseLifecycle \/ CloseEnterDb
  \/ CloseEnd \/ CloseRetry

MainStep ==
  ResetBegin \/ ResetTracker \/ ResetDb \/ ResetMemory \/ ResetEffective

SetupStep ==
  \/ \E raises \in BOOLEAN : ClearIdentityDb(raises)
  \/ ClearIdentityTracker

Next ==
  \/ Environment
  \/ SetupStep
  \/ \E w \in Workers : WorkerStep(w)
  \/ \E t \in Workers \cup {"closer"} : SharedStep(t)
  \/ CloserStep
  \/ MainStep
  \/ Crash

Spec == Init /\ [][Next]_vars

\* Hosted configuration is re-read at every start and epoch start, and the
\* threads keep running, so the steps of the reset, and those of a recovery
\* that holds the lock the reset needs, are taken.
LiveSpec ==
  /\ Spec
  /\ WF_vars(MainStep)
  /\ \A t \in Workers \cup {"closer"} :
       WF_vars(RecoveryTracker(t) \/ RecoveryDb(t) \/ RecoveryClear(t))

----------------------------------------------------------------------------
(***************************************************************************)
(* Properties                                                               *)
(***************************************************************************)
ProbationType ==
  [on : BOOLEAN, passes : Nat, entered : Epochs]

ThreadType ==
  [pc : Pcs, key : Keys, epoch : Epochs, hard : BOOLEAN, pen : BOOLEAN,
   obl : BOOLEAN, clean : BOOLEAN, skip : BOOLEAN, cont : BOOLEAN,
   rcpt : BOOLEAN]

\* Every variable holds a value of its kind: what the JSON file, the database
\* columns and validator_meta can contain, and where each thread can be.
TypeOK ==
  /\ cur \in Epochs /\ first \in 0 .. (MaxEpoch + 1)
  /\ closed \in -1 .. MaxEpoch
  /\ reg \in [Epochs -> Keys]
  /\ outcome \in [Epochs -> SUBSET {"miss", "fail", "pass", "excused"}]
  /\ penal \subseteq Epochs
  /\ tracker \in [Keys -> ProbationType]
  /\ db \in [Keys -> ProbationType]
  /\ strikes \in [Keys -> StrikeType(Epochs)]
  /\ strikesDb \in [Keys -> StrikeType(Epochs)]
  /\ ledger \in [Keys -> -1 .. MaxEpoch]
  /\ ledgerDb \in [Keys -> -1 .. MaxEpoch]
  /\ failures \subseteq Epochs \X Keys
  /\ gen \in 0 .. MaxGen /\ hosted \in 0 .. MaxGen
  /\ reset \in -1 .. MaxEpoch /\ resetDb \in -1 .. MaxEpoch
  /\ capPending \subseteq Keys
  /\ recLock \in Threads \cup {NoThread}
  /\ thr \in [Threads -> ThreadType]
  /\ crashes \in 0 .. MaxCrashes
  /\ events \in 0 .. MaxEvents
  /\ counted \in [Keys -> [Epochs -> Nat]]
  /\ disturbed \subseteq Keys
  /\ switched \subseteq Keys
  /\ moved \subseteq Keys

\* _load_hard_failure_strikes never has to fall back: whatever order workers,
\* close, migration, reset and restarts wrote the strike ledger in, from_json
\* accepts the saved copy, and reading it back changes no entry.
LedgerReloads ==
  \A k \in Keys : /\ ~Malformed(strikesDb[k])
                  /\ Reload(strikesDb[k]) = strikesDb[k]

\* An entry of the tracker and its row agree: a row on probation is listed
\* with the same passes, and a listed entry has its row on probation unless a
\* model switch has cleared the row since.
Agree(k) ==
  /\ db[k].on => tracker[k].on /\ tracker[k].passes = db[k].passes
  /\ tracker[k].on /\ k \notin switched => db[k].on

\* The probation file and the database agree on an entry whenever no thread
\* is between its two writes, except for an entry that two threads wrote at
\* once, a crash or an exception cut off, or a migration moved.
DbTracksTracker ==
  \A k \in Keys \ (disturbed \cup moved) :
    (\A t \in Threads : ~Writing(t, k)) => Agree(k)

\* "Count at most one clean recovery pass per ordered source epoch"
\* (_record_probation_recovery_source_pass), however the close, its retries,
\* late hard passes and restarts interleave, until a reset clears the ledger.
CountsOnce == \A k \in Keys, e \in Epochs : counted[k][e] <= 1

\* Inductive strengthenings of LedgerReloads and CountsOnce: what the ledger
\* operations maintain, and that a counted epoch is on the recovery ledger,
\* in memory and saved.
StrikesWellFormed ==
  \A k \in Keys : WellFormed(strikes[k]) /\ WellFormed(strikesDb[k])

CountedIsLedgered ==
  \A k \in Keys, e \in Epochs :
    /\ counted[k][e] <= 1
    /\ counted[k][e] >= 1 => ledger[k] >= e /\ ledgerDb[k] >= e

\* When _on_proof_failure has made its last write the entry is on probation
\* in the tracker and its recovery starts from zero in both stores; its row
\* is on probation too, unless a model switch cleared it before (the update
\* in record_failure of the database reaches no such row).
FailureLeavesProbation ==
  [][ \A t \in Threads :
        LET k == thr[t].key IN
        /\ thr[t].pc \in {"dbEnter", "dbFail"} /\ thr'[t].pc # thr[t].pc
        /\ k \notin disturbed' \cup moved' /\ crashes' = crashes
        => /\ tracker'[k].on /\ tracker'[k].passes = 0
           /\ db'[k].on => db'[k].passes = 0
           /\ k \notin switched' => db'[k].on ]_vars

\* The docstring of _on_proof_failure: "immediately put miner on probation".
\* The handler has looked whether the entry is listed and writes the tracker:
\* the entry is listed then.
FailureIsImmediate ==
  [][ \A t \in Threads :
        /\ thr[t].pc \in {"trkEnter", "trkFail"}
        /\ thr'[t].pc \in {"dbEnter", "dbFail"}
        => tracker'[thr[t].key].on ]_vars

\* A generation the owner has published is applied in the end, restarts in
\* the middle of the reset included.
ResetApplied ==
  \A g \in 1 .. MaxGen : (hosted >= g) ~> (gen >= g)
============================================================================
