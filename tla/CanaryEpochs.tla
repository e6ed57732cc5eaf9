---------------------------- MODULE CanaryEpochs ----------------------------
(***************************************************************************)
(* The validator's canary tests across epoch boundaries: planning by the    *)
(* background setup, dispatch by the block loop, execution by the worker    *)
(* pool, and the seal that freezes what an epoch owes when it ends.         *)
(*                                                                          *)
(* One miner endpoint is followed.  A test is <<epoch planned, obligation>>;*)
(* an execution is <<epoch dispatched, test>>, the pair under which the     *)
(* code keeps _unfinished_canary_tests and _cross_epoch_canaries.  Three    *)
(* kinds of threads share that state: the block loop ("main"), the setup    *)
(* and the workers.  Handlers are cut where another thread can see the      *)
(* difference.  Target blocks are abstracted: any subset of the scheduled   *)
(* tests may be due at a block.                                             *)
(***************************************************************************)
EXTENDS Integers, FiniteSets

CONSTANTS
  Obls,          \* obligations planned for the endpoint in every epoch
  Full,          \* those with test_type full_context
  Hard,          \* those with verify_proof
  Workers,       \* worker threads of the canary executor
  MaxEpoch,      \* bound on the epochs explored
  FullAttempts,  \* full_context_max_attempts, at least two
  MaxTries,      \* bound on the attempts of one test
  Faults,        \* may the validator's own storage or configuration fail?
  SetupFails,    \* may _do_epoch_setup raise?
  SlowSetup,     \* may blocks arrive while a setup is running?
  Drains         \* may a capacity audit drain the endpoint?

ASSUME CanaryAssumption ==
  /\ IsFiniteSet(Workers) /\ IsFiniteSet(Obls)
  /\ Full \subseteq Obls /\ Hard \subseteq Obls
  /\ MaxEpoch \in Nat
  /\ FullAttempts \in Nat \ {0, 1}
  /\ MaxTries \in Nat \ {0}
  /\ Faults \in BOOLEAN
  /\ SetupFails \in BOOLEAN /\ SlowSetup \in BOOLEAN /\ Drains \in BOOLEAN

Epochs == 0 .. MaxEpoch
Tests  == Epochs \X Obls
Ids    == Epochs \X Tests

VARIABLES
  cur,         \* _current_epoch
  sealed,      \* _sealed_canary_epochs
  sched,       \* _canary_scheduler: its epoch (-1: None) and its tests
  setup,       \* the setup thread: step, epoch, obligations still to plan
               \* and the tests in the scheduler it is filling
  listed,      \* is the endpoint one of _epoch_miners?
  inventory,   \* _expected_canary_obligations of the endpoint
  excused,     \* is it in _validator_canary_failures?
  queue,       \* executions submitted to the executor, not yet begun
  queued,      \* _queued_canaries, a count per epoch
  inflight,    \* _inflight_canaries, a count per epoch
  unfinished,  \* _unfinished_canary_tests
  cross,       \* _cross_epoch_canaries
  worker,      \* what each worker is doing
  main,        \* the block loop: its step, and the seal's three lists
  attempts,    \* attempt_count of a test
  rejected,    \* tests with rejection_intervals
  drained,     \* is the endpoint drained for a capacity audit?
  frozen,      \* per epoch, the inventory its close was given
  pardoned,    \* epochs whose close was given the excuse
  closing,     \* _epoch_close_futures
  answered,    \* history: executions the miner settled in their epoch or
               \* left a receipt for
  late,        \* history: executions penalised after their epoch
  mislaid      \* history: executions the validator itself lost sight of

schedVars == <<sched, setup, listed>>
books     == <<queued, inflight, unfinished, cross>>
owed      == <<inventory, excused, frozen, pardoned, closing>>
testVars  == <<attempts, rejected>>
history   == <<answered, late, mislaid>>
vars == <<cur, sealed, sched, setup, listed, inventory, excused, queue, queued,
          inflight, unfinished, cross, worker, main, attempts, rejected,
          drained, frozen, pardoned, closing, answered, late, mislaid>>

NoSched   == [epoch |-> -1, tests |-> {}]
SetupIdle == [pc |-> "idle", epoch |-> 0, todo |-> {}, tests |-> {}]
SetUp(e)  == [pc |-> "work", epoch |-> e, todo |-> Obls, tests |-> {}]
MainIdle  == [pc |-> "idle", pend |-> {}, started |-> {}, unstarted |-> {},
              retained |-> {}]
NoId      == <<-1, -1>>
Idle      == [pc |-> "idle", id |-> NoId]

\* The validator starts inside an epoch and sets it up.
Init ==
  /\ cur = 0 /\ sealed = {}
  /\ sched = NoSched
  /\ setup = SetUp(0)
  /\ listed = FALSE
  /\ inventory = {} /\ excused = FALSE
  /\ queue = {}
  /\ queued = [e \in Epochs |-> 0]
  /\ inflight = [e \in Epochs |-> 0]
  /\ unfinished = {} /\ cross = {}
  /\ worker = [w \in Workers |-> Idle]
  /\ main = MainIdle
  /\ attempts = [t \in Tests |-> 0]
  /\ rejected = {}
  /\ drained = FALSE
  /\ frozen = [e \in Epochs |-> {}]
  /\ pardoned = {} /\ closing = {}
  /\ answered = {} /\ late = {} /\ mislaid = {}

----------------------------------------------------------------------------
(***************************************************************************)
(* Helpers                                                                  *)
(***************************************************************************)
At(w, p) == worker[w].pc = p
Goto(w, p) == worker' = [worker EXCEPT ![w].pc = p]
Return(w) == worker' = [worker EXCEPT ![w] = Idle]

\* The worker has given execution x up, but not yet run its finally block.
Ending(w, x) == worker[w].pc \in {"unmark", "finish"} /\ worker[w].id = x

\* _canary_epoch_active
EpochActive(e) == e = cur /\ e \notin sealed

\* _canary_execution_active
ExecutionActive(id) == EpochActive(id[1]) \/ id \in cross

\* One marker less, never below zero: a seal removes all of an epoch's.
Less(f, e) == [f EXCEPT ![e] = IF @ > 0 THEN @ - 1 ELSE 0]

\* The seal of the epoch has emptied its scheduler.
Emptied == main.pc \notin {"idle", "drain"}

\* Blocks are processed while no setup runs, or at any time.
BlockLoop(p) == main.pc = p /\ (SlowSetup \/ setup.pc = "idle")

----------------------------------------------------------------------------
(***************************************************************************)
(* _do_epoch_setup, on the control executor                                 *)
(***************************************************************************)

\* Discovery, identity and hardware checks leave the endpoint out: nothing
\* is planned, and the obligations of the epoch before stay where they are.
SetupWithoutEndpoint ==
  /\ setup.pc = "work"
  /\ listed' = FALSE
  /\ sched' = NoSched
  /\ setup' = SetupIdle
  /\ UNCHANGED <<cur, sealed, owed, queue, books, worker, main, testVars,
                 drained, history>>

\* Any exception is logged and ends the setup where it is.
SetupRaises ==
  /\ SetupFails
  /\ setup.pc # "idle"
  /\ setup' = SetupIdle
  /\ UNCHANGED <<cur, sealed, sched, listed, owed, queue, books, worker, main,
                 testVars, drained, history>>

\* The per-epoch accounting is emptied ...
SetupResets ==
  /\ setup.pc = "work"
  /\ listed' = TRUE
  /\ inventory' = {} /\ excused' = FALSE
  /\ setup' = [setup EXCEPT !.pc = "sched"]
  /\ UNCHANGED <<cur, sealed, sched, frozen, pardoned, closing, queue, books,
                 worker, main, testVars, drained, history>>

\* ... the scheduler becomes visible to the block loop ...
SetupScheduler ==
  /\ setup.pc = "sched"
  /\ sched' = [epoch |-> setup.epoch, tests |-> {}]
  /\ setup' = [setup EXCEPT !.pc = "plan"]
  /\ UNCHANGED <<cur, sealed, listed, owed, queue, books, worker, main,
                 testVars, drained, history>>

\* ... plan_epoch appends one test after the other to it, and returns what
\* the scheduler then holds ...
SetupPlans(o) ==
  LET t == <<setup.epoch, o>> IN
  /\ setup.pc = "plan" /\ o \in setup.todo
  /\ setup' = [setup EXCEPT !.todo = @ \ {o}, !.tests = @ \cup {t}]
  /\ sched' = IF sched.epoch = setup.epoch
              THEN [sched EXCEPT !.tests = @ \cup {t}] ELSE sched
  /\ mislaid' = IF setup.epoch = cur /\ Emptied THEN mislaid \cup {<<cur, t>>}
                ELSE mislaid
  /\ UNCHANGED <<cur, sealed, listed, owed, queue, books, worker, main,
                 testVars, drained, answered, late>>

SetupPlanned ==
  /\ setup.pc = "plan" /\ setup.todo = {}
  /\ setup' = [setup EXCEPT !.pc = "register"]
  /\ UNCHANGED <<cur, sealed, sched, listed, owed, queue, books, worker, main,
                 testVars, drained, history>>

\* ... and _register_canary_obligations makes that list the inventory.
SetupRegisters ==
  /\ setup.pc = "register"
  /\ inventory' = setup.tests
  /\ setup' = SetupIdle
  /\ mislaid' = IF main.pc = "freeze"
                THEN mislaid \cup {<<cur, t>> : t \in setup.tests} ELSE mislaid
  /\ UNCHANGED <<cur, sealed, sched, listed, excused, frozen, pardoned,
                 closing, queue, books, worker, main, testVars, drained,
                 answered, late>>

----------------------------------------------------------------------------
(***************************************************************************)
(* on_finalized_block                                                       *)
(***************************************************************************)

\* The scheduler loses the tests ts; so does the list plan_epoch is filling.
Unschedule(ts) ==
  /\ sched' = [sched EXCEPT !.tests = @ \ ts]
  /\ setup' = IF setup.pc = "plan" /\ setup.epoch = sched.epoch
              THEN [setup EXCEPT !.tests = @ \ ts] ELSE setup

\* Mutated form: the dispatched tests stay in the scheduler.
DispatchKeepsTests(due) ==
  LET ids == {<<cur, t>> : t \in due} IN
  /\ BlockLoop("idle") /\ ~drained
  /\ queue' = queue \cup ids
  /\ queued' = [queued EXCEPT ![cur] = @ + Cardinality(due)]
  /\ unfinished' = unfinished \cup ids
  /\ UNCHANGED <<cur, sealed, schedVars, owed, inflight, cross, worker, main,
                 testVars, drained, history>>

\* get_pending_tests and _dispatch_canary_tests: whatever scheduler there is,
\* its due tests are submitted under the current epoch.  Tests of a drained
\* endpoint go back to the scheduler.
Dispatch(due) ==
  LET ids == {<<cur, t>> : t \in due} IN
  /\ BlockLoop("idle") /\ ~drained
  /\ Unschedule(due)
  /\ queue' = queue \cup ids
  /\ queued' = [queued EXCEPT ![cur] = @ + Cardinality(due)]
  /\ unfinished' = unfinished \cup ids
  /\ mislaid' = mislaid \cup {x \in ids : \E w \in Workers : Ending(w, x)}
  /\ UNCHANGED <<cur, sealed, listed, owed, inflight, cross, worker, main,
                 testVars, drained, answered, late>>

\* Step 1b: the epoch has no scheduler of its own and no setup is running,
\* early enough in the epoch.
RetryEpochStart ==
  /\ BlockLoop("idle")
  /\ setup.pc = "idle" /\ sched.epoch # cur
  /\ sched' = NoSched
  /\ setup' = SetUp(cur)
  /\ UNCHANGED <<cur, sealed, listed, owed, queue, books, worker, main,
                 testVars, drained, history>>

\* The boundary block: _seal_canary_epoch_for_close first fences the epoch,
SealFence ==
  /\ BlockLoop("idle") /\ cur < MaxEpoch
  /\ sealed' = sealed \cup {cur}
  /\ main' = [MainIdle EXCEPT !.pc = "drain"]
  /\ UNCHANGED <<cur, schedVars, owed, queue, books, worker, testVars,
                 drained, history>>

\* Mutated form: the seal forgets what was left in the scheduler.
SealDrainForgets ==
  LET pend == IF sched.epoch = cur THEN sched.tests ELSE {} IN
  /\ main.pc = "drain"
  /\ Unschedule(pend)
  /\ main' = [main EXCEPT !.pc = "classify", !.pend = {}]
  /\ UNCHANGED <<cur, sealed, listed, owed, queue, books, worker, testVars,
                 drained, history>>

\* takes what is left in the epoch's scheduler,
SealDrain ==
  LET pend == IF sched.epoch = cur THEN sched.tests ELSE {} IN
  /\ main.pc = "drain"
  /\ Unschedule(pend)
  /\ main' = [main EXCEPT !.pc = "classify", !.pend = pend]
  /\ UNCHANGED <<cur, sealed, listed, owed, queue, books, worker, testVars,
                 drained, history>>

\* sorts it and the unfinished executions into started, rejected by the
\* miner, and not started, under the accounting lock,
SealClassify ==
  LET open    == {id \in unfinished : id[1] = cur}
      waiting == {<<cur, t>> : t \in main.pend} \cup (open \ cross)
  IN
  /\ main.pc = "classify"
  /\ main' = [main EXCEPT !.pc = "neutralize",
                !.started   = open \cap cross,
                !.retained  = {id \in waiting : id[2] \in rejected},
                !.unstarted = {id \in waiting : id[2] \notin rejected}]
  /\ queued' = [queued EXCEPT ![cur] = 0]
  /\ inflight' = [inflight EXCEPT ![cur] = 0]
  /\ UNCHANGED <<cur, sealed, schedVars, owed, queue, unfinished, cross,
                 worker, testVars, drained, history>>

\* Mutated form: only work that was never started is neutral.
SealNeutralizeUnstarted ==
  /\ main.pc = "neutralize"
  /\ inventory' = inventory \ {id[2] : id \in main.unstarted}
  /\ unfinished' = unfinished \ (main.unstarted \cup main.retained)
  /\ main' = [main EXCEPT !.pc = "freeze"]
  /\ UNCHANGED <<cur, sealed, schedVars, excused, frozen, pardoned, closing,
                 queue, queued, inflight, cross, worker, testVars, drained,
                 history>>

\* and takes started and unstarted work out of the inventory.
SealNeutralize ==
  /\ main.pc = "neutralize"
  /\ inventory' = inventory \ {id[2] : id \in main.started \cup main.unstarted}
  /\ unfinished' = unfinished \ (main.unstarted \cup main.retained)
  /\ main' = [main EXCEPT !.pc = "freeze"]
  /\ UNCHANGED <<cur, sealed, schedVars, excused, frozen, pardoned, closing,
                 queue, queued, inflight, cross, worker, testVars, drained,
                 history>>

\* _queue_epoch_close freezes for the close, by _capture_epoch_close_state,
\* what the entries discovered still owe.
QueueEpochClose ==
  /\ main.pc = "freeze"
  /\ frozen' = [frozen EXCEPT ![cur] = IF listed THEN inventory ELSE {}]
  /\ pardoned' = IF excused THEN pardoned \cup {cur} ELSE pardoned
  /\ closing' = closing \cup {cur}
  /\ main' = [main EXCEPT !.pc = "start"]
  /\ UNCHANGED <<cur, sealed, schedVars, inventory, excused, queue, books,
                 worker, testVars, drained, history>>

\* _start_new_epoch: a fresh executor drops what is still queued; the setup
\* is skipped when one is running.
StartNewEpoch ==
  /\ main.pc = "start"
  /\ cur' = cur + 1
  /\ sealed' = {e \in sealed : e >= cur + 1}
  /\ queue' = {}
  /\ sched' = NoSched
  /\ setup' = IF setup.pc = "idle" THEN SetUp(cur + 1) ELSE setup
  /\ main' = MainIdle
  /\ UNCHANGED <<listed, owed, books, worker, testVars, drained, history>>

\* _run_queued_epoch_close has closed the epoch (HardAudit says how).
CloseEnds(e) ==
  /\ e \in closing
  /\ closing' = closing \ {e}
  /\ UNCHANGED <<cur, sealed, schedVars, inventory, excused, frozen, pardoned,
                 queue, books, worker, main, testVars, drained, history>>

\* A capacity audit starts or stops draining the endpoint.
DrainChanges ==
  /\ Drains
  /\ drained' = ~drained
  /\ UNCHANGED <<cur, sealed, schedVars, owed, queue, books, worker, main,
                 testVars, history>>

----------------------------------------------------------------------------
(***************************************************************************)
(* _execute_canary_test, on a worker                                        *)
(***************************************************************************)
id(w) == worker[w].id

\* The endpoint's hard-execution lock admits one hard test at a time.
HardLockFree(w) ==
  \A v \in Workers \ {w} : ~At(v, "idle") => id(v)[2][2] \notin Hard

\* Mutated form: the marker is taken off although the seal removed it.
DequeueUnguarded(w, x) ==
  /\ At(w, "idle") /\ x \in queue
  /\ x[2][2] \in Hard => HardLockFree(w)
  /\ queue' = queue \ {x}
  /\ queued' = [queued EXCEPT ![x[1]] = @ - 1]
  /\ worker' = IF EpochActive(x[1])
               THEN [worker EXCEPT ![w] = [pc |-> "ready", id |-> x]]
               ELSE worker
  /\ UNCHANGED <<cur, sealed, schedVars, owed, inflight, unfinished, cross,
                 main, testVars, drained, history>>

\* The worker takes a test; one of another epoch is dropped.
Dequeue(w, x) ==
  /\ At(w, "idle") /\ x \in queue
  /\ x[2][2] \in Hard => HardLockFree(w)
  /\ queue' = queue \ {x}
  /\ queued' = Less(queued, x[1])
  /\ worker' = IF EpochActive(x[1])
               THEN [worker EXCEPT ![w] = [pc |-> "ready", id |-> x]]
               ELSE worker
  /\ UNCHANGED <<cur, sealed, schedVars, owed, inflight, unfinished, cross,
                 main, testVars, drained, history>>

\* _requeue_capacity_audit_canary before the start, before the attempt and
\* before the request, _requeue_capacity_audit_gate_canary after its 503: the
\* checks, ...  (A test out of tries is not sent round once more.)
TriesLeft(w) == attempts[id(w)[2]] < MaxTries

SeesDrain(w) ==
  /\ \/ At(w, "ready") /\ Goto(w, "requeueUnstarted")
     \/ At(w, "attempt") /\ Goto(w, "requeueStarted")
     \/ At(w, "preHttp") /\ TriesLeft(w) /\ Goto(w, "requeuePreHttp")
     \/ At(w, "run") /\ TriesLeft(w) /\ Goto(w, "requeueGate")
  /\ EpochActive(id(w)[1]) /\ drained
  /\ UNCHANGED <<cur, sealed, schedVars, owed, queue, books, main, testVars,
                 drained, history>>

\* ... and the append under the scheduler lock.  Without the epoch's scheduler
\* the test goes on, and the 503 counts as busy.
Requeue(w) ==
  LET mine == sched.epoch = id(w)[1] IN
  /\ sched' = IF mine THEN [sched EXCEPT !.tests = @ \cup {id(w)[2]}]
              ELSE sched
  /\ \/ At(w, "requeueUnstarted") /\ IF mine THEN Return(w) ELSE Goto(w, "mark")
     \/ At(w, "requeueStarted") /\ Goto(w, IF mine THEN "unmark" ELSE "send")
     \/ At(w, "requeuePreHttp") /\ Goto(w, IF mine THEN "unmark" ELSE "run")
     \/ At(w, "requeueGate") /\ Goto(w, IF mine THEN "unmark" ELSE "busy")
  /\ mislaid' = IF mine /\ id(w)[1] = cur /\ Emptied THEN mislaid \cup {id(w)}
                ELSE mislaid
  /\ UNCHANGED <<cur, sealed, setup, listed, owed, queue, books, main, testVars,
                 drained, answered, late>>

NoDrain(w) ==
  /\ EpochActive(id(w)[1]) /\ drained => At(w, "preHttp") /\ ~TriesLeft(w)
  /\ \/ At(w, "ready") /\ Goto(w, "mark")
     \/ At(w, "preHttp") /\ Goto(w, "run")
  /\ UNCHANGED <<cur, sealed, schedVars, owed, queue, books, main, testVars,
                 drained, history>>

\* _mark_cross_epoch_canary_started
MarkCrossEpoch(w) ==
  /\ At(w, "mark")
  /\ cross' = cross \cup {id(w)}
  /\ Goto(w, "marked")
  /\ UNCHANGED <<cur, sealed, schedVars, owed, queue, queued, inflight,
                 unfinished, main, testVars, drained, history>>

\* Mutated form: the running test is not counted.
MarkStartedUncounted(w) ==
  /\ At(w, "marked")
  /\ Goto(w, IF ExecutionActive(id(w)) THEN "attempt" ELSE "unmark")
  /\ UNCHANGED <<cur, sealed, schedVars, owed, queue, books, main, testVars,
                 drained, history>>

\* _mark_canary_started, and the first check inside the try block
MarkStarted(w) ==
  /\ At(w, "marked")
  /\ inflight' = [inflight EXCEPT ![id(w)[1]] = @ + 1]
  /\ Goto(w, IF ExecutionActive(id(w)) THEN "attempt" ELSE "unmark")
  /\ UNCHANGED <<cur, sealed, schedVars, owed, queue, queued, unfinished,
                 cross, main, testVars, drained, history>>

\* The attempt is counted, and ends at once when the execution is stale.
Attempt(w) ==
  LET t == id(w)[2] IN
  /\ \/ At(w, "attempt") /\ ~(EpochActive(id(w)[1]) /\ drained)
     \/ At(w, "send")
  /\ attempts' = [attempts EXCEPT ![t] = @ + 1]
  /\ Goto(w, IF ExecutionActive(id(w)) THEN "preHttp" ELSE "unmark")
  /\ UNCHANGED <<cur, sealed, schedVars, owed, queue, books, main, rejected,
                 drained, history>>

\* The miner settles the request with a result or a failure (a failed proof,
\* an error, a timeout after the transport retry).  In its epoch that is the
\* obligation's outcome.  Later a failure is penalised at once, and a pass,
\* which for a hard test no longer scores, still leaves a local receipt under
\* the epoch it was started in, which the close counts.  An execution that
\* lost its mark is dropped.
MinerSettles(w, fails) ==
  LET x == id(w)
      receipt == ~fails /\ x \in cross
  IN
  /\ At(w, "run")
  /\ answered' = IF EpochActive(x[1]) \/ receipt THEN answered \cup {x}
                 ELSE answered
  /\ late' = IF fails /\ ~EpochActive(x[1]) /\ x \in cross
             THEN late \cup {x} ELSE late
  /\ Goto(w, "unmark")
  /\ UNCHANGED <<cur, sealed, schedVars, owed, queue, books, main, testVars,
                 drained, mislaid>>

\* The validator's own configuration, storage or database fails: its epoch
\* excuses the endpoint, unless the epoch is sealed.
ValidatorFault(w) ==
  /\ Faults /\ At(w, "run")
  /\ excused' = (excused \/ EpochActive(id(w)[1]))
  /\ mislaid' = IF EpochActive(id(w)[1]) THEN mislaid ELSE mislaid \cup {id(w)}
  /\ Goto(w, "unmark")
  /\ UNCHANGED <<cur, sealed, schedVars, inventory, frozen, pardoned, closing,
                 queue, books, main, testVars, drained, answered, late>>

\* A 503 before any precommit.  _record_precommit_busy notes the rejection
\* and lets the test be tried again; after the epoch it is a failure.
MinerBusy(w) ==
  LET x == id(w)  t == id(w)[2]
      mayRetry == t[2] \notin Full \/ attempts[t] < FullAttempts
  IN
  /\ At(w, "run") \/ At(w, "busy")
  /\ TriesLeft(w)
  /\ IF EpochActive(x[1])
     THEN /\ rejected' = rejected \cup {t}
          /\ answered' = answered \cup {x}
          /\ late' = late
          /\ Goto(w, IF mayRetry THEN "reschedule" ELSE "unmark")
     ELSE /\ late' = IF x \in cross THEN late \cup {x} ELSE late
          /\ Goto(w, "unmark")
          /\ UNCHANGED <<rejected, answered>>
  /\ UNCHANGED <<cur, sealed, schedVars, owed, queue, books, main, attempts,
                 drained, mislaid>>

\* CanaryScheduler.reschedule, refused when the epoch has no block left.
Reschedule(w, fits) ==
  /\ At(w, "reschedule")
  /\ fits => EpochActive(id(w)[1]) /\ sched.epoch = id(w)[1]
  /\ sched' = IF fits THEN [sched EXCEPT !.tests = @ \cup {id(w)[2]}]
              ELSE sched
  /\ Goto(w, "unmark")
  /\ UNCHANGED <<cur, sealed, setup, listed, owed, queue, books, main, testVars,
                 drained, history>>

\* Mutated form: the mark of a finished execution stays.
UnmarkCrossEpochSkipped(w) ==
  /\ At(w, "unmark")
  /\ Goto(w, "finish")
  /\ UNCHANGED <<cur, sealed, schedVars, owed, queue, books, main, testVars,
                 drained, history>>

\* The finally block: _mark_cross_epoch_canary_finished, then
\* _mark_canary_finished.
UnmarkCrossEpoch(w) ==
  /\ At(w, "unmark")
  /\ cross' = cross \ {id(w)}
  /\ Goto(w, "finish")
  /\ UNCHANGED <<cur, sealed, schedVars, owed, queue, queued, inflight,
                 unfinished, main, testVars, drained, history>>

MarkFinished(w) ==
  /\ At(w, "finish")
  /\ inflight' = Less(inflight, id(w)[1])
  /\ unfinished' = unfinished \ {id(w)}
  /\ Return(w)
  /\ UNCHANGED <<cur, sealed, schedVars, owed, queue, queued, cross, main,
                 testVars, drained, history>>

----------------------------------------------------------------------------
SetupStep ==
  \/ SetupWithoutEndpoint \/ SetupRaises
  \/ SetupResets \/ SetupScheduler
  \/ \E o \in Obls : SetupPlans(o)
  \/ SetupPlanned \/ SetupRegisters

MainStep ==
  \/ \E due \in SUBSET sched.tests \ {{}} : Dispatch(due)
  \/ RetryEpochStart
  \/ SealFence \/ SealDrain \/ SealClassify \/ SealNeutralize
  \/ QueueEpochClose \/ StartNewEpoch

\* What a worker does with a test it has taken.
WorkerStep(w) ==
  \/ SeesDrain(w) \/ Requeue(w) \/ NoDrain(w)
  \/ MarkCrossEpoch(w) \/ MarkStarted(w) \/ Attempt(w)
  \/ \E fails \in BOOLEAN : MinerSettles(w, fails)
  \/ ValidatorFault(w) \/ MinerBusy(w)
  \/ \E fits \in BOOLEAN : Reschedule(w, fits)
  \/ UnmarkCrossEpoch(w) \/ MarkFinished(w)

Next ==
  \/ SetupStep
  \/ MainStep
  \/ \E w \in Workers : WorkerStep(w) \/ \E x \in queue : Dequeue(w, x)
  \/ \E e \in closing : CloseEnds(e)
  \/ DrainChanges

Spec == Init /\ [][Next]_vars

\* Every thread goes on running.  A request is bounded per read only, so a
\* miner that keeps sending may hold the worker in "run" for ever.
LiveSpec ==
  /\ Spec
  /\ \A w \in Workers : WF_vars(WorkerStep(w) /\ ~At(w, "run"))

----------------------------------------------------------------------------
(***************************************************************************)
(* Properties                                                               *)
(***************************************************************************)
WorkerPcs == { "idle", "ready", "requeueUnstarted", "requeueStarted",
               "requeuePreHttp", "requeueGate", "mark", "marked", "attempt",
               "send", "preHttp", "run", "busy", "reschedule", "unmark",
               "finish" }
WorkerType == [pc : WorkerPcs, id : Ids \cup {NoId}]
SchedType  == [epoch : {-1} \cup Epochs, tests : SUBSET Tests]
SetupType  == [pc : {"idle", "work", "sched", "plan", "register"},
               epoch : Epochs, todo : SUBSET Obls, tests : SUBSET Tests]
MainType   == [pc : {"idle", "drain", "classify", "neutralize", "freeze",
                     "start"},
               pend : SUBSET Tests, started : SUBSET Ids,
               unstarted : SUBSET Ids, retained : SUBSET Ids]

\* Every variable holds a value of its kind; the queued and in-flight markers
\* never fall below zero, although seal and workers both take them away.
TypeOK ==
  /\ cur \in Epochs /\ sealed \subseteq Epochs
  /\ sched \in SchedType /\ setup \in SetupType /\ main \in MainType
  /\ listed \in BOOLEAN
  /\ inventory \subseteq Tests /\ excused \in BOOLEAN
  /\ queue \subseteq Ids
  /\ queued \in [Epochs -> Nat] /\ inflight \in [Epochs -> Nat]
  /\ unfinished \subseteq Ids /\ cross \subseteq Ids
  /\ worker \in [Workers -> WorkerType]
  /\ attempts \in [Tests -> Nat]
  /\ rejected \subseteq Tests /\ drained \in BOOLEAN
  /\ frozen \in [Epochs -> SUBSET Tests]
  /\ pardoned \subseteq Epochs /\ closing \subseteq Epochs
  /\ answered \subseteq Ids /\ late \subseteq Ids /\ mislaid \subseteq Ids

\* "unfinished validator work is neutral for the closed epoch, never a miner
\* miss": an obligation the close is given was settled by the miner under that
\* epoch, or the close is told to skip the endpoint.
MissIsMinersFault ==
  \A e \in Epochs \ pardoned : \A t \in frozen[e] :
    <<e, t>> \in answered \cup late

\* Whatever faults, audits and slow or failed setups do, an obligation of its
\* own epoch that the close is given was settled by the miner, or is one of
\* the executions the validator mislaid: put back, planned or registered after
\* the seal had emptied the scheduler, dispatched again under the finally
\* block of its earlier execution, or ended by the validator's own fault
\* after the seal.  Nothing else becomes a miss.
MissIsExplained ==
  \A e \in Epochs \ pardoned : \A t \in frozen[e] :
    t[1] = e => <<e, t>> \in answered \cup late \cup mislaid

\* An obligation is never executed twice at the same time, whatever
\* rescheduling, audit requeues, stale setups and boundaries do with it.
OneExecution ==
  \A v, w \in Workers :
    v # w /\ At(v, "run") /\ At(w, "run") => id(v)[2] # id(w)[2]

\* The inductive strengthening of OneExecution.  A test is in one place: the
\* scheduler, the executor's queue, or the hands of one worker, which gives
\* it up when it puts it back in the scheduler or is through with it.
Holds(w) == worker[w].pc \notin {"idle", "unmark", "finish"}
Waits(t) == \E x \in queue : x[2] = t
Held(t) == \/ t \in sched.tests
           \/ Waits(t)
           \/ \E w \in Workers : Holds(w) /\ id(w)[2] = t

InOnePlace ==
  /\ \A t \in sched.tests :
       ~Waits(t) /\ \A w \in Workers : Holds(w) => id(w)[2] # t
  /\ \A x \in queue :
       /\ \A y \in queue : x[2] = y[2] => x = y
       /\ \A w \in Workers : Holds(w) => id(w)[2] # x[2]
  /\ \A v, w \in Workers : v # w /\ Holds(v) /\ Holds(w) => id(v)[2] # id(w)[2]

\* Tests of the current epoch are about only if the epoch has its scheduler,
\* no test is of a later epoch, and what a setup has yet to plan is nowhere.
PlannedOnce ==
  /\ \A t \in Tests : Held(t) => t[1] <= cur /\ (t[1] = cur => sched.epoch = cur)
  /\ setup.pc \in {"work", "sched"} => sched = NoSched
  /\ setup.pc # "idle" => /\ setup.epoch <= cur
                         /\ \A o \in setup.todo : ~Held(<<setup.epoch, o>>)

\* What _auto_update_busy reports: "whether restarting could destroy live
\* validator work".
AutoUpdateBusy ==
  \/ setup.pc # "idle"
  \/ closing # {}
  \/ \E e \in Epochs : inflight[e] > 0 \/ queued[e] > 0

\* The updater sees the work of the epoch until it is sealed.
EpochWorkIsBusy ==
  /\ main.pc \in {"idle", "drain", "classify"}
  /\ \E w \in Workers : At(w, "run") /\ id(w)[1] = cur
  => AutoUpdateBusy

\* An execution started before the boundary reaches a terminal outcome, as
\* long as no miner holds a worker's request open for ever: its mark does not
\* stay behind.
StartedTerminates ==
  (\A w \in Workers : []<>~At(w, "run")) =>
    \A x \in Ids : x \in cross ~> x \notin cross
============================================================================
