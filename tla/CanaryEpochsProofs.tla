------------------------- MODULE CanaryEpochsProofs -------------------------
(***************************************************************************)
(* Proofs about CanaryEpochs, for every set of obligations and workers and  *)
(* every number of epochs, with slow and failing setups and audit drains.   *)
(***************************************************************************)
EXTENDS CanaryEpochs, FiniteSetTheorems, TLAPS

----------------------------------------------------------------------------
(***************************************************************************)
(* Types                                                                    *)
(***************************************************************************)

\* The tests a block finds due are finitely many, so the queued marker, which
\* grows by their number, stays a number.
LEMMA DueIsFinite ==
  ASSUME NEW due \in SUBSET Tests
  PROVE  Cardinality(due) \in Nat
<1>1. IsFiniteSet(Epochs)
  BY FS_Interval, CanaryAssumption DEF Epochs
<1>2. IsFiniteSet(Tests)
  BY <1>1, FS_Product, CanaryAssumption DEF Tests
<1>3. IsFiniteSet(due)
  BY <1>2, FS_Subset
<1> QED
  BY <1>3, FS_CardinalityType

\* One marker less is still a number.
LEMMA LessTyped ==
  ASSUME NEW f \in [Epochs -> Nat], NEW e \in Epochs
  PROVE  Less(f, e) \in [Epochs -> Nat]
<1> DEFINE n == IF f[e] > 0 THEN f[e] - 1 ELSE 0
<1>1. n \in Nat
  OBVIOUS
<1>2. Less(f, e) = [f EXCEPT ![e] = n]
  BY DEF Less
<1> HIDE DEF n
<1> QED
  BY <1>1, <1>2

\* A worker that is not idle has an execution in its hands.
TypedWorkers ==
  /\ worker \in [Workers -> WorkerType]
  /\ \A w \in Workers : worker[w].pc # "idle" => worker[w].id \in Ids

\* While the seal is under way there is a next epoch for it to lead to.
SealHasNext == main.pc # "idle" => cur < MaxEpoch

TypeInv == TypeOK /\ TypedWorkers /\ SealHasNext

\* Moving a busy worker to another step changes that step only.
LEMMA GotoTyped ==
  ASSUME TypedWorkers, NEW w \in Workers, worker[w].pc # "idle",
         NEW p \in WorkerPcs, Goto(w, p)
  PROVE  /\ TypedWorkers'
         /\ worker'[w].pc = p /\ worker'[w].id = worker[w].id
         /\ \A v \in Workers \ {w} : worker'[v] = worker[v]
<1>1. worker' = [worker EXCEPT ![w] = [worker[w] EXCEPT !.pc = p]]
  BY DEF Goto
<1>2. [worker[w] EXCEPT !.pc = p] = [pc |-> p, id |-> worker[w].id]
  BY DEF TypedWorkers, WorkerType
<1> QED
  BY <1>1, <1>2 DEF TypedWorkers, WorkerType

\* Neither does setting it idle, or giving it a test.
LEMMA SetTyped ==
  ASSUME TypedWorkers, NEW w \in Workers, NEW r,
         r = Idle \/ r \in [pc : WorkerPcs, id : Ids],
         worker' = [worker EXCEPT ![w] = r]
  PROVE  /\ TypedWorkers'
         /\ worker'[w] = r
         /\ \A v \in Workers \ {w} : worker'[v] = worker[v]
  BY DEF TypedWorkers, WorkerType, Idle, WorkerPcs

\* The values the threads start from are of their types.
LEMMA FreshTyped ==
  /\ NoSched \in SchedType
  /\ SetupIdle \in SetupType
  /\ \A e \in Epochs : SetUp(e) \in SetupType
  /\ MainIdle \in MainType
  BY CanaryAssumption DEF Epochs, NoSched, SetupIdle, SetUp, MainIdle, SchedType,
    SetupType, MainType

\* Taking tests out of the scheduler keeps its type.
LEMMA UnscheduleTyped ==
  ASSUME NEW ts, sched \in SchedType, setup \in SetupType, Unschedule(ts)
  PROVE  sched' \in SchedType /\ setup' \in SetupType
<1>1. sched' \in SchedType
  BY DEF Unschedule, SchedType
<1>2. [setup EXCEPT !.tests = @ \ ts] \in SetupType
  BY DEF SetupType
<1> QED
  BY <1>1, <1>2 DEF Unschedule

\* The setup thread keeps the types.
LEMMA SetupKeepsType ==
  ASSUME TypeInv, SetupStep
  PROVE  TypeInv'
<1> USE DEF TypeInv, SealHasNext, schedVars, books, owed, testVars, history
<1>1. CASE SetupWithoutEndpoint
  BY <1>1, FreshTyped DEF TypeOK, TypedWorkers, SetupWithoutEndpoint
<1>2. CASE SetupRaises
  BY <1>2, FreshTyped DEF TypeOK, TypedWorkers, SetupRaises
<1>3. CASE SetupResets
  <2>1. setup' \in SetupType
    BY <1>3 DEF SetupResets, TypeOK, SetupType
  <2> QED
    BY <1>3, <2>1 DEF TypeOK, TypedWorkers, SetupResets
<1>4. CASE SetupScheduler
  <2>1. setup' \in SetupType /\ sched' \in SchedType
    BY <1>4 DEF SetupScheduler, TypeOK, SetupType, SchedType
  <2> QED
    BY <1>4, <2>1 DEF TypeOK, TypedWorkers, SetupScheduler
<1>5. ASSUME NEW o \in Obls, SetupPlans(o)
      PROVE  TypeInv'
  <2>1. setup \in SetupType /\ sched \in SchedType
    BY DEF TypeOK
  <2>2. <<setup.epoch, o>> \in Tests
    BY <2>1 DEF Tests, SetupType
  <2>3. setup' \in SetupType
    BY <1>5, <2>1, <2>2 DEF SetupPlans, SetupType
  <2>4. sched' \in SchedType
    BY <1>5, <2>1, <2>2 DEF SetupPlans, SchedType
  <2>5. mislaid' \subseteq Ids
    BY <1>5, <2>1, <2>2 DEF SetupPlans, TypeOK, Ids
  <2> QED
    BY <1>5, <2>3, <2>4, <2>5 DEF TypeOK, TypedWorkers, SetupPlans
<1>6. CASE SetupPlanned
  <2>1. setup' \in SetupType
    BY <1>6 DEF SetupPlanned, TypeOK, SetupType
  <2> QED
    BY <1>6, <2>1 DEF TypeOK, TypedWorkers, SetupPlanned
<1>7. CASE SetupRegisters
  <2>1. setup' \in SetupType /\ inventory' \subseteq Tests
    BY <1>7, FreshTyped DEF SetupRegisters, TypeOK, SetupType
  <2>2. mislaid' \subseteq Ids
    BY <1>7 DEF SetupRegisters, TypeOK, SetupType, Ids
  <2> QED
    BY <1>7, <2>1, <2>2 DEF TypeOK, TypedWorkers, SetupRegisters
<1> QED
  BY <1>1, <1>2, <1>3, <1>4, <1>5, <1>6, <1>7 DEF SetupStep

\* So does the block loop.
LEMMA MainKeepsType ==
  ASSUME TypeInv, MainStep
  PROVE  TypeInv'
<1> USE DEF TypeInv, SealHasNext, schedVars, books, owed, testVars, history
<1>1. ASSUME NEW due \in SUBSET sched.tests, Dispatch(due)
      PROVE  TypeInv'
  <2>1. due \subseteq Tests
    BY DEF TypeOK, SchedType
  <2>2. {<<cur, t>> : t \in due} \subseteq Ids
    BY <2>1 DEF TypeOK, Ids
  <2>3. queued' \in [Epochs -> Nat]
    <3>1. Cardinality(due) \in Nat
      BY <2>1, DueIsFinite
    <3>2. queued' = [queued EXCEPT ![cur] = queued[cur] + Cardinality(due)]
      BY <1>1 DEF Dispatch
    <3> QED
      BY <3>1, <3>2 DEF TypeOK
  <2>4. sched' \in SchedType /\ setup' \in SetupType
    BY <1>1, UnscheduleTyped DEF Dispatch, TypeOK
  <2> QED
    BY <1>1, <2>2, <2>3, <2>4 DEF TypeOK, TypedWorkers, Dispatch
<1>2. CASE RetryEpochStart
  BY <1>2, FreshTyped DEF TypeOK, TypedWorkers, RetryEpochStart
<1>3. CASE SealFence
  <2>1. main' \in MainType
    BY <1>3 DEF SealFence, MainIdle, MainType
  <2> QED
    BY <1>3, <2>1 DEF TypeOK, TypedWorkers, SealFence, BlockLoop
<1>4. CASE SealDrain
  <2>1. sched' \in SchedType /\ setup' \in SetupType
    BY <1>4, UnscheduleTyped DEF SealDrain, TypeOK
  <2>2. main' \in MainType
    BY <1>4 DEF SealDrain, TypeOK, MainType, SchedType
  <2> QED
    BY <1>4, <2>1, <2>2 DEF TypeOK, TypedWorkers, SealDrain
<1>5. CASE SealClassify
  <2>1. queued' \in [Epochs -> Nat] /\ inflight' \in [Epochs -> Nat]
    BY <1>5 DEF SealClassify, TypeOK
  <2>2. {<<cur, t>> : t \in main.pend} \subseteq Ids
    BY DEF TypeOK, MainType, Ids
  <2>3. main' \in MainType
    BY <1>5, <2>2 DEF SealClassify, TypeOK, MainType
  <2>4. main'.pc # "idle" /\ main.pc # "idle"
    BY <1>5 DEF SealClassify, TypeOK, MainType
  <2> QED
    BY <1>5, <2>1, <2>3, <2>4 DEF TypeOK, TypedWorkers, SealClassify
<1>6. CASE SealNeutralize
  <2>1. main' \in MainType
    BY <1>6 DEF SealNeutralize, TypeOK, MainType
  <2> QED
    BY <1>6, <2>1 DEF TypeOK, TypedWorkers, SealNeutralize
<1>7. CASE StartNewEpoch
  <2>1. cur' \in Epochs
    BY <1>7, CanaryAssumption DEF StartNewEpoch, TypeOK, Epochs
  <2>2. setup' \in SetupType /\ sched' \in SchedType
    BY <1>7, <2>1, FreshTyped DEF StartNewEpoch, TypeOK
  <2>3. main' \in MainType /\ main'.pc = "idle"
    BY <1>7, FreshTyped DEF StartNewEpoch, MainIdle
  <2> QED
    BY <1>7, <2>1, <2>2, <2>3 DEF TypeOK, TypedWorkers, StartNewEpoch
<1>8. CASE QueueEpochClose
  <2>1. main' \in MainType
    BY <1>8 DEF QueueEpochClose, TypeOK, MainType
  <2>2. frozen' \in [Epochs -> SUBSET Tests]
    BY <1>8 DEF QueueEpochClose, TypeOK
  <2> QED
    BY <1>8, <2>1, <2>2 DEF TypeOK, TypedWorkers, QueueEpochClose
<1> QED
  BY <1>1, <1>2, <1>3, <1>4, <1>5, <1>6, <1>7, <1>8 DEF MainStep

\* So does a worker.
LEMMA WorkerKeepsType ==
  ASSUME TypeInv, NEW w \in Workers, WorkerStep(w)
  PROVE  TypeInv'
<1> USE DEF TypeInv, SealHasNext, schedVars, books, owed, testVars, history
<1>1. CASE SeesDrain(w)
  <2>1. TypedWorkers'
    BY <1>1, GotoTyped DEF SeesDrain, At, WorkerPcs
  <2>2. worker[w].id \in Ids
    BY <1>1 DEF TypedWorkers, At, SeesDrain
  <2> QED
    BY <1>1, <2>1, <2>2 DEF TypeOK, TypedWorkers, id, SeesDrain
<1>2. CASE Requeue(w)
  <2>1. TypedWorkers'
    <3>1. CASE Return(w)
      BY <3>1, SetTyped DEF Return
    <3>2. CASE ~Return(w)
      BY <1>2, <3>2, GotoTyped DEF Requeue, At, WorkerPcs
    <3> QED
      BY <3>1, <3>2
  <2>2. worker[w].id \in Ids
    BY <1>2 DEF TypedWorkers, At, Requeue
  <2>3. sched' \in SchedType
    BY <1>2, <2>2 DEF Requeue, TypeOK, SchedType, id, Ids
  <2>4. mislaid' \subseteq Ids
    BY <1>2, <2>2 DEF Requeue, TypeOK, id
  <2> QED
    BY <1>2, <2>1, <2>3, <2>4 DEF TypeOK, TypedWorkers, id, Requeue
<1>3. CASE NoDrain(w)
  <2>1. TypedWorkers'
    BY <1>3, GotoTyped DEF NoDrain, At, WorkerPcs
  <2>2. worker[w].id \in Ids
    BY <1>3 DEF TypedWorkers, At, NoDrain
  <2> QED
    BY <1>3, <2>1, <2>2 DEF TypeOK, TypedWorkers, id, NoDrain
<1>4. CASE MarkCrossEpoch(w)
  <2>1. TypedWorkers'
    BY <1>4, GotoTyped DEF MarkCrossEpoch, At, WorkerPcs
  <2>2. worker[w].id \in Ids
    BY <1>4 DEF TypedWorkers, At, MarkCrossEpoch
  <2> QED
    BY <1>4, <2>1, <2>2 DEF TypeOK, TypedWorkers, id, MarkCrossEpoch
<1>5. CASE MarkStarted(w)
  <2>1. TypedWorkers'
    BY <1>5, GotoTyped DEF MarkStarted, At, WorkerPcs
  <2>2. worker[w].id \in Ids
    BY <1>5 DEF TypedWorkers, At, MarkStarted
  <2>3. inflight' \in [Epochs -> Nat]
    <3>1. worker[w].id[1] \in Epochs
      BY <2>2 DEF Ids
    <3> QED
      BY <1>5, <3>1 DEF MarkStarted, TypeOK, id
  <2> QED
    BY <1>5, <2>1, <2>2, <2>3 DEF TypeOK, TypedWorkers, id, MarkStarted
<1>6. CASE Attempt(w)
  <2>1. TypedWorkers'
    BY <1>6, GotoTyped DEF Attempt, At, WorkerPcs
  <2>2. worker[w].id \in Ids
    BY <1>6 DEF TypedWorkers, At, Attempt
  <2>3. attempts' \in [Tests -> Nat]
    <3>1. worker[w].id[2] \in Tests
      BY <2>2 DEF Ids
    <3> QED
      BY <1>6, <3>1 DEF Attempt, TypeOK, id
  <2> QED
    BY <1>6, <2>1, <2>2, <2>3 DEF TypeOK, TypedWorkers, id, Attempt
<1>7. ASSUME NEW fails \in BOOLEAN, MinerSettles(w, fails)
      PROVE  TypeInv'
  <2>1. TypedWorkers'
    BY <1>7, GotoTyped DEF MinerSettles, At, WorkerPcs
  <2>2. worker[w].id \in Ids
    BY <1>7 DEF TypedWorkers, At, MinerSettles
  <2> QED
    BY <1>7, <2>1, <2>2 DEF TypeOK, TypedWorkers, id, MinerSettles
<1>8. CASE ValidatorFault(w)
  <2>1. TypedWorkers'
    BY <1>8, GotoTyped DEF ValidatorFault, At, WorkerPcs
  <2>2. worker[w].id \in Ids
    BY <1>8 DEF TypedWorkers, At, ValidatorFault
  <2> QED
    BY <1>8, <2>1, <2>2 DEF TypeOK, TypedWorkers, id, ValidatorFault
<1>9. CASE MinerBusy(w)
  <2>1. TypedWorkers'
    BY <1>9, GotoTyped DEF MinerBusy, At, WorkerPcs
  <2>2. worker[w].id \in Ids
    BY <1>9 DEF TypedWorkers, At, MinerBusy
  <2>3. id(w)[2] \in Tests
    BY <1>9, <2>2 DEF id, Ids
  <2>4. rejected' \subseteq Tests /\ answered' \subseteq Ids /\ late' \subseteq Ids
    BY <1>9, <2>2, <2>3 DEF MinerBusy, TypeOK, id
  <2> QED
    BY <1>9, <2>1, <2>2, <2>3, <2>4 DEF TypeOK, TypedWorkers, id, MinerBusy
<1>10. ASSUME NEW fits \in BOOLEAN, Reschedule(w, fits)
      PROVE  TypeInv'
  <2>1. TypedWorkers'
    BY <1>10, GotoTyped DEF Reschedule, At, WorkerPcs
  <2>2. worker[w].id \in Ids
    BY <1>10 DEF TypedWorkers, At, Reschedule
  <2>3. sched' \in SchedType
    BY <1>10, <2>2 DEF Reschedule, TypeOK, SchedType, id, Ids
  <2> QED
    BY <1>10, <2>1, <2>2, <2>3 DEF TypeOK, TypedWorkers, id, Reschedule
<1>11. CASE UnmarkCrossEpoch(w)
  <2>1. TypedWorkers'
    BY <1>11, GotoTyped DEF UnmarkCrossEpoch, At, WorkerPcs
  <2>2. worker[w].id \in Ids
    BY <1>11 DEF TypedWorkers, At, UnmarkCrossEpoch
  <2> QED
    BY <1>11, <2>1, <2>2 DEF TypeOK, TypedWorkers, id, UnmarkCrossEpoch
<1>12. CASE MarkFinished(w)
  <2>1. TypedWorkers'
    BY <1>12, SetTyped DEF MarkFinished, Return
  <2>2. worker[w].id \in Ids
    BY <1>12 DEF TypedWorkers, At, MarkFinished
  <2>3. inflight' \in [Epochs -> Nat]
    <3>1. worker[w].id[1] \in Epochs
      BY <2>2 DEF Ids
    <3> QED
      BY <1>12, <3>1, LessTyped DEF MarkFinished, TypeOK, id
  <2> QED
    BY <1>12, <2>1, <2>2, <2>3 DEF TypeOK, TypedWorkers, id, MarkFinished
<1> QED
  BY <1>1, <1>2, <1>3, <1>4, <1>5, <1>6, <1>7, <1>8, <1>9, <1>10, <1>11,
    <1>12 DEF WorkerStep

\* Taking a test off the queue, the end of a close and a drain complete it.
LEMMA NextKeepsType ==
  ASSUME TypeInv, [Next]_vars
  PROVE  TypeInv'
<1> USE DEF TypeInv, SealHasNext, schedVars, books, owed, testVars, history
<1>1. ASSUME NEW w \in Workers, NEW x \in queue, Dequeue(w, x)
      PROVE  TypeInv'
  <2>1. x \in Ids /\ x[1] \in Epochs
    BY DEF TypeOK, Ids
  <2>2. [pc |-> "ready", id |-> x] \in [pc : WorkerPcs, id : Ids]
    BY <2>1 DEF WorkerPcs
  <2>3. TypedWorkers'
    <3>1. CASE EpochActive(x[1])
      BY <1>1, <2>2, <3>1, SetTyped DEF Dequeue
    <3>2. CASE ~EpochActive(x[1])
      BY <1>1, <3>2 DEF Dequeue, TypedWorkers
    <3> QED
      BY <3>1, <3>2
  <2>4. queued' \in [Epochs -> Nat]
    <3>1. queued' = Less(queued, x[1])
      BY <1>1 DEF Dequeue
    <3> QED
      BY <2>1, <3>1, LessTyped DEF TypeOK
  <2> QED
    BY <1>1, <2>3, <2>4 DEF TypeOK, TypedWorkers, Dequeue
<1>2. ASSUME NEW e \in closing, CloseEnds(e)
      PROVE  TypeInv'
  BY <1>2 DEF TypeOK, TypedWorkers, CloseEnds
<1>3. CASE DrainChanges
  BY <1>3 DEF TypeOK, TypedWorkers, DrainChanges
<1>4. CASE UNCHANGED vars
  BY <1>4 DEF TypeOK, TypedWorkers, vars
<1> QED
  BY <1>1, <1>2, <1>3, <1>4, SetupKeepsType, MainKeepsType, WorkerKeepsType
    DEF Next

LEMMA InitIsTyped == Init => TypeInv
<1> SUFFICES ASSUME Init PROVE TypeInv
  OBVIOUS
<1>1. TypedWorkers
  BY DEF Init, TypedWorkers, WorkerType, Idle, WorkerPcs
<1>2. main \in MainType /\ main.pc = "idle"
  BY FreshTyped DEF Init, MainIdle
<1>3. sched \in SchedType /\ setup \in SetupType
  BY FreshTyped, CanaryAssumption DEF Init, Epochs
<1>4. /\ queued \in [Epochs -> Nat] /\ inflight \in [Epochs -> Nat]
      /\ attempts \in [Tests -> Nat] /\ frozen \in [Epochs -> SUBSET Tests]
  BY DEF Init
<1>5. cur \in Epochs /\ sealed \subseteq Epochs
  BY CanaryAssumption DEF Init, Epochs
<1>6. listed \in BOOLEAN /\ excused \in BOOLEAN /\ drained \in BOOLEAN
  BY DEF Init
<1>7. /\ inventory \subseteq Tests /\ rejected \subseteq Tests
      /\ queue \subseteq Ids /\ unfinished \subseteq Ids /\ cross \subseteq Ids
      /\ pardoned \subseteq Epochs /\ closing \subseteq Epochs
      /\ answered \subseteq Ids /\ late \subseteq Ids /\ mislaid \subseteq Ids
  BY DEF Init
<1> QED
  BY <1>1, <1>2, <1>3, <1>4, <1>5, <1>6, <1>7 DEF TypeInv, SealHasNext, TypeOK,
    TypedWorkers

\* Every variable keeps its type and no marker falls below zero, although seal
\* and workers both take the markers away (_mark_canary_dequeued,
\* _mark_canary_finished, _seal_canary_epoch_for_close).
THEOREM TypeCorrect == Spec => []TypeOK
<1>1. Init => TypeInv
  BY InitIsTyped
<1>2. TypeInv /\ [Next]_vars => TypeInv'
  BY NextKeepsType
<1>3. TypeInv => TypeOK
  BY DEF TypeInv
<1> QED
  BY <1>1, <1>2, <1>3, PTL DEF Spec

----------------------------------------------------------------------------
(***************************************************************************)
(* Places                                                                   *)
(***************************************************************************)

\* A step after which every test is where it was, or nowhere, keeps each test
\* in one place.
LEMMA ShrinkKeepsPlaces ==
  ASSUME InOnePlace,
         sched'.tests \subseteq sched.tests,
         queue' \subseteq queue,
         \A w \in Workers : Holds(w)' => Holds(w) /\ id(w)' = id(w)
  PROVE  InOnePlace'
<1>1. \A t : Waits(t)' => Waits(t)
  BY DEF Waits
<1>2. (\A t \in sched.tests :
         ~Waits(t) /\ \A w \in Workers : Holds(w) => id(w)[2] # t)'
  BY <1>1 DEF InOnePlace
<1>3. (\A x \in queue :
         /\ \A y \in queue : x[2] = y[2] => x = y
         /\ \A w \in Workers : Holds(w) => id(w)[2] # x[2])'
  BY DEF InOnePlace
<1>4. (\A v, w \in Workers :
         v # w /\ Holds(v) /\ Holds(w) => id(v)[2] # id(w)[2])'
  BY DEF InOnePlace
<1> QED
  BY <1>2, <1>3, <1>4 DEF InOnePlace

LEMMA ShrinkHeld ==
  ASSUME sched'.tests \subseteq sched.tests,
         queue' \subseteq queue,
         \A w \in Workers : Holds(w)' => Holds(w) /\ id(w)' = id(w)
  PROVE  \A t : Held(t)' => Held(t)
  BY DEF Held, Waits

\* A step that leaves the epoch and the scheduler's epoch alone, gives no
\* test a new place and plans nothing new keeps PlannedOnce.
LEMMA ShrinkKeepsPlan ==
  ASSUME PlannedOnce,
         cur' = cur, sched'.epoch = sched.epoch,
         setup'.pc # "idle" =>
           /\ setup.pc # "idle" /\ setup'.epoch = setup.epoch
           /\ setup'.todo \subseteq setup.todo,
         setup'.pc \in {"work", "sched"} => sched' = NoSched,
         \A t : Held(t)' => Held(t)
  PROVE  PlannedOnce'
  BY DEF PlannedOnce

\* A worker that puts its test back in the scheduler gives it up.
LEMMA GiveBack ==
  ASSUME InOnePlace, NEW w \in Workers, Holds(w), ~Holds(w)',
         sched'.tests = sched.tests \cup {id(w)[2]},
         queue' = queue,
         \A v \in Workers \ {w} : worker'[v] = worker[v]
  PROVE  InOnePlace' /\ \A t : Held(t)' => Held(t)
<1>1. \A v \in Workers : Holds(v)' => v # w /\ Holds(v) /\ id(v)' = id(v)
  BY DEF Holds, id
<1>2. \A t : Waits(t)' <=> Waits(t)
  BY DEF Waits
<1>3. \A t : Held(t)' => Held(t)
  BY <1>1, <1>2 DEF Held
<1>4. ~Waits(id(w)[2])
  BY DEF InOnePlace, Waits
<1>5. (\A t \in sched.tests :
         ~Waits(t) /\ \A v \in Workers : Holds(v) => id(v)[2] # t)'
  BY <1>1, <1>2, <1>4 DEF InOnePlace
<1>6. (\A x \in queue :
         /\ \A y \in queue : x[2] = y[2] => x = y
         /\ \A v \in Workers : Holds(v) => id(v)[2] # x[2])'
  BY <1>1 DEF InOnePlace
<1>7. (\A u, v \in Workers :
         u # v /\ Holds(u) /\ Holds(v) => id(u)[2] # id(v)[2])'
  BY <1>1 DEF InOnePlace
<1> QED
  BY <1>3, <1>5, <1>6, <1>7 DEF InOnePlace

PlaceInv == InOnePlace /\ PlannedOnce

\* The setup puts each obligation of its epoch in the scheduler once.
LEMMA SetupKeepsPlaces ==
  ASSUME TypeInv, PlaceInv, SetupStep
  PROVE  PlaceInv'
<1> USE DEF PlaceInv
<1>1. queue' = queue /\ worker' = worker /\ cur' = cur
  BY DEF SetupStep, SetupWithoutEndpoint, SetupRaises, SetupResets,
    SetupScheduler, SetupPlans, SetupPlanned, SetupRegisters
<1>2. \A w \in Workers : Holds(w)' => Holds(w) /\ id(w)' = id(w)
  BY <1>1 DEF Holds, id
<1>3. ASSUME sched' = sched,
             setup'.pc # "idle" =>
               /\ setup.pc # "idle" /\ setup'.epoch = setup.epoch
               /\ setup'.todo \subseteq setup.todo,
             setup'.pc \in {"work", "sched"} => sched' = NoSched
      PROVE  PlaceInv'
  BY <1>1, <1>2, <1>3, ShrinkKeepsPlaces, ShrinkHeld, ShrinkKeepsPlan
<1>4. CASE SetupWithoutEndpoint \/ SetupRaises \/ SetupRegisters
  BY <1>3, <1>4 DEF SetupWithoutEndpoint, SetupRaises, SetupRegisters,
    PlannedOnce, SetupIdle
<1>5. CASE SetupResets \/ SetupPlanned
  BY <1>3, <1>5 DEF SetupResets, SetupPlanned, PlannedOnce, TypeInv, TypeOK,
    SetupType
<1>6. CASE SetupScheduler
  <2>1. sched.epoch = -1 /\ sched.tests = {} /\ sched'.tests = {}
    BY <1>6 DEF SetupScheduler, PlannedOnce, NoSched
  <2>2. InOnePlace' /\ \A t : Held(t)' => Held(t)
    BY <1>1, <1>2, <2>1, ShrinkKeepsPlaces, ShrinkHeld
  <2>3. \A t \in Tests : Held(t) => t[1] <= cur /\ t[1] # cur
    BY <2>1 DEF PlannedOnce, TypeInv, TypeOK, Epochs
  <2>4. setup'.pc = "plan" /\ setup'.epoch = setup.epoch
        /\ setup'.todo = setup.todo /\ setup.pc # "idle"
    BY <1>6 DEF SetupScheduler, TypeInv, TypeOK, SetupType
  <2> QED
    BY <1>1, <2>2, <2>3, <2>4 DEF PlannedOnce
<1>7. ASSUME NEW o \in Obls, SetupPlans(o)
      PROVE  PlaceInv'
  <2> DEFINE t == <<setup.epoch, o>>
  <2>1. /\ setup.pc = "plan" /\ setup'.pc = "plan"
        /\ setup'.epoch = setup.epoch /\ setup'.todo = setup.todo \ {o}
        /\ o \in setup.todo
    BY <1>7 DEF SetupPlans, TypeInv, TypeOK, SetupType
  <2>2. ~Held(t) /\ t[1] <= cur
    BY <2>1 DEF PlannedOnce
  <2>3. CASE sched.epoch # setup.epoch
    BY <1>3, <1>7, <2>1, <2>3 DEF SetupPlans
  <2>4. CASE sched.epoch = setup.epoch
    <3>1. sched'.tests = sched.tests \cup {t} /\ sched'.epoch = sched.epoch
      BY <1>7, <2>4 DEF SetupPlans, TypeInv, TypeOK, SchedType
    <3>2. \A u : Held(u)' => Held(u) \/ u = t
      BY <1>1, <1>2, <3>1 DEF Held, Waits
    <3>3. InOnePlace'
      BY <1>1, <1>2, <2>2, <3>1 DEF InOnePlace, Held, Waits, Holds, id
    <3>4. \A q \in setup'.todo : <<setup.epoch, q>> # t
      BY <2>1
    <3> QED
      BY <1>1, <2>1, <2>2, <2>4, <3>1, <3>2, <3>3, <3>4 DEF PlannedOnce
  <2> QED
    BY <2>3, <2>4
<1> QED
  BY <1>4, <1>5, <1>6, <1>7 DEF SetupStep

\* The block loop moves tests from the scheduler to the queue, and an epoch
\* begins with no test of its own about.
LEMMA MainKeepsPlaces ==
  ASSUME TypeInv, PlaceInv, MainStep
  PROVE  PlaceInv'
<1> USE DEF PlaceInv
<1>1. worker' = worker
  BY DEF MainStep, Dispatch, RetryEpochStart, SealFence, SealDrain,
    SealClassify, SealNeutralize, QueueEpochClose, StartNewEpoch
<1>2. \A w \in Workers : Holds(w)' => Holds(w) /\ id(w)' = id(w)
  BY <1>1 DEF Holds, id
<1>3. ASSUME NEW ts, Unschedule(ts)
      PROVE  /\ sched'.tests = sched.tests \ ts /\ sched'.epoch = sched.epoch
             /\ setup'.pc = setup.pc /\ setup'.epoch = setup.epoch
             /\ setup'.todo = setup.todo
             /\ setup'.pc \in {"work", "sched"} => sched' = NoSched
  <2>1. sched'.tests = sched.tests \ ts /\ sched'.epoch = sched.epoch
    BY <1>3 DEF Unschedule, TypeInv, TypeOK, SchedType
  <2>2. /\ setup'.pc = setup.pc /\ setup'.epoch = setup.epoch
        /\ setup'.todo = setup.todo
    BY <1>3 DEF Unschedule, TypeInv, TypeOK, SetupType
  <2>3. sched = NoSched => sched' = NoSched
    BY <1>3 DEF Unschedule, NoSched
  <2> QED
    BY <2>1, <2>2, <2>3 DEF PlannedOnce
<1>4. ASSUME NEW due \in SUBSET sched.tests, Dispatch(due)
      PROVE  PlaceInv'
  <2>1. Unschedule(due) /\ cur' = cur
        /\ queue' = queue \cup {<<cur, t>> : t \in due}
    BY <1>4 DEF Dispatch
  <2>2. sched'.tests = sched.tests \ due
    BY <1>3, <2>1
  <2>3. \A t : Waits(t)' => Waits(t) \/ t \in due
    BY <2>1 DEF Waits
  <2>4. \A t : Held(t)' => Held(t)
    BY <1>2, <2>2, <2>3 DEF Held
  <2>5. (\A t \in sched.tests :
           ~Waits(t) /\ \A w \in Workers : Holds(w) => id(w)[2] # t)'
    BY <1>2, <2>2, <2>3 DEF InOnePlace
  <2>6. (\A x \in queue :
           /\ \A y \in queue : x[2] = y[2] => x = y
           /\ \A w \in Workers : Holds(w) => id(w)[2] # x[2])'
    BY <1>2, <2>1 DEF InOnePlace, Waits
  <2>7. InOnePlace'
    BY <1>1, <2>5, <2>6 DEF InOnePlace, Holds, id
  <2> QED
    BY <1>3, <2>1, <2>4, <2>7, ShrinkKeepsPlan
<1>5. CASE SealDrain
  <2>1. \E ts : Unschedule(ts)
    BY <1>5 DEF SealDrain
  <2>2. queue' = queue /\ cur' = cur
    BY <1>5 DEF SealDrain
  <2> QED
    BY <1>2, <1>3, <2>1, <2>2, ShrinkKeepsPlaces, ShrinkHeld, ShrinkKeepsPlan
<1>6. CASE SealFence \/ SealClassify \/ SealNeutralize \/ QueueEpochClose
  <2>1. sched' = sched /\ setup' = setup /\ queue' = queue /\ cur' = cur
    BY <1>6 DEF SealFence, SealClassify, SealNeutralize, QueueEpochClose,
      schedVars
  <2>2. setup'.pc \in {"work", "sched"} => sched' = NoSched
    BY <2>1 DEF PlannedOnce
  <2> QED
    BY <1>2, <2>1, <2>2, ShrinkKeepsPlaces, ShrinkHeld, ShrinkKeepsPlan
<1>7. CASE RetryEpochStart
  <2>1. /\ sched' = NoSched /\ sched'.tests = {}
        /\ queue' = queue /\ cur' = cur /\ sched.epoch # cur
        /\ setup'.epoch = cur /\ setup'.pc = "work"
    BY <1>7 DEF RetryEpochStart, NoSched, SetUp
  <2>2. InOnePlace' /\ \A t : Held(t)' => Held(t)
    BY <1>2, <2>1, ShrinkKeepsPlaces, ShrinkHeld
  <2>3. \A t \in Tests : Held(t) => t[1] <= cur /\ t[1] # cur
    BY <2>1 DEF PlannedOnce
  <2>4. \A o \in setup'.todo : <<cur, o>> \in Tests
    BY <1>7 DEF RetryEpochStart, SetUp, Tests, TypeInv, TypeOK
  <2> QED
    BY <2>1, <2>2, <2>3, <2>4 DEF PlannedOnce, TypeInv, TypeOK, Epochs
<1>8. CASE StartNewEpoch
  <2>1. /\ sched' = NoSched /\ sched'.tests = {}
        /\ queue' \subseteq queue /\ cur' = cur + 1 /\ cur' \in Epochs
    BY <1>8, CanaryAssumption DEF StartNewEpoch, NoSched, TypeInv, TypeOK,
      SealHasNext, Epochs
  <2>2. InOnePlace' /\ \A t : Held(t)' => Held(t)
    BY <1>2, <2>1, ShrinkKeepsPlaces, ShrinkHeld
  <2>3. \A t \in Tests : Held(t) => t[1] < cur'
    BY <2>1 DEF PlannedOnce, TypeInv, TypeOK, Tests, Epochs
  <2>4. CASE setup.pc = "idle"
    <3>1. setup'.epoch = cur' /\ setup'.todo = Obls
      BY <1>8, <2>1, <2>4 DEF StartNewEpoch, SetUp
    <3>2. \A o \in setup'.todo : <<cur', o>> \in Tests /\ <<cur', o>>[1] = cur'
      BY <2>1, <3>1 DEF Tests
    <3>3. \A o \in setup'.todo : ~Held(<<cur', o>>)
      BY <2>1, <2>3, <3>2
    <3> QED
      BY <2>1, <2>2, <2>3, <3>1, <3>3 DEF PlannedOnce, Tests, Epochs
  <2>5. CASE setup.pc # "idle"
    <3>1. setup' = setup
      BY <1>8, <2>5 DEF StartNewEpoch
    <3>2. setup'.epoch <= cur'
      BY <2>1, <2>5, <3>1 DEF PlannedOnce, TypeInv, TypeOK, SetupType, Epochs
    <3> QED
      BY <2>1, <2>2, <2>3, <2>5, <3>1, <3>2 DEF PlannedOnce, Tests, Epochs
  <2> QED
    BY <2>4, <2>5
<1> QED
  BY <1>4, <1>5, <1>6, <1>7, <1>8 DEF MainStep

\* A worker gives up its test before, or when, it puts it back.
LEMMA WorkerKeepsPlaces ==
  ASSUME TypeInv, PlaceInv, NEW w \in Workers, WorkerStep(w)
  PROVE  PlaceInv'
<1> USE DEF PlaceInv
<1>1. queue' = queue /\ cur' = cur /\ setup' = setup
  BY DEF WorkerStep, SeesDrain, Requeue, NoDrain, MarkCrossEpoch, MarkStarted,
    Attempt, MinerSettles, ValidatorFault, MinerBusy, Reschedule,
    UnmarkCrossEpoch, MarkFinished, schedVars
<1>2. ASSUME sched' = sched,
             \A v \in Workers : Holds(v)' => Holds(v) /\ id(v)' = id(v)
      PROVE  PlaceInv'
  <2>1. setup'.pc \in {"work", "sched"} => sched' = NoSched
    BY <1>1, <1>2 DEF PlannedOnce
  <2> QED
    BY <1>1, <1>2, <2>1, ShrinkKeepsPlaces, ShrinkHeld, ShrinkKeepsPlan
<1>3. ASSUME NEW p \in WorkerPcs, worker[w].pc # "idle", Goto(w, p),
             p \notin {"unmark", "finish"} => Holds(w), sched' = sched
      PROVE  PlaceInv'
  <2>1. \A v \in Workers : Holds(v)' => Holds(v) /\ id(v)' = id(v)
    BY <1>3, GotoTyped DEF Holds, id, TypeInv
  <2> QED
    BY <1>2, <1>3, <2>1
<1>4. ASSUME Holds(w), ~Holds(w)', sched.epoch = id(w)[1],
             sched' = [sched EXCEPT !.tests = @ \cup {id(w)[2]}],
             \A v \in Workers \ {w} : worker'[v] = worker[v]
      PROVE  PlaceInv'
  <2>1. sched'.tests = sched.tests \cup {id(w)[2]} /\ sched'.epoch = sched.epoch
    BY <1>4 DEF TypeInv, TypeOK, SchedType
  <2>2. sched # NoSched
    BY <1>4 DEF NoSched, Holds, id, TypeInv, TypedWorkers, Ids, Epochs
  <2>3. InOnePlace' /\ \A t : Held(t)' => Held(t)
    BY <1>1, <1>4, <2>1, GiveBack
  <2> QED
    BY <1>1, <2>1, <2>2, <2>3, ShrinkKeepsPlan DEF PlannedOnce
<1>5. CASE SeesDrain(w)
  BY <1>3, <1>5 DEF SeesDrain, At, Holds, WorkerPcs, schedVars
<1>6. CASE Requeue(w)
  <2>1. worker[w].pc \in {"requeueUnstarted", "requeueStarted",
                         "requeuePreHttp", "requeueGate"}
    BY <1>6 DEF Requeue, At
  <2>2. Holds(w)
    BY <2>1 DEF Holds
  <2>3. CASE sched.epoch = id(w)[1]
    <3>1. Return(w) \/ Goto(w, "unmark")
      BY <1>6, <2>3 DEF Requeue
    <3>2. ~Holds(w)' /\ \A v \in Workers \ {w} : worker'[v] = worker[v]
      <4>1. CASE Return(w)
        <5>1. worker'[w] = Idle /\ \A v \in Workers \ {w} : worker'[v] = worker[v]
          BY <4>1, SetTyped DEF Return, TypeInv
        <5> QED
          BY <5>1 DEF Holds, Idle
      <4>2. CASE Goto(w, "unmark")
        BY <2>1, <4>2, GotoTyped DEF Holds, WorkerPcs, TypeInv
      <4> QED
        BY <3>1, <4>1, <4>2
    <3>3. sched' = [sched EXCEPT !.tests = @ \cup {id(w)[2]}]
      BY <1>6, <2>3 DEF Requeue
    <3> QED
      BY <1>4, <2>2, <2>3, <3>2, <3>3
  <2>4. CASE sched.epoch # id(w)[1]
    <3>1. \/ Goto(w, "mark") \/ Goto(w, "send")
          \/ Goto(w, "run") \/ Goto(w, "busy")
      BY <1>6, <2>4 DEF Requeue
    <3>2. sched' = sched
      BY <1>6, <2>4 DEF Requeue
    <3> QED
      BY <1>3, <2>1, <2>2, <3>1, <3>2 DEF WorkerPcs
  <2> QED
    BY <2>3, <2>4
<1>7. CASE NoDrain(w) \/ MarkCrossEpoch(w) \/ MarkStarted(w)
  BY <1>3, <1>7 DEF NoDrain, MarkCrossEpoch, MarkStarted, At, Holds, WorkerPcs,
    schedVars
<1>8. CASE Attempt(w) \/ ValidatorFault(w)
  BY <1>3, <1>8 DEF Attempt, ValidatorFault, At, Holds, WorkerPcs, schedVars
<1>9. CASE \E fails \in BOOLEAN : MinerSettles(w, fails)
  BY <1>3, <1>9 DEF MinerSettles, At, Holds, WorkerPcs, schedVars
<1>10. CASE MinerBusy(w)
  BY <1>3, <1>10 DEF MinerBusy, At, Holds, WorkerPcs, schedVars
<1>11. ASSUME NEW fits \in BOOLEAN, Reschedule(w, fits)
       PROVE  PlaceInv'
  <2>1. worker[w].pc = "reschedule" /\ Goto(w, "unmark")
    BY <1>11 DEF Reschedule, At
  <2>2. CASE fits
    <3>1. ~Holds(w)' /\ \A v \in Workers \ {w} : worker'[v] = worker[v]
      BY <2>1, GotoTyped DEF Holds, WorkerPcs, TypeInv
    <3> QED
      BY <1>4, <1>11, <2>1, <2>2, <3>1 DEF Reschedule, Holds
  <2>3. CASE ~fits
    BY <1>3, <1>11, <2>1, <2>3 DEF Reschedule, WorkerPcs
  <2> QED
    BY <2>2, <2>3
<1>12. CASE UnmarkCrossEpoch(w)
  BY <1>3, <1>12 DEF UnmarkCrossEpoch, At, WorkerPcs, schedVars
<1>13. CASE MarkFinished(w)
  <2>1. \A v \in Workers : Holds(v)' => Holds(v) /\ id(v)' = id(v)
    BY <1>13, SetTyped DEF MarkFinished, Return, Holds, id, Idle, TypeInv
  <2> QED
    BY <1>2, <1>13, <2>1 DEF MarkFinished, schedVars
<1> QED
  BY <1>5, <1>6, <1>7, <1>8, <1>9, <1>10, <1>11, <1>12, <1>13 DEF WorkerStep

LEMMA NextKeepsPlaces ==
  ASSUME TypeInv, PlaceInv, [Next]_vars
  PROVE  PlaceInv'
<1> USE DEF PlaceInv
<1>1. ASSUME NEW w \in Workers, NEW x \in queue, Dequeue(w, x)
      PROVE  PlaceInv'
  <2>1. /\ queue' = queue \ {x} /\ cur' = cur /\ sched' = sched
        /\ setup' = setup /\ ~Holds(w)
    BY <1>1 DEF Dequeue, At, Holds, schedVars
  <2>2. \A v \in Workers : Holds(v)' =>
          \/ v # w /\ Holds(v) /\ id(v)' = id(v)
          \/ v = w /\ id(v)' = x
    <3>1. CASE EpochActive(x[1])
      BY <1>1, <3>1 DEF Dequeue, Holds, id, TypeInv, TypedWorkers
    <3>2. CASE ~EpochActive(x[1])
      BY <1>1, <2>1, <3>2 DEF Dequeue, Holds, id
    <3> QED
      BY <3>1, <3>2
  <2>3. \A t : Waits(t)' => Waits(t)
    BY <2>1 DEF Waits
  <2>4. Waits(x[2])
    BY DEF Waits
  <2>5. \A t : Held(t)' => Held(t)
    BY <2>1, <2>2, <2>3, <2>4 DEF Held
  <2>6. (\A t \in sched.tests :
           ~Waits(t) /\ \A v \in Workers : Holds(v) => id(v)[2] # t)'
    BY <2>1, <2>2, <2>3, <2>4 DEF InOnePlace
  <2>7. (\A z \in queue :
           /\ \A y \in queue : z[2] = y[2] => z = y
           /\ \A v \in Workers : Holds(v) => id(v)[2] # z[2])'
    BY <2>1, <2>2 DEF InOnePlace
  <2>8. (\A u, v \in Workers :
           u # v /\ Holds(u) /\ Holds(v) => id(u)[2] # id(v)[2])'
    BY <2>2 DEF InOnePlace
  <2>9. InOnePlace'
    BY <2>6, <2>7, <2>8 DEF InOnePlace
  <2>10. setup'.pc \in {"work", "sched"} => sched' = NoSched
    BY <2>1 DEF PlannedOnce
  <2> QED
    BY <2>1, <2>5, <2>9, <2>10, ShrinkKeepsPlan
<1>2. ASSUME sched' = sched, setup' = setup, queue' = queue, cur' = cur,
             worker' = worker
      PROVE  PlaceInv'
  <2>1. \A w \in Workers : Holds(w)' => Holds(w) /\ id(w)' = id(w)
    BY <1>2 DEF Holds, id
  <2>2. setup'.pc \in {"work", "sched"} => sched' = NoSched
    BY <1>2 DEF PlannedOnce
  <2> QED
    BY <1>2, <2>1, <2>2, ShrinkKeepsPlaces, ShrinkHeld, ShrinkKeepsPlan
<1>3. CASE (\E e \in closing : CloseEnds(e)) \/ DrainChanges \/ UNCHANGED vars
  BY <1>2, <1>3 DEF CloseEnds, DrainChanges, vars, schedVars
<1> QED
  BY <1>1, <1>3, SetupKeepsPlaces, MainKeepsPlaces, WorkerKeepsPlaces DEF Next

LEMMA InitInPlace == Init => PlaceInv
<1> SUFFICES ASSUME Init PROVE PlaceInv
  OBVIOUS
<1>1. \A t : ~Held(t)
  BY DEF Init, NoSched, Held, Waits, Holds, Idle
<1>2. InOnePlace
  BY DEF Init, NoSched, InOnePlace, Holds, Idle
<1>3. PlannedOnce
  BY <1>1 DEF Init, PlannedOnce, SetUp
<1> QED
  BY <1>2, <1>3 DEF PlaceInv

\* No obligation is executed by two workers at once, for any number of
\* obligations, workers and epochs, whatever busy retries (reschedule), audit
\* requeues, slow, failing or stale setups and epoch boundaries do with it.
THEOREM ExecutedOnce == Spec => []OneExecution
<1>1. Init => TypeInv /\ PlaceInv
  BY InitIsTyped, InitInPlace
<1>2. TypeInv /\ PlaceInv /\ [Next]_vars => (TypeInv /\ PlaceInv)'
  BY NextKeepsType, NextKeepsPlaces
<1>3. PlaceInv => OneExecution
  BY DEF PlaceInv, InOnePlace, OneExecution, Holds, At
<1> QED
  BY <1>1, <1>2, <1>3, PTL DEF Spec
----------------------------------------------------------------------------
(***************************************************************************)
(* The markers of running tests                                             *)
(***************************************************************************)

\* Past _mark_canary_started and before _mark_canary_finished.
Marked(w) ==
  worker[w].pc \notin {"idle", "ready", "requeueUnstarted", "mark", "marked"}

\* The workers that have a test of the current epoch marked.
Running == {w \in Workers : Marked(w) /\ id(w)[1] = cur}

\* Nothing is of a later epoch, and until the seal takes the epoch's markers
\* away there are as many as workers that put one up.  (A test of an earlier
\* epoch, whose marker is gone, takes none of the current one's away.)
CountInv ==
  /\ \A x \in queue : x[1] <= cur
  /\ \A w \in Workers : worker[w].pc # "idle" => id(w)[1] <= cur
  /\ main.pc \in {"idle", "drain", "classify"} =>
       Cardinality(Running) <= inflight[cur]

\* They are finitely many.
LEMMA RunningIsFinite == IsFiniteSet(Running) /\ Cardinality(Running) \in Nat
<1>1. IsFiniteSet(Running)
  BY FS_Subset, CanaryAssumption DEF Running
<1> QED
  BY <1>1, FS_CardinalityType

\* A step that touches neither workers nor markers.
LEMMA CountUntouched ==
  ASSUME CountInv, UNCHANGED <<cur, worker, inflight>>,
         \A x \in queue' : x[1] <= cur,
         main'.pc \in {"idle", "drain", "classify"} =>
           main.pc \in {"idle", "drain", "classify"}
  PROVE  CountInv'
<1>1. Running' = Running
  BY DEF Running, Marked, id
<1> QED
  BY <1>1 DEF CountInv, id

\* A worker moves on with its test, with or without a marker as before.
LEMMA CountMoves ==
  ASSUME CountInv, NEW w \in Workers, UNCHANGED <<cur, main, inflight>>,
         queue' \subseteq queue, \A v \in Workers \ {w} : worker'[v] = worker[v],
         Marked(w)' <=> Marked(w), Marked(w) => id(w)' = id(w),
         worker'[w].pc # "idle" => id(w)'[1] <= cur
  PROVE  CountInv'
<1>1. \A v \in Workers : (Marked(v) /\ id(v)[1] = cur)' <=> (Marked(v) /\ id(v)[1] = cur)
  BY DEF Marked, id
<1>2. Running' = Running
  BY <1>1 DEF Running
<1>3. \A v \in Workers : worker'[v].pc # "idle" => id(v)'[1] <= cur
  BY DEF CountInv, id
<1> QED
  BY <1>2, <1>3 DEF CountInv

\* What the block loop does to the markers: it takes them all away when it
\* seals the epoch, and the next epoch has none.
LEMMA MainKeepsCount ==
  ASSUME TypeInv, CountInv, MainStep
  PROVE  CountInv'
<1> USE DEF schedVars, books, owed, testVars, history
<1>1. main \in MainType /\ cur \in Nat /\ queue \subseteq Ids
  BY CanaryAssumption DEF TypeInv, TypeOK, Epochs
<1>2. \A x \in queue : x[1] <= cur
  BY DEF CountInv
<1>3. ASSUME NEW due \in SUBSET sched.tests, Dispatch(due)
      PROVE  CountInv'
  <2>1. \A x \in queue' : x[1] <= cur
    BY <1>1, <1>2, <1>3 DEF Dispatch
  <2> QED
    BY <1>3, <2>1, CountUntouched DEF Dispatch
<1>4. CASE RetryEpochStart
  BY <1>2, <1>4, CountUntouched DEF RetryEpochStart
<1>5. CASE SealFence
  BY <1>2, <1>5, CountUntouched DEF SealFence, BlockLoop
<1>6. CASE SealDrain
  BY <1>2, <1>6, CountUntouched DEF SealDrain
<1>7. CASE SealNeutralize \/ QueueEpochClose
  <2>1. main'.pc \notin {"idle", "drain", "classify"}
    BY <1>1, <1>7 DEF SealNeutralize, QueueEpochClose, MainType
  <2> QED
    BY <1>2, <1>7, <2>1, CountUntouched DEF SealNeutralize, QueueEpochClose
<1>8. CASE SealClassify
  <2>1. main'.pc = "neutralize" /\ UNCHANGED <<cur, worker, queue>>
    BY <1>1, <1>8 DEF SealClassify, MainType
  <2> QED
    BY <2>1 DEF CountInv, id
<1>9. CASE StartNewEpoch
  <2>1. cur' = cur + 1 /\ queue' = {} /\ UNCHANGED <<worker, inflight>>
    BY <1>9 DEF StartNewEpoch
  <2>2. \A w \in Workers : worker[w].pc # "idle" => id(w)[1] \in Nat /\ id(w)[1] <= cur
    BY CanaryAssumption DEF CountInv, TypeInv, TypedWorkers, Ids, Epochs, id
  <2>3. \A w \in Workers : worker'[w].pc # "idle" =>
          id(w)'[1] <= cur' /\ id(w)'[1] # cur'
    BY <1>1, <2>1, <2>2 DEF id
  <2>4. Running' = {}
    BY <2>3 DEF Running, Marked
  <2>5. inflight[cur'] \in Nat
    <3>1. cur' \in Epochs
      BY <1>1, <1>9, <2>1, CanaryAssumption
      DEF StartNewEpoch, TypeInv, SealHasNext, Epochs
    <3> QED
      BY <3>1 DEF TypeInv, TypeOK
  <2> QED
    BY <2>1, <2>3, <2>4, <2>5, FS_EmptySet DEF CountInv
<1> QED
  BY <1>3, <1>4, <1>5, <1>6, <1>7, <1>8, <1>9 DEF MainStep

\* A worker puts its marker up and takes it down again.
LEMMA WorkerKeepsCount ==
  ASSUME TypeInv, CountInv, NEW w \in Workers, WorkerStep(w)
  PROVE  CountInv'
<1> USE DEF schedVars, books, owed, testVars, history
<1>1. /\ TypedWorkers /\ cur \in Epochs /\ inflight \in [Epochs -> Nat]
      /\ UNCHANGED <<cur, main, queue>>
  BY DEF TypeInv, TypeOK, WorkerStep, SeesDrain, Requeue, NoDrain, MarkCrossEpoch,
    MarkStarted, Attempt, MinerSettles, ValidatorFault, MinerBusy, Reschedule,
    UnmarkCrossEpoch, MarkFinished
<1>2. ~At(w, "idle") /\ id(w) \in Ids /\ id(w)[1] <= cur
  BY <1>1 DEF TypedWorkers, CountInv, id, At, WorkerStep, SeesDrain, Requeue,
    NoDrain, MarkCrossEpoch, MarkStarted, Attempt, MinerSettles, ValidatorFault,
    MinerBusy, Reschedule, UnmarkCrossEpoch, MarkFinished
<1>3. id(w)[1] \in Epochs
  BY <1>2 DEF Ids
<1>4. ASSUME NEW p \in WorkerPcs, Goto(w, p), inflight' = inflight,
             Marked(w) <=> p \notin {"idle", "ready", "requeueUnstarted", "mark", "marked"}
      PROVE  CountInv'
  <2>1. /\ worker'[w].pc = p /\ id(w)' = id(w)
        /\ \A v \in Workers \ {w} : worker'[v] = worker[v]
    BY <1>1, <1>2, <1>4, GotoTyped DEF At, id
  <2> QED
    BY <1>1, <1>2, <1>4, <2>1, CountMoves DEF Marked
<1>5. CASE SeesDrain(w) \/ NoDrain(w) \/ MarkCrossEpoch(w) \/ Attempt(w)
  BY <1>4, <1>5
  DEF SeesDrain, NoDrain, MarkCrossEpoch, Attempt, At, Marked, WorkerPcs
<1>6. CASE \/ \E fails \in BOOLEAN : MinerSettles(w, fails)
           \/ \E fits \in BOOLEAN : Reschedule(w, fits)
           \/ ValidatorFault(w) \/ MinerBusy(w) \/ UnmarkCrossEpoch(w)
  BY <1>4, <1>6
  DEF MinerSettles, ValidatorFault, MinerBusy, Reschedule, UnmarkCrossEpoch, At,
    Marked, WorkerPcs
<1>7. CASE Requeue(w)
  <2>1. CASE Return(w) /\ At(w, "requeueUnstarted")
    <3>1. worker'[w] = Idle /\ \A v \in Workers \ {w} : worker'[v] = worker[v]
      BY <1>1, <2>1, SetTyped DEF Return
    <3> QED
      BY <1>1, <1>7, <2>1, <3>1, CountMoves DEF Requeue, Marked, At, Idle
  <2>2. CASE ~(Return(w) /\ At(w, "requeueUnstarted"))
    BY <1>4, <1>7, <2>2 DEF Requeue, At, Marked, WorkerPcs
  <2> QED
    BY <2>1, <2>2
<1>8. CASE MarkStarted(w)
  <2>1. /\ ~Marked(w) /\ Marked(w)' /\ id(w)' = id(w)
        /\ \A v \in Workers \ {w} : worker'[v] = worker[v]
    <3>1. PICK p \in {"attempt", "unmark"} : Goto(w, p)
      BY <1>8 DEF MarkStarted
    <3>2. /\ worker'[w].pc = p /\ worker'[w].id = worker[w].id
          /\ \A v \in Workers \ {w} : worker'[v] = worker[v]
      BY <1>1, <1>2, <3>1, GotoTyped DEF At, WorkerPcs
    <3> QED
      BY <1>8, <3>1, <3>2 DEF MarkStarted, At, Marked, id
  <2>2. \A v \in Workers : worker'[v].pc # "idle" => id(v)'[1] <= cur'
    BY <1>1, <1>2, <2>1 DEF CountInv, id
  <2>3. inflight' = [inflight EXCEPT ![id(w)[1]] = inflight[id(w)[1]] + 1]
    BY <1>8 DEF MarkStarted
  <2>4. Cardinality(Running) <= inflight[cur] => Cardinality(Running)' <= inflight'[cur]
    <3>1. CASE id(w)[1] = cur
      <4>1. Running' = Running \cup {w} /\ w \notin Running
        BY <1>1, <2>1, <3>1 DEF Running, Marked, id
      <4>2. Cardinality(Running)' = Cardinality(Running) + 1
        BY <4>1, RunningIsFinite, FS_AddElement
      <4>3. inflight'[cur] = inflight[cur] + 1 /\ inflight[cur] \in Nat
        BY <1>1, <2>3, <3>1
      <4> QED
        BY <4>2, <4>3, RunningIsFinite
    <3>2. CASE id(w)[1] # cur
      <4>1. Running' = Running
        BY <1>1, <2>1, <3>2 DEF Running, Marked, id
      <4> QED
        BY <1>1, <1>3, <2>3, <3>2, <4>1
    <3> QED
      BY <3>1, <3>2
  <2> QED
    BY <1>1, <2>2, <2>4 DEF CountInv
<1>9. CASE MarkFinished(w)
  <2>1. worker'[w] = Idle /\ \A v \in Workers \ {w} : worker'[v] = worker[v]
    BY <1>1, <1>9, SetTyped DEF MarkFinished, Return
  <2>2. \A v \in Workers : worker'[v].pc # "idle" => id(v)'[1] <= cur'
    BY <1>1, <2>1 DEF CountInv, id, Idle
  <2>3. Marked(w) /\ ~Marked(w)'
    BY <1>9, <2>1 DEF MarkFinished, At, Marked, Idle
  <2>4. inflight' = Less(inflight, id(w)[1])
    BY <1>9 DEF MarkFinished
  <2>5. Cardinality(Running) <= inflight[cur] => Cardinality(Running)' <= inflight'[cur]
    <3>1. CASE id(w)[1] = cur
      <4>1. Running' = Running \ {w} /\ w \in Running
        BY <1>1, <2>1, <2>3, <3>1 DEF Running, Marked, id
      <4>2. Cardinality(Running)' = Cardinality(Running) - 1
        BY <4>1, RunningIsFinite, FS_RemoveElement
      <4>3. inflight'[cur] = IF inflight[cur] > 0 THEN inflight[cur] - 1 ELSE 0
        BY <1>1, <2>4, <3>1 DEF Less
      <4>4. inflight[cur] \in Nat
        BY <1>1
      <4> QED
        BY <4>2, <4>3, <4>4, RunningIsFinite
    <3>2. CASE id(w)[1] # cur
      <4>1. Running' = Running
        BY <1>1, <2>1, <2>3, <3>2 DEF Running, Marked, id
      <4>2. inflight'[cur] = inflight[cur]
        BY <1>1, <1>3, <2>4, <3>2 DEF Less
      <4> QED
        BY <4>1, <4>2
    <3> QED
      BY <3>1, <3>2
  <2> QED
    BY <1>1, <2>2, <2>5 DEF CountInv
<1> QED
  BY <1>5, <1>6, <1>7, <1>8, <1>9 DEF WorkerStep

\* The other threads do not touch the markers.
LEMMA NextKeepsCount ==
  ASSUME TypeInv, CountInv, [Next]_vars
  PROVE  CountInv'
<1> USE DEF schedVars, books, owed, testVars, history
<1>1. \A x \in queue : x[1] <= cur
  BY DEF CountInv
<1>2. CASE SetupStep
  <2>1. UNCHANGED <<cur, queue, worker, main, inflight>>
    BY <1>2 DEF SetupStep, SetupWithoutEndpoint, SetupRaises, SetupResets,
      SetupScheduler, SetupPlans, SetupPlanned, SetupRegisters
  <2> QED
    BY <1>1, <2>1, CountUntouched
<1>3. CASE (\E e \in closing : CloseEnds(e)) \/ DrainChanges \/ UNCHANGED vars
  <2>1. UNCHANGED <<cur, queue, worker, main, inflight>>
    BY <1>3 DEF CloseEnds, DrainChanges, vars
  <2> QED
    BY <1>1, <2>1, CountUntouched
<1>4. ASSUME NEW w \in Workers, NEW x \in queue, Dequeue(w, x)
      PROVE  CountInv'
  <2>1. /\ UNCHANGED <<cur, main, inflight>> /\ queue' \subseteq queue
        /\ ~Marked(w) /\ x \in Ids /\ x[1] <= cur /\ TypedWorkers
    BY <1>1, <1>4 DEF Dequeue, At, Marked, TypeInv, TypeOK
  <2>2. CASE EpochActive(x[1])
    <3> DEFINE r == [pc |-> "ready", id |-> x]
    <3>1. r \in [pc : WorkerPcs, id : Ids] /\ worker' = [worker EXCEPT ![w] = r]
      BY <1>4, <2>1, <2>2 DEF Dequeue, WorkerPcs
    <3>2. worker'[w] = r /\ \A v \in Workers \ {w} : worker'[v] = worker[v]
      BY <2>1, <3>1, SetTyped
    <3> QED
      BY <2>1, <3>2, CountMoves DEF Marked, id
  <2>3. CASE ~EpochActive(x[1])
    <3>1. worker' = worker
      BY <1>4, <2>3 DEF Dequeue
    <3> QED
      BY <1>1, <2>1, <3>1, CountUntouched
  <2> QED
    BY <2>2, <2>3
<1> QED
  BY <1>2, <1>3, <1>4, MainKeepsCount, WorkerKeepsCount DEF Next

\* Nothing runs at the start.
LEMMA InitCounted == Init => CountInv
<1> SUFFICES ASSUME Init PROVE CountInv
  OBVIOUS
<1>1. Running = {} /\ \A w \in Workers : worker[w].pc = "idle"
  BY DEF Init, Running, Marked, Idle
<1>2. inflight[cur] = 0
  BY CanaryAssumption DEF Init, Epochs
<1> QED
  BY <1>1, <1>2, FS_EmptySet DEF CountInv, Init

\* While a worker runs a test of the current epoch and the epoch is not yet
\* sealed, _auto_update_busy says so, for any number of workers, obligations
\* and epochs: a late worker of an earlier epoch, whose own marker the seal has
\* taken away, never takes down the marker of another.
THEOREM RunningWorkIsSeen == Spec => []EpochWorkIsBusy
<1>1. Init => TypeInv /\ CountInv
  BY InitIsTyped, InitCounted
<1>2. TypeInv /\ CountInv /\ [Next]_vars => (TypeInv /\ CountInv)'
  BY NextKeepsType, NextKeepsCount
<1>3. TypeInv /\ CountInv => EpochWorkIsBusy
  <2> SUFFICES ASSUME TypeInv, CountInv, main.pc \in {"idle", "drain", "classify"},
                      NEW w \in Workers, At(w, "run"), id(w)[1] = cur
               PROVE  AutoUpdateBusy
    BY DEF EpochWorkIsBusy
  <2>1. w \in Running
    BY DEF Running, Marked, At
  <2>2. Cardinality(Running) # 0
    BY <2>1, RunningIsFinite, FS_EmptySet
  <2>3. inflight[cur] \in Nat /\ cur \in Epochs
    BY DEF TypeInv, TypeOK
  <2>4. inflight[cur] > 0
    BY <2>2, <2>3, RunningIsFinite DEF CountInv
  <2> QED
    BY <2>3, <2>4 DEF AutoUpdateBusy
<1> QED
  BY <1>1, <1>2, <1>3, PTL DEF Spec
----------------------------------------------------------------------------
(***************************************************************************)
(* Whose fault a miss is                                                    *)
(***************************************************************************)

\* The execution is accounted for: settled by the miner, or mislaid.
Accounted(x) == x \in answered \cup late \cup mislaid

\* Or the close of the current epoch will skip the endpoint.
Covered(x) == excused \/ Accounted(x)

\* The seal has not yet sorted the epoch's executions.
Unsorted == main.pc \in {"idle", "drain", "classify"}

\* The seal will find the test in the epoch's scheduler, or has found it.
InSight(t) ==
  \/ main.pc \in {"idle", "drain"} /\ t \in sched.tests
  \/ main.pc = "classify" /\ t \in main.pend

Busy(w) == worker[w].pc # "idle"
Started(w) == worker[w].pc \in
  {"requeueStarted", "requeuePreHttp", "requeueGate", "marked", "attempt", "send",
   "preHttp", "run", "busy"}
GivenUp(w) == worker[w].pc \in {"reschedule", "unmark", "finish"}

\* Nothing is of a later epoch, and tests of the current epoch are about only
\* while the epoch has its scheduler.
Dated ==
  /\ \A t \in inventory \cup rejected : t[1] <= cur
  /\ \A t \in setup.tests : t[1] = setup.epoch
  /\ setup.epoch <= cur
  /\ setup.pc \in {"idle", "work", "sched"} => setup.tests = {}
  /\ setup.pc \in {"plan", "register"} /\ setup.epoch = cur => sched.epoch = cur
  /\ \A w \in Workers : Busy(w) =>
       id(w)[2][1] <= cur /\ (id(w)[2][1] = cur => sched.epoch = cur)

\* Two workers have the same execution, or a worker has one that is queued
\* again, only after it was dispatched under the first one's finally block.
Again ==
  \A w \in Workers : Busy(w) =>
    /\ id(w) \in queue => id(w) \in mislaid
    /\ \A v \in Workers \ {w} : Busy(v) /\ id(v) = id(w) => id(w) \in mislaid

\* A worker gives a test of the epoch up only when it is accounted for or back
\* in the scheduler; while it is at it, it has its mark.
Carried ==
  Unsorted =>
    \A w \in Workers : Busy(w) /\ id(w)[1] = cur /\ id(w)[2][1] = cur =>
      /\ GivenUp(w) => Covered(id(w)) \/ InSight(id(w)[2])
      /\ Started(w) => id(w) \in cross \/ Covered(id(w))

\* A rejection counts as the miner's answer in the test's epoch.
Rejections == \A t \in rejected : t[1] = cur => Accounted(<<cur, t>>)

\* What the endpoint owes, or will once the setup registers it, is accounted
\* for, or it is where the seal will find it.
Traced(t) ==
  \/ Covered(<<cur, t>>)
  \/ InSight(t)
  \/ Unsorted /\ <<cur, t>> \in unfinished
  \/ main.pc = "neutralize" /\ <<cur, t>> \in main.started \cup main.unstarted

Owed ==
  /\ main.pc # "start" => \A t \in inventory : t[1] = cur => Traced(t)
  /\ main.pc \notin {"freeze", "start"} /\ setup.epoch = cur =>
       \A t \in setup.tests : Traced(t)

MissInv == Dated /\ Again /\ Carried /\ Rejections /\ Owed /\ MissIsExplained

\* What is accounted for stays so.
LEMMA HistoryGrows ==
  ASSUME Next
  PROVE  \A x : Accounted(x) => Accounted(x)'
<1>1. answered \subseteq answered' /\ late \subseteq late' /\ mislaid \subseteq mislaid'
  BY DEF Next, SetupStep, MainStep, WorkerStep, history, SetupWithoutEndpoint,
    SetupRaises, SetupResets, SetupScheduler, SetupPlans, SetupPlanned,
    SetupRegisters, Dispatch, RetryEpochStart, SealFence, SealDrain,
    SealClassify, SealNeutralize, QueueEpochClose, StartNewEpoch, SeesDrain,
    Requeue, NoDrain, MarkCrossEpoch, MarkStarted, Attempt, MinerSettles,
    ValidatorFault, MinerBusy, Reschedule, UnmarkCrossEpoch, MarkFinished,
    Dequeue, CloseEnds, DrainChanges
<1> QED
  BY <1>1 DEF Accounted

\* The setup thread: what it plans is in the scheduler, or mislaid.
LEMMA SetupKeepsMiss ==
  ASSUME TypeInv, PlaceInv, MissInv, SetupStep
  PROVE  MissInv'
<1> USE DEF schedVars, books, owed, testVars, history
<1>1. /\ setup \in SetupType /\ sched \in SchedType /\ cur \in Epochs
      /\ setup.pc # "idle"
      /\ UNCHANGED <<cur, queue, queued, inflight, unfinished, cross, worker, main,
                     rejected, drained, frozen, pardoned, answered, late>>
  BY DEF TypeInv, TypeOK, SetupStep, SetupWithoutEndpoint, SetupRaises, SetupResets,
    SetupScheduler, SetupPlans, SetupPlanned, SetupRegisters
<1>2. mislaid \subseteq mislaid'
  BY DEF SetupStep, SetupWithoutEndpoint, SetupRaises, SetupResets,
    SetupScheduler, SetupPlans, SetupPlanned, SetupRegisters
<1>3. Again' /\ Rejections' /\ MissIsExplained'
  BY <1>1, <1>2 DEF MissInv, Again, Rejections, MissIsExplained, Accounted, Busy, id
<1>4. setup.pc \in {"work", "sched"} => sched = NoSched
  BY DEF PlaceInv, PlannedOnce
<1>5. 0 <= cur
  BY <1>1, CanaryAssumption DEF Epochs
<1>6. -1 # cur
  BY <1>5
\* A step that leaves the scheduler's tests in it and the excuse alone.
<1>7. ASSUME excused' = excused, sched'.epoch = sched.epoch,
             sched.tests \subseteq sched'.tests
      PROVE  /\ Carried'
             /\ \A t : Traced(t) => Traced(t)'
             /\ \A w \in Workers : Busy(w)' =>
                  /\ id(w)'[2][1] <= cur
                  /\ id(w)'[2][1] = cur => sched'.epoch = cur
  BY <1>1, <1>2, <1>7 DEF MissInv, Dated, Carried, Traced, Covered, Accounted,
    InSight, Unsorted, Busy, GivenUp, Started, id
<1>8. ASSUME excused' = excused, sched' = sched, inventory' = inventory,
             setup'.epoch <= cur, setup'.tests \subseteq setup.tests,
             setup'.tests # {} => setup'.epoch = setup.epoch
                                  /\ setup'.pc \in {"plan", "register"},
             setup'.pc \in {"plan", "register"} =>
               setup.pc \in {"plan", "register"} /\ setup'.epoch = setup.epoch
      PROVE  MissInv'
  <2>1. Carried' /\ \A t : Traced(t) => Traced(t)'
    BY <1>7, <1>8
  <2>2. Dated'
    BY <1>1, <1>7, <1>8 DEF MissInv, Dated
  <2>3. Owed'
    BY <1>1, <1>8, <2>1 DEF MissInv, Owed
  <2> QED
    BY <1>3, <2>1, <2>2, <2>3 DEF MissInv
<1>9. CASE SetupWithoutEndpoint
  <2>1. /\ sched' = sched /\ setup' = SetupIdle
        /\ excused' = excused /\ inventory' = inventory
    BY <1>4, <1>9 DEF SetupWithoutEndpoint
  <2> QED
    BY <1>5, <1>8, <2>1 DEF SetupIdle
<1>10. CASE SetupRaises
  <2>1. /\ sched' = sched /\ setup' = SetupIdle
        /\ excused' = excused /\ inventory' = inventory
    BY <1>10 DEF SetupRaises
  <2> QED
    BY <1>5, <1>8, <2>1 DEF SetupIdle
<1>11. CASE SetupPlanned
  <2>1. /\ sched' = sched /\ setup.pc = "plan" /\ setup'.pc = "register"
        /\ setup'.tests = setup.tests /\ setup'.epoch = setup.epoch
        /\ excused' = excused /\ inventory' = inventory
    BY <1>1, <1>11 DEF SetupPlanned, SetupType
  <2>2. setup.epoch <= cur
    BY DEF MissInv, Dated
  <2> QED
    BY <1>8, <2>1, <2>2
<1>12. CASE SetupResets
  <2>1. /\ setup'.pc = "sched" /\ setup'.epoch = setup.epoch /\ setup'.tests = {}
        /\ sched' = sched /\ sched.epoch = -1 /\ inventory' = {}
    BY <1>1, <1>4, <1>12 DEF SetupResets, SetupType, NoSched, MissInv, Dated
  <2>2. \A w \in Workers : Busy(w)' =>
          id(w)'[2][1] <= cur /\ id(w)'[2][1] # cur
    BY <1>1, <1>6, <2>1 DEF MissInv, Dated, Busy, id
  <2>3. Carried'
    BY <1>1, <2>2 DEF Carried
  <2>4. Dated' /\ Owed'
    BY <1>1, <2>1, <2>2 DEF MissInv, Dated, Owed
  <2> QED
    BY <1>3, <2>3, <2>4 DEF MissInv
<1>13. CASE SetupScheduler
  <2>1. /\ setup'.pc = "plan" /\ setup'.epoch = setup.epoch /\ setup'.tests = {}
        /\ sched'.epoch = setup.epoch /\ sched.epoch = -1 /\ sched.tests = {}
        /\ excused' = excused /\ inventory' = inventory
    BY <1>1, <1>4, <1>13 DEF SetupScheduler, SetupType, NoSched, MissInv, Dated
  <2>2. \A w \in Workers : Busy(w)' =>
          id(w)'[2][1] <= cur /\ id(w)'[2][1] # cur
    BY <1>1, <1>6, <2>1 DEF MissInv, Dated, Busy, id
  <2>3. Carried'
    BY <1>1, <2>2 DEF Carried
  <2>4. \A t : Traced(t) => Traced(t)'
    BY <1>1, <1>2, <2>1 DEF Traced, Covered, Accounted, InSight, Unsorted
  <2>5. Dated' /\ Owed'
    BY <1>1, <2>1, <2>2, <2>4 DEF MissInv, Dated, Owed
  <2> QED
    BY <1>3, <2>3, <2>5 DEF MissInv
<1>14. ASSUME NEW o \in Obls, SetupPlans(o)
       PROVE  MissInv'
  <2> DEFINE t0 == <<setup.epoch, o>>
  <2>1. /\ setup.pc = "plan" /\ setup'.pc = "plan" /\ setup'.epoch = setup.epoch
        /\ setup'.tests = setup.tests \cup {t0}
        /\ excused' = excused /\ inventory' = inventory
    BY <1>1, <1>14 DEF SetupPlans, SetupType
  <2>2. /\ sched'.epoch = sched.epoch /\ sched.tests \subseteq sched'.tests
        /\ sched.epoch = setup.epoch => t0 \in sched'.tests
    BY <1>1, <1>14 DEF SetupPlans, SchedType
  <2>3. /\ Carried' /\ \A t : Traced(t) => Traced(t)'
        /\ \A w \in Workers : Busy(w)' =>
             /\ id(w)'[2][1] <= cur
             /\ id(w)'[2][1] = cur => sched'.epoch = cur
    BY <1>7, <2>1, <2>2
  <2>4. setup.epoch = cur => Traced(t0)'
    <3> SUFFICES ASSUME setup.epoch = cur PROVE Traced(t0)'
      OBVIOUS
    <3>1. t0 \in sched'.tests
      BY <2>1, <2>2 DEF MissInv, Dated
    <3>2. CASE Emptied
      <4>1. <<cur, t0>> \in mislaid'
        BY <1>14, <3>2 DEF SetupPlans
      <4>2. t0' = t0
        BY <2>1
      <4> QED
        BY <1>1, <4>1, <4>2 DEF Traced, Covered, Accounted
    <3>3. CASE ~Emptied
      <4>1. t0' = t0
        BY <2>1
      <4> QED
        BY <1>1, <3>1, <3>3, <4>1 DEF Traced, InSight, Emptied
    <3> QED
      BY <3>2, <3>3
  <2>5. t0' = t0 /\ t0[1] = setup.epoch
    BY <2>1
  <2> HIDE DEF t0
  <2>6. Dated'
    BY <1>1, <2>1, <2>2, <2>3, <2>5 DEF MissInv, Dated
  <2>7. Owed'
    BY <1>1, <2>1, <2>3, <2>4, <2>5 DEF MissInv, Owed
  <2> QED
    BY <1>3, <2>3, <2>6, <2>7 DEF MissInv
<1>15. CASE SetupRegisters
  <2>1. /\ inventory' = setup.tests /\ setup' = SetupIdle /\ sched' = sched
        /\ excused' = excused
        /\ main.pc = "freeze" => \A t \in setup.tests : <<cur, t>> \in mislaid'
    BY <1>15 DEF SetupRegisters
  <2>2. setup'.pc = "idle" /\ setup'.tests = {} /\ setup'.epoch = 0
    BY <2>1 DEF SetupIdle
  <2>3. /\ Carried' /\ \A t : Traced(t) => Traced(t)'
        /\ \A w \in Workers : Busy(w)' =>
             /\ id(w)'[2][1] <= cur
             /\ id(w)'[2][1] = cur => sched'.epoch = cur
    BY <1>7, <2>1
  <2>4. Dated'
    BY <1>1, <1>5, <2>1, <2>2, <2>3 DEF MissInv, Dated
  <2>5. ASSUME main.pc # "start", NEW t \in setup.tests, t[1] = cur
        PROVE  Traced(t)'
    <3>1. CASE main.pc = "freeze"
      BY <1>1, <2>1, <2>5, <3>1 DEF Traced, Covered, Accounted
    <3>2. CASE main.pc # "freeze"
      BY <2>3, <2>5, <3>2 DEF MissInv, Owed, Dated
    <3> QED
      BY <3>1, <3>2
  <2>6. Owed'
    BY <1>1, <2>1, <2>2, <2>5 DEF Owed
  <2> QED
    BY <1>3, <2>3, <2>4, <2>6 DEF MissInv
<1> QED
  BY <1>9, <1>10, <1>11, <1>12, <1>13, <1>14, <1>15 DEF SetupStep

\* The block loop: what it dispatches it also notes as unfinished, and the seal
\* sorts every obligation that is not settled.
LEMMA MainKeepsMiss ==
  ASSUME TypeInv, PlaceInv, MissInv, MainStep
  PROVE  MissInv'
<1> USE DEF schedVars, books, owed, testVars, history
<1>1. /\ main \in MainType /\ sched \in SchedType /\ setup \in SetupType
      /\ cur \in Epochs /\ cur \in Nat /\ inventory \subseteq Tests
      /\ UNCHANGED <<cross, worker, rejected, drained, answered, late, excused>>
  BY CanaryAssumption DEF Epochs, TypeInv, TypeOK, MainStep, Dispatch, RetryEpochStart,
    SealFence, SealDrain, SealClassify, SealNeutralize, QueueEpochClose, StartNewEpoch
<1>2. mislaid \subseteq mislaid'
  BY DEF MainStep, Dispatch, RetryEpochStart, SealFence, SealDrain,
    SealClassify, SealNeutralize, QueueEpochClose, StartNewEpoch
<1>3. ASSUME cur' = cur PROVE Rejections'
  BY <1>1, <1>2, <1>3 DEF MissInv, Rejections, Accounted
<1>4. ASSUME queue' \subseteq queue PROVE Again'
  BY <1>1, <1>2, <1>4 DEF MissInv, Again, Busy, id
<1>5. ASSUME frozen' = frozen, pardoned' = pardoned PROVE MissIsExplained'
  BY <1>1, <1>2, <1>5 DEF MissInv, MissIsExplained
\* The step keeps the clock and the scheduler's epoch, or the epoch had none.
<1>6. ASSUME cur' = cur, sched'.epoch = sched.epoch \/ sched.epoch # cur,
             inventory' \subseteq inventory,
             setup'.epoch = setup.epoch, setup'.tests \subseteq setup.tests,
             setup'.pc = setup.pc
      PROVE  Dated'
  BY <1>1, <1>6 DEF MissInv, Dated, Busy, id
\* And what was in sight stays so.
<1>7. ASSUME cur' = cur, Unsorted' => Unsorted,
             \A w \in Workers : Busy(w) /\ id(w)[1] = cur /\ InSight(id(w)[2]) =>
               InSight(id(w)[2])' \/ id(w) \in mislaid' \/ id(w)[2][1] # cur
      PROVE  Carried'
  BY <1>1, <1>2, <1>7 DEF MissInv, Carried, Covered, Accounted, Busy, GivenUp, Started, id
<1>8. ASSUME cur' = cur, inventory' \subseteq inventory,
             setup'.epoch = setup.epoch \/ setup'.tests = {},
             setup'.tests \subseteq setup.tests,
             main'.pc # "start" => main.pc # "start",
             main'.pc \notin {"freeze", "start"} => main.pc \notin {"freeze", "start"},
             \A t : Traced(t) /\ t[1] = cur /\ (main'.pc = "freeze" => t \in inventory')
                      => Traced(t)'
      PROVE  Owed'
  BY <1>1, <1>8 DEF MissInv, Owed, Dated
<1>9. ASSUME NEW due \in SUBSET sched.tests, Dispatch(due)
      PROVE  MissInv'
  <2>1. /\ UNCHANGED <<cur, main, listed, inventory, frozen, pardoned>>
        /\ main.pc = "idle"
        /\ unfinished' = unfinished \cup {<<cur, t>> : t \in due}
        /\ queue' = queue \cup {<<cur, t>> : t \in due}
        /\ \A t \in due : \A w \in Workers :
             Ending(w, <<cur, t>>) => <<cur, t>> \in mislaid'
    BY <1>9 DEF Dispatch, BlockLoop
  <2>2. /\ sched'.epoch = sched.epoch /\ sched'.tests = sched.tests \ due
        /\ setup'.epoch = setup.epoch /\ setup'.tests \subseteq setup.tests
        /\ setup'.pc = setup.pc
    BY <1>1, <1>9 DEF Dispatch, Unschedule, SchedType, SetupType
  <2>3. \A w \in Workers : Busy(w) /\ id(w)[2] \in due =>
          Ending(w, id(w))
    BY <1>9 DEF PlaceInv, InOnePlace, Holds, Busy, Ending, id
  <2>4. ASSUME NEW w \in Workers, Busy(w), id(w)[1] = cur, id(w)[2] \in due
        PROVE  id(w) \in mislaid'
    <3>1. id(w) = <<cur, id(w)[2]>>
      BY <2>4 DEF TypeInv, TypedWorkers, Ids, Busy, id
    <3> QED
      BY <2>1, <2>3, <2>4, <3>1
  <2>5. Again'
    <3>1. \A w \in Workers : Busy(w) /\ id(w) \in queue' => id(w) \in mislaid'
      <4> SUFFICES ASSUME NEW w \in Workers, Busy(w), id(w) \in queue',
                          id(w) \notin queue
                   PROVE  id(w) \in mislaid'
        BY <1>2 DEF MissInv, Again
      <4>1. PICK t \in due : id(w) = <<cur, t>>
        BY <2>1
      <4>2. id(w)[1] = cur /\ id(w)[2] = t
        BY <4>1
      <4> QED
        BY <2>4, <4>2
    <3> QED
      BY <1>1, <1>2, <3>1 DEF MissInv, Again, Busy, id
  <2>6. Carried'
    BY <1>1, <1>7, <2>1, <2>2, <2>4 DEF InSight, Unsorted, Busy, id
  <2>7. Owed'
    BY <1>1, <1>2, <1>8, <2>1, <2>2 DEF Traced, InSight, Covered, Accounted, Unsorted
  <2> QED
    BY <1>3, <1>5, <1>6, <2>1, <2>2, <2>5, <2>6, <2>7 DEF MissInv
<1>10. CASE RetryEpochStart
  <2>1. /\ sched' = NoSched /\ setup'.pc = "work" /\ setup'.epoch = cur
        /\ setup'.tests = {} /\ main.pc = "idle" /\ sched.epoch # cur
        /\ UNCHANGED <<cur, main, queue, inventory, frozen, pardoned, unfinished>>
    BY <1>10 DEF RetryEpochStart, SetUp, BlockLoop
  <2>2. \A t \in Tests : t \in sched.tests => t[1] # cur
    BY <2>1 DEF PlaceInv, PlannedOnce, Held
  <2>3. sched.tests \subseteq Tests
    BY <1>1 DEF SchedType
  <2>4. Dated'
    BY <1>1, <2>1 DEF MissInv, Dated, Busy, id
  <2>5. Carried'
    BY <1>1, <1>7, <2>1, <2>2, <2>3 DEF InSight, Unsorted, Busy, id
  <2>6. Owed'
    BY <1>1, <1>2, <1>8, <2>1, <2>2, <2>3
    DEF Traced, InSight, Covered, Accounted, Unsorted
  <2> QED
    BY <1>3, <1>4, <1>5, <2>1, <2>4, <2>5, <2>6 DEF MissInv
<1>11. CASE SealFence
  <2>1. /\ main.pc = "idle" /\ main'.pc = "drain"
        /\ UNCHANGED <<cur, sched, setup, queue, inventory, frozen, pardoned, unfinished>>
    BY <1>11 DEF SealFence, MainIdle, BlockLoop
  <2>2. Carried'
    BY <1>1, <1>7, <2>1 DEF InSight, Unsorted, Busy, id
  <2>3. Owed'
    BY <1>1, <1>2, <1>8, <2>1 DEF Traced, InSight, Covered, Accounted, Unsorted
  <2> QED
    BY <1>3, <1>4, <1>5, <1>6, <2>1, <2>2, <2>3 DEF MissInv
<1>12. CASE SealDrain
  <2>1. /\ main.pc = "drain" /\ main'.pc = "classify"
        /\ main'.pend = IF sched.epoch = cur THEN sched.tests ELSE {}
        /\ UNCHANGED <<cur, queue, inventory, frozen, pardoned, unfinished>>
    BY <1>1, <1>12 DEF SealDrain, MainType
  <2>2. /\ sched'.epoch = sched.epoch
        /\ setup'.epoch = setup.epoch /\ setup'.tests \subseteq setup.tests
        /\ setup'.pc = setup.pc
    BY <1>1, <1>12 DEF SealDrain, Unschedule, SchedType, SetupType
  <2>3. \A t \in Tests : t \in sched.tests /\ t[1] = cur => t \in main'.pend
    BY <2>1 DEF PlaceInv, PlannedOnce, Held
  <2>4. sched.tests \subseteq Tests
    BY <1>1 DEF SchedType
  <2>5. Carried'
    BY <1>1, <1>7, <2>1, <2>3, <2>4 DEF InSight, Unsorted, Busy, id
  <2>6. Owed'
    BY <1>1, <1>2, <1>8, <2>1, <2>2, <2>3, <2>4
    DEF Traced, InSight, Covered, Accounted, Unsorted
  <2> QED
    BY <1>3, <1>4, <1>5, <1>6, <2>1, <2>2, <2>5, <2>6 DEF MissInv
<1>13. CASE SealClassify
  <2> DEFINE open == {x \in unfinished : x[1] = cur}
             waiting == {<<cur, t>> : t \in main.pend} \cup (open \ cross)
  <2>1. /\ main.pc = "classify" /\ main'.pc = "neutralize"
        /\ main'.started = open \cap cross
        /\ main'.unstarted = {x \in waiting : x[2] \notin rejected}
        /\ UNCHANGED <<cur, sched, setup, queue, inventory, frozen, pardoned>>
    BY <1>1, <1>13 DEF SealClassify, MainType
  <2>2. Carried'
    BY <2>1 DEF Carried, Unsorted
  <2>3. ASSUME NEW t, Traced(t), t[1] = cur
        PROVE  Traced(t)'
    <3>1. Covered(<<cur, t>>) \/ t \in main.pend \/ <<cur, t>> \in unfinished
      BY <2>1, <2>3 DEF Traced, InSight
    <3>2. t \in rejected => Covered(<<cur, t>>)
      BY <2>3 DEF MissInv, Rejections, Covered
    <3>3. Covered(<<cur, t>>) => Traced(t)'
      BY <1>1, <1>2, <2>1 DEF Traced, Covered, Accounted
    <3>4. <<cur, t>>[1] = cur /\ <<cur, t>>[2] = t
      OBVIOUS
    <3>5. CASE t \in main.pend \/ (<<cur, t>> \in unfinished /\ <<cur, t>> \notin cross)
      <4>1. <<cur, t>> \in waiting
        BY <3>4, <3>5
      <4> QED
        BY <2>1, <3>2, <3>3, <3>4, <4>1 DEF Traced
    <3>6. CASE <<cur, t>> \in unfinished /\ <<cur, t>> \in cross
      BY <2>1, <3>4, <3>6 DEF Traced
    <3> QED
      BY <3>1, <3>3, <3>5, <3>6
  <2> HIDE DEF open, waiting
  <2>4. Owed'
    BY <1>8, <2>1, <2>3
  <2> QED
    BY <1>3, <1>4, <1>5, <1>6, <2>1, <2>2, <2>4 DEF MissInv
<1>14. CASE SealNeutralize
  <2>1. /\ main.pc = "neutralize" /\ main'.pc = "freeze"
        /\ inventory' = inventory \ {x[2] : x \in main.started \cup main.unstarted}
        /\ UNCHANGED <<cur, sched, setup, queue, frozen, pardoned>>
    BY <1>1, <1>14 DEF SealNeutralize, MainType
  <2>2. Carried'
    BY <2>1 DEF Carried, Unsorted
  <2>3. ASSUME NEW t \in inventory', Traced(t)
        PROVE  Traced(t)'
    <3>1. <<cur, t>> \notin main.started \cup main.unstarted
      BY <2>1, <2>3
    <3> QED
      BY <1>1, <1>2, <2>1, <2>3, <3>1 DEF Traced, InSight, Unsorted, Covered, Accounted
  <2>4. Owed'
    BY <1>8, <2>1, <2>3
  <2> QED
    BY <1>3, <1>4, <1>5, <1>6, <2>1, <2>2, <2>4 DEF MissInv
<1>15. CASE QueueEpochClose
  <2>1. /\ main.pc = "freeze" /\ main'.pc = "start"
        /\ frozen' = [frozen EXCEPT ![cur] = IF listed THEN inventory ELSE {}]
        /\ pardoned' = IF excused THEN pardoned \cup {cur} ELSE pardoned
        /\ mislaid' = mislaid
        /\ UNCHANGED <<cur, sched, setup, queue, inventory>>
    BY <1>1, <1>15 DEF QueueEpochClose, MainType
  <2>2. Carried' /\ Owed'
    BY <2>1 DEF Carried, Owed, Unsorted
  <2>3. \A t \in inventory : t[1] = cur => Covered(<<cur, t>>)
    BY <2>1 DEF MissInv, Owed, Traced, InSight, Unsorted
  <2>4. MissIsExplained'
    <3>1. frozen \in [Epochs -> SUBSET Tests]
      BY DEF TypeInv, TypeOK
    <3>2. ASSUME NEW e \in Epochs \ pardoned', NEW t \in frozen'[e], t[1] = e
          PROVE  <<e, t>> \in answered \cup late \cup mislaid
      <4>1. CASE e = cur
        BY <1>1, <2>1, <2>3, <3>1, <3>2, <4>1 DEF Covered, Accounted
      <4>2. CASE e # cur
        BY <1>1, <2>1, <3>1, <3>2, <4>2 DEF MissInv, MissIsExplained
      <4> QED
        BY <4>1, <4>2
    <3> QED
      BY <1>1, <2>1, <3>2 DEF MissIsExplained
  <2> QED
    BY <1>3, <1>4, <1>6, <2>1, <2>2, <2>4 DEF MissInv
<1>16. CASE StartNewEpoch
  <2>1. /\ cur' = cur + 1 /\ queue' = {} /\ sched' = NoSched
        /\ main'.pc = "idle" /\ inventory' = inventory
        /\ setup' = IF setup.pc = "idle" THEN SetUp(cur + 1) ELSE setup
        /\ frozen' = frozen /\ pardoned' = pardoned
    BY <1>16 DEF StartNewEpoch, MainIdle
  <2>2. \/ setup'.pc = "work" /\ setup'.epoch = cur' /\ setup'.tests = {}
        \/ setup' = setup
    BY <2>1 DEF SetUp
  <2>3. /\ \A t \in inventory \cup rejected : t[1] \in Nat /\ t[1] <= cur
        /\ setup.epoch \in Nat /\ setup.epoch <= cur
        /\ \A w \in Workers : Busy(w) => id(w)[2][1] \in Nat /\ id(w)[2][1] <= cur
    BY <1>1, CanaryAssumption DEF MissInv, Dated, TypeInv, TypeOK, Tests, Epochs, SetupType,
      TypedWorkers, Ids, Busy, id
  <2>4. /\ \A t \in inventory' \cup rejected' : t[1] <= cur' /\ t[1] # cur'
        /\ setup'.epoch <= cur' /\ (setup'.epoch = cur' => setup'.tests = {})
        /\ setup'.pc \in {"plan", "register"} => setup'.epoch # cur'
        /\ \A w \in Workers : Busy(w)' => id(w)'[2][1] <= cur' /\ id(w)'[2][1] # cur'
    BY <1>1, <2>1, <2>2, <2>3 DEF Busy, id
  <2>5. /\ \A t \in setup'.tests : t[1] = setup'.epoch
        /\ setup'.pc \in {"idle", "work", "sched"} => setup'.tests = {}
    BY <2>2 DEF MissInv, Dated
  <2>6. Dated'
    BY <2>4, <2>5 DEF Dated
  <2>7. Carried'
    BY <2>4 DEF Carried
  <2>8. Owed' /\ Rejections'
    BY <2>4 DEF Owed, Rejections
  <2> QED
    BY <1>4, <1>5, <2>1, <2>6, <2>7, <2>8 DEF MissInv
<1> QED
  BY <1>9, <1>10, <1>11, <1>12, <1>13, <1>14, <1>15, <1>16 DEF MainStep

\* A worker: its step keeps what it carries, if it does not put its test down
\* before the test is accounted for or back in the scheduler.
LEMMA WorkerKeepsMiss ==
  ASSUME TypeInv, MissInv, NEW w \in Workers, WorkerStep(w)
  PROVE  MissInv'
<1> USE DEF schedVars, books, owed, testVars, history
<1>1. /\ TypedWorkers /\ sched \in SchedType /\ cur \in Epochs
      /\ UNCHANGED <<cur, sealed, setup, listed, inventory, frozen, pardoned, queue,
                     main, drained>>
  BY DEF TypeInv, TypeOK, WorkerStep, SeesDrain, Requeue, NoDrain, MarkCrossEpoch,
    MarkStarted, Attempt, MinerSettles, ValidatorFault, MinerBusy, Reschedule,
    UnmarkCrossEpoch, MarkFinished
<1>2. worker[w].pc # "idle"
  BY DEF WorkerStep, SeesDrain, Requeue, NoDrain, MarkCrossEpoch,
    MarkStarted, Attempt, MinerSettles, ValidatorFault, MinerBusy, Reschedule,
    UnmarkCrossEpoch, MarkFinished, At
<1>3. id(w) \in Ids /\ id(w)[2] \in Tests /\ id(w) = <<id(w)[1], id(w)[2]>>
  <2>1. id(w) \in Ids
    BY <1>1, <1>2 DEF TypedWorkers, id
  <2> QED
    BY <2>1 DEF Ids
<1> DEFINE Now(x) == excused' \/ x \in answered' \cup late' \cup mislaid'
           Seen(t) == \/ main.pc \in {"idle", "drain"} /\ t \in sched'.tests
                      \/ main.pc = "classify" /\ t \in main.pend
           StartedPcs == {"requeueStarted", "requeuePreHttp", "requeueGate", "marked",
                          "attempt", "send", "preHttp", "run", "busy"}
           GivenUpPcs == {"reschedule", "unmark", "finish"}
           Mine == Unsorted /\ id(w)[1] = cur /\ id(w)[2][1] = cur
<1>4. /\ \A x : Accounted(x) => Accounted(x)'
      /\ excused => excused'
  <2>1. excused => excused'
    BY DEF WorkerStep, SeesDrain, Requeue, NoDrain, MarkCrossEpoch,
      MarkStarted, Attempt, MinerSettles, ValidatorFault, MinerBusy, Reschedule,
      UnmarkCrossEpoch, MarkFinished
  <2> QED
    BY <2>1, HistoryGrows DEF Next
<1>5. \A x : Covered(x) => Now(x)
  BY <1>4 DEF Covered, Accounted
<1>6. MissIsExplained'
  BY <1>1, <1>4 DEF MissInv, MissIsExplained, Accounted
<1>7. Mine => /\ worker[w].pc \in GivenUpPcs => Now(id(w)) \/ InSight(id(w)[2])
              /\ worker[w].pc \in StartedPcs => id(w) \in cross \/ Now(id(w))
  BY <1>2, <1>5 DEF MissInv, Carried, Busy, GivenUp, Started
\* The worker's own part, once its step is known.
<1>8. ASSUME NEW p \in WorkerPcs,
             worker'[w].pc = p, p # "idle" => id(w)' = id(w),
             \A v \in Workers \ {w} : worker'[v] = worker[v],
             sched'.epoch = sched.epoch, sched.tests \subseteq sched'.tests,
             cross \ {id(w)} \subseteq cross',
             unfinished \ {id(w)} \subseteq unfinished',
             Mine => /\ id(w) \in unfinished =>
                          id(w) \in unfinished' \/ Now(id(w)) \/ Seen(id(w)[2])
                     /\ p \in GivenUpPcs => Now(id(w)) \/ Seen(id(w)[2])
                     /\ p \in StartedPcs => id(w) \in cross' \/ Now(id(w)),
             Rejections' /\ \A t \in rejected' : t[1] <= cur
      PROVE  MissInv'
  <2>1. \A v \in Workers : worker'[v].pc # "idle" => Busy(v) /\ id(v)' = id(v)
    BY <1>2, <1>8 DEF Busy, id
  <2>2. Dated'
    <3>1. \A v \in Workers : Busy(v)' =>
            id(v)'[2][1] <= cur /\ (id(v)'[2][1] = cur => sched'.epoch = cur)
      BY <1>8, <2>1 DEF MissInv, Dated, Busy
    <3> QED
      BY <1>1, <1>8, <3>1 DEF MissInv, Dated
  <2>3. mislaid \subseteq mislaid'
    BY DEF WorkerStep, SeesDrain, Requeue, NoDrain, MarkCrossEpoch,
      MarkStarted, Attempt, MinerSettles, ValidatorFault, MinerBusy, Reschedule,
      UnmarkCrossEpoch, MarkFinished
  <2>4. Again'
    BY <1>1, <2>1, <2>3 DEF MissInv, Again, Busy
  <2>5. Carried'
    <3> SUFFICES ASSUME Unsorted, NEW v \in Workers, worker'[v].pc # "idle",
                        id(v)'[1] = cur, id(v)'[2][1] = cur
                 PROVE  /\ worker'[v].pc \in GivenUpPcs => Now(id(v)') \/ Seen(id(v)'[2])
                        /\ worker'[v].pc \in StartedPcs => id(v)' \in cross' \/ Now(id(v)')
      BY <1>1 DEF Carried, Unsorted, Accounted, Covered, InSight, Busy, GivenUp, Started
    <3>1. CASE v = w
      BY <1>8, <3>1
    <3>2. CASE v # w
      <4>1. worker'[v] = worker[v] /\ id(v)' = id(v) /\ Busy(v)
        BY <1>8, <2>1, <3>2
      <4>2. /\ worker[v].pc \in GivenUpPcs => Now(id(v)) \/ InSight(id(v)[2])
            /\ worker[v].pc \in StartedPcs => id(v) \in cross \/ Now(id(v))
        BY <1>5, <4>1 DEF MissInv, Carried, GivenUp, Started
      <4>3. InSight(id(v)[2]) => Seen(id(v)[2])
        BY <1>8 DEF InSight
      <4>4. id(v) = id(w) => Now(id(v))
        <5>1. id(v) = id(w) => id(v) \in mislaid
          BY <1>2, <3>2, <4>1 DEF MissInv, Again, Busy
        <5> QED
          BY <1>5, <5>1 DEF Covered, Accounted
      <4>5. id(v) \in cross => id(v) \in cross' \/ Now(id(v))
        BY <1>8, <4>4
      <4> QED
        BY <4>1, <4>2, <4>3, <4>5
    <3> QED
      BY <3>1, <3>2
  <2>6. ASSUME NEW t, Traced(t), t[1] = cur
        PROVE  Traced(t)'
    <3>1. Unsorted /\ <<cur, t>> \in unfinished =>
            <<cur, t>> \in unfinished' \/ Now(<<cur, t>>) \/ Seen(t)
      BY <1>3, <1>8, <2>6
    <3>2. InSight(t) => Seen(t)
      BY <1>8 DEF InSight
    <3>3. \/ Now(<<cur, t>>) \/ Seen(t)
          \/ Unsorted /\ <<cur, t>> \in unfinished'
          \/ main.pc = "neutralize" /\ <<cur, t>> \in main.started \cup main.unstarted
      BY <1>5, <2>6, <3>1, <3>2 DEF Traced
    <3> QED
      BY <1>1, <3>3 DEF Traced, Covered, Accounted, InSight, Unsorted
  <2>7. Owed'
    BY <1>1, <2>6 DEF MissInv, Owed, Dated
  <2> QED
    BY <1>6, <1>8, <2>2, <2>4, <2>5, <2>7 DEF MissInv
<1> HIDE DEF Now, Seen, Mine
<1>9. ASSUME rejected' = rejected
      PROVE  Rejections' /\ \A t \in rejected' : t[1] <= cur
  BY <1>1, <1>4, <1>9 DEF MissInv, Rejections, Dated
<1>10. InSight(id(w)[2]) /\ sched.tests \subseteq sched'.tests => Seen(id(w)[2])
  BY DEF InSight, Seen
<1>11. ASSUME NEW p \in WorkerPcs, Goto(w, p)
       PROVE  /\ worker'[w].pc = p /\ id(w)' = id(w)
              /\ \A v \in Workers \ {w} : worker'[v] = worker[v]
  BY <1>1, <1>2, <1>11, GotoTyped DEF id
\* A step that only goes on, with the mark it has if it has started.
<1>12. ASSUME NEW p \in WorkerPcs, Goto(w, p),
              p \in StartedPcs => worker[w].pc \in StartedPcs, p \notin GivenUpPcs,
              UNCHANGED <<sched, cross, unfinished, rejected>>
       PROVE  MissInv'
  BY <1>7, <1>8, <1>9, <1>11, <1>12
<1>13. CASE SeesDrain(w)
  <2>1. PICK p \in {"requeueUnstarted", "requeueStarted", "requeuePreHttp", "requeueGate"} :
          /\ Goto(w, p)
          /\ p # "requeueUnstarted" => worker[w].pc \in {"attempt", "preHttp", "run"}
    BY <1>13 DEF SeesDrain, At
  <2>2. UNCHANGED <<sched, cross, unfinished, rejected>>
    BY <1>13 DEF SeesDrain
  <2> QED
    BY <1>12, <2>1, <2>2 DEF WorkerPcs
<1>14. CASE NoDrain(w)
  <2>1. PICK p \in {"mark", "run"} : /\ Goto(w, p)
                                     /\ p = "run" => worker[w].pc = "preHttp"
    BY <1>14 DEF NoDrain, At
  <2>2. UNCHANGED <<sched, cross, unfinished, rejected>>
    BY <1>14 DEF NoDrain
  <2> QED
    BY <1>12, <2>1, <2>2 DEF WorkerPcs
<1>15. CASE Requeue(w)
  <2>1. /\ UNCHANGED <<cross, unfinished, rejected>>
        /\ sched'.epoch = sched.epoch /\ sched.tests \subseteq sched'.tests
    BY <1>1, <1>15 DEF Requeue, SchedType
  <2>2. CASE sched.epoch # id(w)[1]
    <3>1. sched' = sched
      BY <1>15, <2>2 DEF Requeue
    <3>2. PICK p \in {"mark", "send", "run", "busy"} :
            Goto(w, p) /\ (p # "mark" => worker[w].pc \in StartedPcs)
      BY <1>15, <2>2 DEF Requeue, At
    <3> QED
      BY <1>12, <2>1, <3>1, <3>2 DEF WorkerPcs
  <2>3. CASE sched.epoch = id(w)[1]
    <3>1. id(w)[2] \in sched'.tests
      BY <1>1, <1>15, <2>3 DEF Requeue, SchedType
    <3>2. Mine => Now(id(w)) \/ Seen(id(w)[2])
      <4>1. CASE Emptied
        BY <1>15, <2>3, <4>1 DEF Requeue, Mine, Now
      <4>2. CASE ~Emptied
        BY <3>1, <4>2 DEF Emptied, Seen
      <4> QED
        BY <4>1, <4>2
    <3>3. CASE At(w, "requeueUnstarted")
      <4>1. Return(w)
        BY <1>15, <2>3, <3>3 DEF Requeue, At
      <4>2. worker'[w] = Idle /\ \A v \in Workers \ {w} : worker'[v] = worker[v]
        BY <1>1, <4>1, SetTyped DEF Return
      <4>3. worker'[w].pc = "idle" /\ "idle" \in WorkerPcs
        BY <4>2 DEF Idle, WorkerPcs
      <4> QED
        BY <1>8, <1>9, <2>1, <4>2, <4>3
    <3>4. CASE ~At(w, "requeueUnstarted")
      <4>1. Goto(w, "unmark")
        BY <1>15, <2>3, <3>4 DEF Requeue
      <4>2. "unmark" \in WorkerPcs
        BY DEF WorkerPcs
      <4> QED
        BY <1>8, <1>9, <1>11, <2>1, <3>2, <4>1, <4>2
    <3> QED
      BY <3>3, <3>4
  <2> QED
    BY <2>2, <2>3
<1>16. CASE MarkCrossEpoch(w)
  <2>1. /\ cross' = cross \cup {id(w)} /\ UNCHANGED <<sched, unfinished, rejected>>
        /\ Goto(w, "marked") /\ "marked" \in WorkerPcs
    BY <1>16 DEF MarkCrossEpoch, WorkerPcs
  <2> QED
    BY <1>8, <1>9, <1>11, <2>1
<1>17. CASE MarkStarted(w) \/ Attempt(w)
  <2>1. PICK p \in {"attempt", "preHttp", "unmark"} :
          Goto(w, p) /\ (p = "unmark" => ~ExecutionActive(id(w)))
    BY <1>17 DEF MarkStarted, Attempt
  <2>2. /\ UNCHANGED <<sched, cross, unfinished, rejected>>
        /\ worker[w].pc \in StartedPcs
    BY <1>17 DEF MarkStarted, Attempt, At
  <2>3. p = "unmark" => id(w) \notin cross
    BY <2>1 DEF ExecutionActive
  <2>4. p \in WorkerPcs
    BY DEF WorkerPcs
  <2> QED
    BY <1>7, <1>8, <1>9, <1>11, <2>1, <2>2, <2>3, <2>4
\* The step settles the execution or gives it up.
<1>18. ASSUME NEW p \in GivenUpPcs, Goto(w, p), worker[w].pc \in StartedPcs,
              id(w) \in cross => Now(id(w)),
              UNCHANGED <<sched, cross, unfinished>>,
              Rejections' /\ \A t \in rejected' : t[1] <= cur
       PROVE  MissInv'
  <2>1. p \in WorkerPcs
    BY DEF WorkerPcs
  <2> QED
    BY <1>7, <1>8, <1>11, <1>18, <2>1
<1>19. ASSUME NEW fails \in BOOLEAN, MinerSettles(w, fails)
       PROVE  MissInv'
  <2>1. /\ worker[w].pc \in StartedPcs /\ Goto(w, "unmark")
        /\ UNCHANGED <<sched, cross, unfinished, rejected>>
    BY <1>19 DEF MinerSettles, At
  <2>2. id(w) \in cross => Now(id(w))
    BY <1>19 DEF MinerSettles, Now
  <2> QED
    BY <1>9, <1>18, <2>1, <2>2
<1>20. CASE ValidatorFault(w)
  <2>1. /\ worker[w].pc \in StartedPcs /\ Goto(w, "unmark")
        /\ UNCHANGED <<sched, cross, unfinished, rejected>>
    BY <1>20 DEF ValidatorFault, At
  <2>2. Now(id(w))
    BY <1>20 DEF ValidatorFault, Now
  <2> QED
    BY <1>9, <1>18, <2>1, <2>2
<1>21. CASE MinerBusy(w)
  <2>1. worker[w].pc \in StartedPcs /\ UNCHANGED <<sched, cross, unfinished>>
    BY <1>21 DEF MinerBusy, At
  <2>2. PICK p \in GivenUpPcs : Goto(w, p)
    BY <1>21 DEF MinerBusy
  <2>3. id(w) \in cross => Now(id(w))
    BY <1>21 DEF MinerBusy, Now
  <2>4. Rejections' /\ \A t \in rejected' : t[1] <= cur
    <3>1. CASE EpochActive(id(w)[1])
      <4>1. rejected' = rejected \cup {id(w)[2]} /\ id(w) \in answered' /\ id(w)[1] = cur
        BY <1>21, <3>1 DEF MinerBusy, EpochActive
      <4>2. id(w)[2][1] <= cur
        BY <1>2 DEF MissInv, Dated, Busy
      <4>3. \A t \in rejected : t[1] <= cur /\ (t[1] = cur => Accounted(<<cur, t>>))
        BY DEF MissInv, Dated, Rejections
      <4>4. Accounted(<<cur, id(w)[2]>>)'
        BY <1>3, <1>11, <2>2, <4>1, <1>1 DEF Accounted, WorkerPcs
      <4>5. id(w)' = id(w)
        BY <1>11, <2>2 DEF WorkerPcs
      <4>6. \A t \in rejected' : t[1] = cur => Accounted(<<cur, t>>)'
        BY <1>1, <1>4, <4>1, <4>3, <4>4, <4>5
      <4> QED
        BY <1>1, <4>1, <4>2, <4>3, <4>6 DEF Rejections
    <3>2. CASE ~EpochActive(id(w)[1])
      BY <1>9, <1>21, <3>2 DEF MinerBusy
    <3> QED
      BY <3>1, <3>2
  <2> QED
    BY <1>18, <2>1, <2>2, <2>3, <2>4
<1>22. ASSUME NEW fits \in BOOLEAN, Reschedule(w, fits)
       PROVE  MissInv'
  <2>1. /\ worker[w].pc \in GivenUpPcs /\ Goto(w, "unmark") /\ "unmark" \in WorkerPcs
        /\ UNCHANGED <<cross, unfinished, rejected>>
    BY <1>22 DEF Reschedule, At, WorkerPcs
  <2>2. sched'.epoch = sched.epoch /\ sched.tests \subseteq sched'.tests
    BY <1>1, <1>22 DEF Reschedule, SchedType
  <2> QED
    BY <1>7, <1>8, <1>9, <1>10, <1>11, <2>1, <2>2
<1>23. CASE UnmarkCrossEpoch(w)
  <2>1. /\ worker[w].pc \in GivenUpPcs /\ Goto(w, "finish") /\ "finish" \in WorkerPcs
        /\ cross' = cross \ {id(w)} /\ UNCHANGED <<sched, unfinished, rejected>>
    BY <1>23 DEF UnmarkCrossEpoch, At, WorkerPcs
  <2> QED
    BY <1>7, <1>8, <1>9, <1>10, <1>11, <2>1
<1>24. CASE MarkFinished(w)
  <2>1. /\ worker[w].pc \in GivenUpPcs /\ unfinished' = unfinished \ {id(w)}
        /\ UNCHANGED <<sched, cross, rejected>>
    BY <1>24 DEF MarkFinished, At
  <2>2. worker'[w] = Idle /\ \A v \in Workers \ {w} : worker'[v] = worker[v]
    BY <1>1, <1>24, SetTyped DEF MarkFinished, Return
  <2>3. worker'[w].pc = "idle" /\ "idle" \in WorkerPcs
    BY <2>2 DEF Idle, WorkerPcs
  <2> QED
    BY <1>7, <1>8, <1>9, <1>10, <2>1, <2>2, <2>3
<1> QED
  BY <1>13, <1>14, <1>15, <1>16, <1>17, <1>19, <1>20, <1>21, <1>22, <1>23, <1>24
  DEF WorkerStep

\* Taking a test off the queue, the end of a close and a drain complete it.
LEMMA NextKeepsMiss ==
  ASSUME TypeInv, PlaceInv, MissInv, [Next]_vars
  PROVE  MissInv'
<1> USE DEF schedVars, books, owed, testVars, history
<1>1. ASSUME NEW w \in Workers, NEW x \in queue, Dequeue(w, x)
      PROVE  MissInv'
  <2>1. /\ UNCHANGED <<cur, sched, setup, listed, inventory, excused, frozen, pardoned,
                       unfinished, cross, main, rejected, answered, late, mislaid>>
        /\ queue' = queue \ {x} /\ TypedWorkers /\ x \in Ids
        /\ worker[w].pc = "idle"
    BY <1>1 DEF Dequeue, TypeInv, TypeOK, At
  <2>2. \/ worker' = worker
        \/ /\ worker'[w].pc = "ready" /\ worker'[w].id = x
           /\ \A v \in Workers \ {w} : worker'[v] = worker[v]
    BY <1>1, <2>1 DEF Dequeue, TypedWorkers
  <2>3. Rejections' /\ Owed' /\ MissIsExplained'
    BY <2>1
    DEF MissInv, Rejections, Owed, Traced, InSight, Covered, MissIsExplained, Accounted,
      Unsorted
  <2>4. x[2] \in Tests /\ Held(x[2])
    BY <2>1 DEF Ids, Held, Waits
  <2>5. x[2][1] <= cur /\ (x[2][1] = cur => sched.epoch = cur)
    BY <2>4 DEF PlaceInv, PlannedOnce
  <2>6. \A v \in Workers : Busy(v)' =>
          id(v)'[2][1] <= cur /\ (id(v)'[2][1] = cur => sched.epoch = cur)
    BY <2>2, <2>5 DEF MissInv, Dated, Busy, id
  <2>7. Dated'
    BY <2>1, <2>6 DEF MissInv, Dated
  <2>8. Carried'
    <3>1. \A v \in Workers :
            worker'[v].pc # "ready" => worker'[v] = worker[v] /\ id(v)' = id(v)
      BY <2>2 DEF id
    <3> QED
      BY <2>1, <3>1
      DEF MissInv, Carried, Covered, Accounted, InSight, Unsorted, Busy, GivenUp, Started
  <2>9. Again'
    BY <2>1, <2>2 DEF MissInv, Again, Busy, id
  <2> QED
    BY <2>3, <2>7, <2>8, <2>9 DEF MissInv
<1>2. CASE (\E e \in closing : CloseEnds(e)) \/ DrainChanges \/ UNCHANGED vars
  <2>1. UNCHANGED <<cur, sched, setup, listed, inventory, excused, frozen, pardoned,
                    unfinished, cross, main, rejected, answered, late, mislaid, queue,
                    worker>>
    BY <1>2 DEF CloseEnds, DrainChanges, vars
  <2> QED
    BY <2>1 DEF MissInv, Dated, Again, Carried, Rejections, Owed, Traced, InSight,
      Covered, MissIsExplained, Accounted, Unsorted, Busy, GivenUp, Started, id
<1> QED
  BY <1>1, <1>2, SetupKeepsMiss, MainKeepsMiss, WorkerKeepsMiss DEF Next

\* Nothing is owed at the start.
LEMMA InitOwesNothing == Init => MissInv
<1> SUFFICES ASSUME Init PROVE MissInv
  OBVIOUS
<1>1. /\ \A w \in Workers : worker[w].pc = "idle"
      /\ setup.pc = "work" /\ setup.epoch = 0 /\ setup.tests = {} /\ cur = 0
      /\ inventory = {} /\ rejected = {} /\ \A e \in Epochs : frozen[e] = {}
  BY DEF Init, Idle, SetUp
<1> QED
  BY <1>1 DEF MissInv, Dated, Again, Carried, Rejections, Owed, MissIsExplained, Busy

\* For every set of obligations and workers and every number of epochs, with
\* hard, light and full tests, slow and failing setups, audit drains and faults
\* of the validator's own: the seal's four steps, cut by any number of workers
\* that finish, are refused, put back or start in between, find every test that
\* is neither settled by the miner nor mislaid in one of the five named ways.
THEOREM MissesAreExplained == Spec => []MissIsExplained
<1>1. Init => TypeInv /\ PlaceInv /\ MissInv
  BY InitIsTyped, InitInPlace, InitOwesNothing
<1>2. TypeInv /\ PlaceInv /\ MissInv /\ [Next]_vars => (TypeInv /\ PlaceInv /\ MissInv)'
  BY NextKeepsType, NextKeepsPlaces, NextKeepsMiss
<1>3. MissInv => MissIsExplained
  BY DEF MissInv
<1> QED
  BY <1>1, <1>2, <1>3, PTL DEF Spec
=============================================================================
