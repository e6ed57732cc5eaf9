----------------------------- MODULE MinerLease -----------------------------
(***************************************************************************)
(* The miner neuron's part in the registry (neurons/miner.py): it binds its  *)
(* EVM address, looks for an entry it can go on using, registers one if      *)
(* there is none and then keeps renewing it by its index, against the        *)
(* contract of module MinerRegistry.  The process may be killed anywhere and *)
(* come back with another configuration; a call may not reach the chain, or  *)
(* reach it without its receipt being seen; validators report the entry and  *)
(* anyone may clean up old ones.  The clock's unit is a fraction of the      *)
(* lease, far longer than the retries' delays and the client's cache.        *)
(***************************************************************************)
EXTENDS MinerRegistry, FiniteSetsExt

CONSTANTS Miner,       \* the neuron's EVM address
          ModelId,     \* the modelId of a (modelId, quant) pair
          Uid,         \* the UID its hotkey has
          Interval,    \* heartbeat_interval_sec
          Margin,      \* the hour heartbeat_loop adds to it
          MaxRetries,  \* attempts of register_on_chain
          Unseen,      \* whether the receipt of a call may be lost
          MoveFlags,   \* values of --update-endpoint the processes are started with
          MaxCrashes   \* bound on kills of the process

ASSUME LeaseAssumption ==
  /\ Miner \in Addrs /\ Uid \in Uids /\ None \notin Nat
  /\ DOMAIN ModelId = Models
  /\ Interval \in Nat \ {0} /\ Interval < Lease /\ Margin \in Nat
  /\ MaxRetries \in Nat \ {0} /\ Unseen \in BOOLEAN /\ MaxCrashes \in Nat
  /\ MoveFlags \in SUBSET BOOLEAN \ {{}}

VARIABLES pc,         \* where the process is
          config,     \* what it serves
          attempt,    \* of register_on_chain's loop
          relisting,  \* register_on_chain was called by heartbeat_loop
          cache,      \* the client's cached list of entries, or None
          list, at,   \* check_existing_registration's loop
          match,
          written,    \* the index in the receipt's event, or None
          index,      \* heartbeat_loop's model_index
          due,        \* when its sleep ends
          failing,    \* it is backing off
          gaveUp,     \* a deactivation was given up, or an earlier
                      \* process was disturbed or gave one up
          disturbed,  \* an index of this address, or its binding, was taken
                      \* away from the running process
          moved,      \* --update-endpoint has moved an entry
          crashes

registerVars == <<attempt, relisting, list, at, match, written>>
heartbeatVars == <<index, due, failing>>
processVars == <<pc, config, registerVars, heartbeatVars, cache, gaveUp>>
leaseVars == <<registryVars, calls, processVars, disturbed, moved, crashes>>

\* The endpoints are ports of one host: --update-endpoint leaves others alone.
Configs == [model : Models, endpoint : Endpoints, ctx : Contexts, moves : MoveFlags]

LeaseTypeOK ==
  /\ TypeOK
  /\ pc \in {"down", "bind", "read", "scan", "register", "index", "heartbeat"}
  /\ config \in Configs
  /\ attempt \in 1..MaxRetries
  /\ relisting \in BOOLEAN /\ failing \in BOOLEAN
  /\ gaveUp \in BOOLEAN /\ disturbed \in BOOLEAN /\ moved \in BOOLEAN
  /\ cache \in Seq(Entry) \union {None}
  /\ list \in Seq(Entry) /\ at \in 1..(Len(list) + 1)
  /\ {match, written, index} \subseteq Indices \union {None}
  /\ due \in Nat /\ crashes \in 0..MaxCrashes

LeaseInit ==
  /\ Init
  /\ pc = "down" /\ config \in Configs
  /\ attempt = 1 /\ relisting = FALSE
  /\ cache = None /\ list = <<>> /\ at = 1
  /\ match = None /\ written = None /\ index = None
  /\ due = 0 /\ failing = FALSE
  /\ gaveUp = FALSE /\ disturbed = FALSE /\ moved = FALSE /\ crashes = 0

-----------------------------------------------------------------------------
(***************************************************************************)
(* register_on_chain                                                         *)
(***************************************************************************)

\* main(): a fresh process, perhaps configured anew, registers.
Start ==
  /\ pc = "down"
  /\ pc' = "bind"
  /\ config' \in Configs
  /\ gaveUp' = (gaveUp \/ disturbed) /\ disturbed' = FALSE
  /\ UNCHANGED <<registryVars, calls, registerVars, heartbeatVars, cache, moved, crashes>>

\* The loop's variables when no call of register_on_chain is running.
LoopReset ==
  /\ attempt' = 1 /\ relisting' = FALSE
  /\ list' = <<>> /\ at' = 1 /\ match' = None /\ written' = None

\* Mutated form: one attempt too many.
LastAttemptOver == attempt > MaxRetries

LastAttempt == attempt = MaxRetries

\* An exception in an attempt: the next one, or the end of the process, or,
\* if heartbeat_loop called, its backoff.
AttemptFailed ==
  IF ~LastAttempt
  THEN /\ attempt' = attempt + 1 /\ pc' = "bind"
       /\ list' = <<>> /\ at' = 1 /\ match' = None /\ written' = None
       /\ UNCHANGED <<relisting, heartbeatVars, cache>>
  ELSE /\ LoopReset
       /\ pc' = IF relisting THEN "heartbeat" ELSE "down"
       /\ failing' = relisting
       /\ index' = IF relisting THEN index ELSE None
       /\ due' = IF relisting THEN clock ELSE 0
       /\ cache' = IF relisting THEN cache ELSE None

\* Mutated form: sleeps through what is left of the lease.
FirstDueLate(l, i) ==
  IF i \in DOMAIN l /\ l[i].expiresAt - clock > Interval + Margin
  THEN l[i].expiresAt ELSE clock

\* heartbeat_loop, first sleep: until the lease has Interval left.
FirstDue(l, i) ==
  IF i \in DOMAIN l /\ l[i].expiresAt - clock > Interval + Margin
  THEN l[i].expiresAt - Interval ELSE clock

\* get_miner_models
Listed == IF cache = None THEN minerModels[Miner] ELSE cache

\* The process is gone and its variables with it.
Exits ==
  /\ LoopReset
  /\ pc' = "down" /\ cache' = None
  /\ index' = None /\ due' = 0 /\ failing' = FALSE

\* register_on_chain returns i (None when its loop runs out without an
\* exception, which ends a process whose capacity-audit worker is strict); the
\* first sleep depends on a read that may fail.
Returned(i) ==
  \/ /\ pc' = "heartbeat" /\ index' = i /\ failing' = FALSE
     /\ LoopReset
     /\ IF relisting THEN due' = clock + Interval /\ UNCHANGED cache
        ELSE \/ due' = FirstDue(Listed, i) /\ cache' = Listed
             \/ due' = clock /\ UNCHANGED cache
  \/ i = None /\ ~relisting /\ Exits

\* _ensure_evm_registered: both directions and the resolved UID must match, else
\* it registers again and looks once more.
Bind(reached) ==
  /\ pc = "bind"
  /\ IF reached
     THEN /\ IF Bound(Miner, Uid) /\ Resolved(Miner) = Uid THEN UNCHANGED registryVars
             ELSE RegisterEvm(Miner, Uid)
          /\ IF Lookup[Miner] \in {None, Uid}
             THEN pc' = "read" /\ UNCHANGED <<registerVars, heartbeatVars, cache>>
             ELSE AttemptFailed
     ELSE AttemptFailed /\ UNCHANGED registryVars
  /\ UNCHANGED <<calls, config, gaveUp, disturbed, moved, crashes>>

\* check_existing_registration reads the entries, from the cache if it can.
Read(reached) ==
  /\ pc = "read"
  /\ IF reached \/ cache # None
     THEN /\ pc' = "scan" /\ list' = Listed /\ cache' = Listed
          /\ UNCHANGED <<attempt, relisting, at, match, written, heartbeatVars>>
     ELSE AttemptFailed
  /\ UNCHANGED <<registryVars, calls, config, gaveUp, disturbed, moved, crashes>>

\* The TTL of the cached list runs out.
CacheExpires ==
  /\ cache # None
  /\ cache' = None
  /\ UNCHANGED <<registryVars, calls, pc, config, registerVars, heartbeatVars,
                 gaveUp, disturbed, moved, crashes>>

Own(m) == Same(m, config.model, config.endpoint)

\* Mutated form: another model's entry on this endpoint is left alone.
ObsoleteOwn(m) == m.active /\ Own(m) /\ (m.ctx # config.ctx \/ m.expiresAt <= clock)

\* The entries check_existing_registration deactivates: another model on this
\* endpoint, its own with another context length, its own when expired.
\* Another quantization of its model is left alone.
Obsolete(m) ==
  /\ m.active
  /\ \/ m.endpoint = config.endpoint /\ ModelId[m.model] # ModelId[config.model]
     \/ Own(m) /\ (m.ctx # config.ctx \/ m.expiresAt <= clock)

\* Mutated form: reuses an entry only if its lease outlasts the next sleep.
ReusableLong(m) ==
  m.active /\ Own(m) /\ ~Obsolete(m) /\ m.expiresAt > clock + Interval

\* Already registered with the same configuration.
Reusable(m) == m.active /\ Own(m) /\ ~Obsolete(m)

\* Its own, but expired: the loop ends and the entry is registered anew.
OwnExpired(m) ==
  m.active /\ Own(m) /\ m.ctx = config.ctx /\ m.expiresAt <= clock

\* _deactivate_with_retry, on an index of the list that was read.
DeactivateListed(i, reached) ==
  IF reached /\ RegisteredNeuron(Miner) /\ i \in DOMAIN minerModels[Miner]
  THEN DeactivateModel(Miner, i) /\ UNCHANGED gaveUp
  ELSE gaveUp' = TRUE /\ UNCHANGED registryVars

\* Its own by another endpoint of the same host, which --update-endpoint moves,
\* unless there was a match before.
Movable(m) ==
  /\ config.moves /\ match = None
  /\ m.active /\ m.model = config.model /\ m.endpoint # config.endpoint

\* A second match: the older one goes first.
SecondMatch(m) == match # None /\ m.active /\ Own(m) /\ m.ctx = config.ctx

\* One turn of the loop.
Scan(reached) ==
  /\ pc = "scan" /\ at <= Len(list)
  /\ ~Movable(list[at]) /\ ~SecondMatch(list[at])
  /\ IF Obsolete(list[at]) THEN DeactivateListed(at, reached)
     ELSE reached /\ UNCHANGED <<registryVars, gaveUp>>
  /\ match' = IF Reusable(list[at]) THEN at ELSE match
  /\ IF OwnExpired(list[at])
     THEN pc' = "register" /\ UNCHANGED at
     ELSE at' = at + 1 /\ UNCHANGED pc
  /\ UNCHANGED <<calls, config, attempt, relisting, list, written,
                 heartbeatVars, cache, disturbed, moved, crashes>>

DropOlder(reached) ==
  /\ pc = "scan" /\ at <= Len(list) /\ SecondMatch(list[at])
  /\ DeactivateListed(match, reached)
  /\ match' = None
  /\ UNCHANGED <<calls, pc, config, attempt, relisting, list, at, written,
                 heartbeatVars, cache, disturbed, moved, crashes>>

\* updateEndpoint; one that fails is logged and the scan goes on.
MayMove ==
  /\ RegisteredNeuron(Miner) /\ at \in DOMAIN minerModels[Miner]
  /\ ~DuplicateUpdate(Miner, at, config.endpoint)
  /\ Released(Miner, minerModels[Miner][at].endpoint)[config.endpoint]
       \in {None, Miner}

\* Mutated form: takes the entry for moved although the call failed.
MoveRegardless(reached) ==
  /\ pc = "scan" /\ at <= Len(list) /\ Movable(list[at])
  /\ IF reached /\ MayMove
     THEN UpdateEndpoint(Miner, at, config.endpoint) /\ moved' = TRUE
     ELSE UNCHANGED <<registryVars, moved>>
  /\ match' = at /\ at' = at + 1
  /\ UNCHANGED <<calls, pc, config, attempt, relisting, list, written,
                 heartbeatVars, cache, gaveUp, disturbed, crashes>>

Move(reached) ==
  /\ pc = "scan" /\ at <= Len(list) /\ Movable(list[at])
  /\ IF reached /\ MayMove
     THEN /\ UpdateEndpoint(Miner, at, config.endpoint)
          /\ moved' = TRUE
          /\ match' \in {at} \union {m \in {None} : Unseen}
     ELSE UNCHANGED <<registryVars, moved, match>>
  /\ at' = at + 1
  /\ UNCHANGED <<calls, pc, config, attempt, relisting, list, written,
                 heartbeatVars, cache, gaveUp, disturbed, crashes>>

Scanned ==
  /\ pc = "scan" /\ at > Len(list)
  /\ IF match # None THEN Returned(match)
     ELSE pc' = "register" /\ UNCHANGED <<registerVars, heartbeatVars, cache>>
  /\ UNCHANGED <<registryVars, calls, config, gaveUp, disturbed, moved, crashes>>

MayRegister ==
  /\ RegisteredNeuron(Miner) /\ Claimable(Miner, config.endpoint)
  /\ ~Duplicate(Miner, config.model, config.endpoint)
  /\ Reactivatable(Miner, config.model, config.endpoint) = {} => HasRoom(Miner)

\* registerModel.  "Duplicate active entry" goes round the loop again without
\* an exception; any other failure is one.
Register(reached) ==
  /\ pc = "register"
  /\ IF reached /\ MayRegister
     THEN /\ RegisterModel(Miner, config.model, config.endpoint, config.ctx)
          /\ \/ /\ pc' = "index"
                /\ LET found == Reactivatable(Miner, config.model, config.endpoint)
                   IN written' = IF found = {} THEN None ELSE Min(found)
                /\ UNCHANGED <<attempt, relisting, list, at, match,
                               heartbeatVars, cache>>
             \/ Unseen /\ AttemptFailed
     ELSE /\ UNCHANGED registryVars
          /\ IF /\ reached /\ LastAttempt /\ RegisteredNeuron(Miner)
                /\ Duplicate(Miner, config.model, config.endpoint)
             THEN Returned(None) ELSE AttemptFailed
  /\ UNCHANGED <<calls, config, gaveUp, disturbed, moved, crashes>>

\* _find_registered_model_index
Findable(l) == {i \in DOMAIN l : l[i].active /\ Own(l[i]) /\ l[i].ctx = config.ctx}

\* _parse_model_index_from_receipt: ModelReactivated carries the index,
\* ModelRegistered stands for the last entry there is by now.
EventIndex == IF written # None THEN written ELSE Len(minerModels[Miner])

\* Without the receipt the entry is looked for in the (cached) list.
Index ==
  /\ pc = "index"
  /\ \/ Returned(EventIndex)
     \/ /\ Unseen
        /\ IF Findable(Listed) # {}
           THEN Returned(Max(Findable(Listed))) ELSE AttemptFailed
  /\ UNCHANGED <<registryVars, calls, config, gaveUp, disturbed, moved, crashes>>

-----------------------------------------------------------------------------
(***************************************************************************)
(* heartbeat_loop                                                            *)
(***************************************************************************)
Awake == clock >= due \/ clock = MaxTime

LeaseEnded ==
  /\ RegisteredNeuron(Miner) /\ index \in DOMAIN minerModels[Miner]
  /\ minerModels[Miner][index].expiresAt <= clock

\* Mutated form: backs off and tries the same index again.
ReregisterNever == LeaseEnded /\ index = None

\* The one revert heartbeat_loop tells from the others.
Reregister == LeaseEnded

\* renewModel.  Only a lease that has ended makes the neuron register again.
Renew(reached) ==
  /\ pc = "heartbeat" /\ Awake
  /\ IF reached /\ index # None /\ Renewable(Miner, index)
     THEN /\ RenewModel(Miner, index)
          /\ \/ due' = clock + Interval /\ failing' = FALSE
             \/ due' = clock /\ failing' = TRUE
          /\ UNCHANGED <<pc, registerVars, index>>
     ELSE /\ UNCHANGED registryVars
          /\ IF reached /\ index # None /\ Reregister
             THEN /\ pc' = "bind" /\ relisting' = TRUE
                  /\ UNCHANGED <<attempt, list, at, match, written, heartbeatVars>>
             ELSE /\ failing' = TRUE /\ due' = clock
                  /\ UNCHANGED <<pc, registerVars, index>>
  /\ UNCHANGED <<calls, config, cache, gaveUp, disturbed, moved, crashes>>

-----------------------------------------------------------------------------
(***************************************************************************)
(* The others                                                                *)
(***************************************************************************)
Crash ==
  /\ pc # "down" /\ crashes < MaxCrashes
  /\ crashes' = crashes + 1
  /\ Exits
  /\ UNCHANGED <<registryVars, calls, config, gaveUp, disturbed, moved>>

\* Time does not pass over a neuron that is about to act.
Pass ==
  /\ pc = "down" \/ (pc = "heartbeat" /\ (~Awake \/ failing))
  /\ Tick
  /\ cache' = None
  /\ UNCHANGED <<calls, pc, config, registerVars, heartbeatVars, gaveUp,
                 disturbed, moved, crashes>>

Reported ==
  /\ Call
  /\ \E v \in Addrs, i \in Indices : ReportOffline(v, Miner, i)
  /\ UNCHANGED <<processVars, disturbed, moved, crashes>>

CleanedUp ==
  /\ Call
  /\ \E i \in Indices : Cleanup(Miner, i)
  /\ disturbed' = (disturbed \/ pc # "down")
  /\ UNCHANGED <<processVars, moved, crashes>>

Unbound ==
  /\ Call
  /\ ResetEvmRegistration(Uid)
  /\ disturbed' = (disturbed \/ pc # "down")
  /\ UNCHANGED <<processVars, moved, crashes>>

LeaseNext ==
  \/ Start \/ CacheExpires \/ Scanned \/ Index
  \/ \E reached \in BOOLEAN :
       \/ Bind(reached) \/ Read(reached)
       \/ Scan(reached) \/ DropOlder(reached) \/ Move(reached)
       \/ Register(reached) \/ Renew(reached)
  \/ Crash \/ Pass \/ Reported \/ CleanedUp \/ Unbound

LeaseSpec == LeaseInit /\ [][LeaseNext]_leaseVars

(***************************************************************************)
(* Fairness.  A process manager restarts the process, which never stops      *)
(* taking its next step; the cached list's TTL runs out; the client's retries *)
(* outlast any outage, so a call that is made again and again reaches the     *)
(* chain in the end.                                                         *)
(***************************************************************************)
OwnStep ==
  \/ Start \/ Scanned \/ Index
  \/ \E reached \in BOOLEAN : Scan(reached) \/ DropOlder(reached) \/ Move(reached)

LiveSpec ==
  /\ LeaseSpec
  /\ WF_leaseVars(OwnStep) /\ WF_leaseVars(Pass) /\ WF_leaseVars(CacheExpires)
  /\ SF_leaseVars(Bind(TRUE)) /\ SF_leaseVars(Read(TRUE))
  /\ SF_leaseVars(Register(TRUE)) /\ SF_leaseVars(Renew(TRUE))

-----------------------------------------------------------------------------
(***************************************************************************)
(* Properties                                                                *)
(***************************************************************************)

\* The heartbeat renews the entry of the model and endpoint the process
\* serves, through restarts with other configurations, reports, expiries,
\* moves and re-registrations from a cached list, unless someone took an index
\* away from it.
IndexIsOwn ==
  pc = "heartbeat" /\ ~disturbed /\ index # None =>
    index \in DOMAIN minerModels[Miner] /\ Own(minerModels[Miner][index])

\* A process in its heartbeat has an index to renew, unless a deactivation was
\* given up: an entry of its own with another context length then makes every
\* registration a duplicate.
HasIndex == pc = "heartbeat" /\ ~disturbed /\ ~gaveUp => index # None

\* The miner has one entry for each model and endpoint until --update-endpoint
\* has moved one: registerModel takes an old entry over, and only updateEndpoint
\* may put an entry beside an inactive or expired one of the same pair.
UniqueEntry ==
  ~moved => \A i, j \in DOMAIN minerModels[Miner] :
    Same(minerModels[Miner][i], minerModels[Miner][j].model,
         minerModels[Miner][j].endpoint) => i = j

\* Even then there are never two live ones, so no validator counts one server
\* twice: updateEndpoint lands only beside an entry that is not live, the scan
\* drops the older of two matches, and the heartbeat does not renew an entry
\* that a moved one has replaced, unless that deactivation was given up.
OneLiveEntry ==
  ~disturbed /\ ~gaveUp =>
    \A i, j \in DOMAIN minerModels[Miner] :
      LET m == minerModels[Miner]
      IN Live(m[i]) /\ Live(m[j]) /\ Same(m[i], m[j].model, m[j].endpoint) => i = j

\* A process in its heartbeat has taken every other model off its endpoint,
\* unless a deactivation was given up: validators do not send the endpoint
\* requests for a model that it no longer serves.  (What an earlier process
\* left behind may survive: the scan ends at an expired entry of its own.)
OneModelServed ==
  pc = "heartbeat" /\ ~disturbed /\ ~gaveUp =>
    \A i \in DOMAIN minerModels[Miner] :
      LET m == minerModels[Miner][i]
      IN m.active /\ m.endpoint = config.endpoint =>
           ModelId[m.model] = ModelId[config.model]

\* Unless its calls are failing, the neuron wakes before its lease ends.
SleepsWithinLease ==
  pc = "heartbeat" /\ ~disturbed /\ ~failing /\ due > clock =>
    minerModels[Miner][index].expiresAt > due

\* Whatever expired, was reported or failed before, the served endpoint has a
\* live entry again and again, unless an index or the binding is taken away
\* while the process runs or the process has none to renew.
Relisted ==
  []<>(\/ disturbed
       \/ index = None /\ gaveUp
       \/ \E i \in DOMAIN minerModels[Miner] :
            Live(minerModels[Miner][i]) /\ Own(minerModels[Miner][i]))
=============================================================================
