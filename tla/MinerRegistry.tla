--------------------------- MODULE MinerRegistry ---------------------------
(***************************************************************************)
(* The MinerRegistry contract (contracts/src/MinerRegistry.sol): the binding *)
(* of EVM addresses to subnet UIDs, the leased model entries of each miner,  *)
(* the owners of the endpoints, and the validators' offline reports.  Every  *)
(* external function that writes one of these is one action (a transaction   *)
(* is atomic); a require that fails reverts, so it is a conjunct of the      *)
(* action's guard.  The demand scores, the TEE attestations and the list of   *)
(* providers of a model, which nothing here reads, are left out.  The same    *)
(* code binds addresses in ValidatorRegistry.sol and                         *)
(* UsageCheckpointRegistry.sol.                                              *)
(***************************************************************************)
EXTENDS Integers, Sequences, FiniteSets

CONSTANTS None,              \* address(0)
          Addrs,             \* EVM addresses
          Uids,              \* UIDs of the subnet's metagraph
          Validators,        \* UIDs META.getValidatorStatus accepts
          Lookup,            \* answer of the UidLookup precompile, or None
          Models,            \* (modelId, quant) pairs
          Endpoints,
          Contexts,          \* claimed maxContextLen
          Lease,             \* LEASE_DURATION
          Grace,             \* CLEANUP_GRACE
          OfflineThreshold,  \* OFFLINE_THRESHOLD
          MaxModels,         \* MAX_MODELS_PER_MINER
          MaxTime,           \* bound on block.timestamp
          MaxCalls           \* bound on the transactions of a behaviour

ASSUME RegistryAssumption ==
  /\ None \notin Addrs /\ None \notin Uids
  /\ Uids \subseteq Nat /\ 0 \in Uids /\ Validators \subseteq Uids
  /\ Lookup \in [Addrs -> Uids \union {None}]
  /\ Lease \in Nat \ {0} /\ Grace \in Nat /\ MaxTime \in Nat /\ MaxCalls \in Nat
  /\ OfflineThreshold \in Nat \ {0} /\ MaxModels \in Nat \ {0}

VARIABLES clock,          \* block.timestamp
          minerModels,
          endpointOwner,  \* _endpointOwner
          failureCount,
          reported,
          evmToUid,
          evmRegistered,
          uidToEvm,
          calls           \* transactions so far

bindingVars == <<evmToUid, evmRegistered, uidToEvm>>
modelVars == <<minerModels, endpointOwner>>
reportVars == <<failureCount, reported>>
registryVars == <<clock, modelVars, reportVars, bindingVars>>
vars == <<registryVars, calls>>

\* struct MinerModel; modelSpecRef is never compared
Entry == [model : Models, endpoint : Endpoints, ctx : Contexts,
          expiresAt : Nat, active : BOOLEAN]

Indices == 1..MaxModels

TypeOK ==
  /\ clock \in Nat /\ calls \in Nat
  /\ minerModels \in [Addrs -> Seq(Entry)]
  /\ \A a \in Addrs : Len(minerModels[a]) <= MaxModels
  /\ endpointOwner \in [Endpoints -> Addrs \union {None}]
  /\ failureCount \in [Addrs -> [Indices -> Nat]]
  /\ reported \in [Addrs -> [Indices -> SUBSET Addrs]]
  /\ evmToUid \in [Addrs -> Uids]
  /\ evmRegistered \in [Addrs -> BOOLEAN]
  /\ uidToEvm \in [Uids -> Addrs \union {None}]

Init ==
  /\ clock = 0 /\ calls = 0
  /\ minerModels = [a \in Addrs |-> <<>>]
  /\ endpointOwner = [e \in Endpoints |-> None]
  /\ failureCount = [a \in Addrs |-> [i \in Indices |-> 0]]
  /\ reported = [a \in Addrs |-> [i \in Indices |-> {}]]
  /\ evmToUid = [a \in Addrs |-> 0]
  /\ evmRegistered = [a \in Addrs |-> FALSE]
  /\ uidToEvm = [u \in Uids |-> None]

-----------------------------------------------------------------------------
(***************************************************************************)
(* EVM <-> UID registration.  Substrate may give a UID's hotkey to another   *)
(* operator at any time, so any address may come with a valid signature for  *)
(* any UID.                                                                  *)
(***************************************************************************)
Bound(a, u) == uidToEvm[u] = a /\ evmRegistered[a] /\ evmToUid[a] = u

\* Mutated form: the caller's previous UID keeps pointing at it.
LeftUidsKept(a, u) == {}

\* Reverse heal: the UID the caller leaves, if it still maps to the caller.
LeftUids(a, u) ==
  {v \in Uids : /\ evmRegistered[a] /\ evmToUid[a] = v
                /\ v # u /\ uidToEvm[v] = a}

\* Forward heal: the address that held the UID before.
Displaced(a, u) == {uidToEvm[u]} \ {None, a}

RegisterEvm(a, u) ==
  /\ IF Bound(a, u) THEN UNCHANGED bindingVars
     ELSE /\ uidToEvm' = [v \in Uids |-> IF v = u THEN a
                                         ELSE IF v \in LeftUids(a, u) THEN None
                                         ELSE uidToEvm[v]]
          /\ evmRegistered' = [b \in Addrs |->
               b = a \/ (b \notin Displaced(a, u) /\ evmRegistered[b])]
          /\ evmToUid' = [b \in Addrs |-> IF b = a THEN u
                                          ELSE IF b \in Displaced(a, u) THEN 0
                                          ELSE evmToUid[b]]
  /\ UNCHANGED <<clock, modelVars, reportVars>>

\* Called by the bound address itself or by the subnet owner.
ResetEvmRegistration(u) ==
  /\ uidToEvm[u] # None
  /\ evmRegistered' = [evmRegistered EXCEPT ![uidToEvm[u]] = FALSE]
  /\ evmToUid' = [evmToUid EXCEPT ![uidToEvm[u]] = 0]
  /\ uidToEvm' = [uidToEvm EXCEPT ![u] = None]
  /\ UNCHANGED <<clock, modelVars, reportVars>>

\* _resolveUid: the precompile first, then the contract's own mapping.
Resolved(a) == IF Lookup[a] # None THEN Lookup[a] ELSE evmToUid[a]
RegisteredNeuron(a) == Lookup[a] # None \/ evmRegistered[a]
Validator(a) == RegisteredNeuron(a) /\ Resolved(a) \in Validators

-----------------------------------------------------------------------------
(***************************************************************************)
(* Model entries and endpoints                                               *)
(***************************************************************************)
Live(m) == m.active /\ m.expiresAt > clock

Same(m, model, e) == m.model = model /\ m.endpoint = e

\* _requireNoDuplicate
Duplicate(a, model, e) ==
  \E i \in DOMAIN minerModels[a] :
    Live(minerModels[a][i]) /\ Same(minerModels[a][i], model, e)

\* Mutated form: an entry its miner has deactivated before its lease ended is
\* passed over.
ReactivatableExpired(a, model, e) ==
  {i \in DOMAIN minerModels[a] :
     minerModels[a][i].expiresAt <= clock /\ Same(minerModels[a][i], model, e)}

\* _findReactivatable returns the first of these.
Reactivatable(a, model, e) ==
  {i \in DOMAIN minerModels[a] :
     ~Live(minerModels[a][i]) /\ Same(minerModels[a][i], model, e)}

\* _claimEndpoint
Claimable(a, e) == endpointOwner[e] \in {None, a}

\* Mutated form: the endpoint stays claimed.
ReleasedNever(a, e) == endpointOwner

\* _releaseEndpoint and _releaseEndpointFor
Released(a, e) ==
  [endpointOwner EXCEPT ![e] = IF endpointOwner[e] = a THEN None ELSE @]

\* Mutated form: one entry too many.
HasRoomOver(a) == Len(minerModels[a]) <= MaxModels

HasRoom(a) == Len(minerModels[a]) < MaxModels

NewEntry(model, e, c) ==
  [model |-> model, endpoint |-> e, ctx |-> c,
   expiresAt |-> clock + Lease, active |-> TRUE]

RegisterModel(a, model, e, c) ==
  LET found == Reactivatable(a, model, e)
      new == NewEntry(model, e, c)
  IN /\ RegisteredNeuron(a)
     /\ ~Duplicate(a, model, e)
     /\ Claimable(a, e)
     /\ endpointOwner' = [endpointOwner EXCEPT ![e] = a]
     /\ IF found = {}
        THEN /\ HasRoom(a)
             /\ minerModels' = [minerModels EXCEPT ![a] = Append(@, new)]
             /\ UNCHANGED failureCount
        ELSE \E i \in found :
             /\ \A j \in found : i <= j
             /\ minerModels' = [minerModels EXCEPT ![a][i] = new]
             /\ failureCount' = [failureCount EXCEPT ![a][i] = 0]
     /\ UNCHANGED <<clock, reported, bindingVars>>

Renewed(m) == [m EXCEPT !.expiresAt = clock + Lease, !.active = TRUE]

Renewable(a, i) ==
  /\ RegisteredNeuron(a) /\ i \in DOMAIN minerModels[a]
  /\ minerModels[a][i].expiresAt > clock

RenewModel(a, i) ==
  /\ Renewable(a, i)
  /\ minerModels' = [minerModels EXCEPT ![a][i] = Renewed(@)]
  /\ failureCount' = [failureCount EXCEPT ![a][i] = 0]
  /\ UNCHANGED <<clock, endpointOwner, reported, bindingVars>>

Deactivated(m) == [m EXCEPT !.active = FALSE]

DeactivateModel(a, i) ==
  /\ RegisteredNeuron(a) /\ i \in DOMAIN minerModels[a]
  /\ endpointOwner' = Released(a, minerModels[a][i].endpoint)
  /\ minerModels' = [minerModels EXCEPT ![a][i] = Deactivated(@)]
  /\ UNCHANGED <<clock, reportVars, bindingVars>>

\* Mutated form: a live entry is in the way only if its lease outlasts the other's.
DuplicateUpdateLonger(a, i, e) ==
  \E j \in DOMAIN minerModels[a] \ {i} :
    /\ Live(minerModels[a][j])
    /\ Same(minerModels[a][j], minerModels[a][i].model, e)
    /\ minerModels[a][j].expiresAt > minerModels[a][i].expiresAt

\* _requireNoDuplicateEndpointUpdate
DuplicateUpdate(a, i, e) ==
  \E j \in DOMAIN minerModels[a] \ {i} :
    /\ Live(minerModels[a][j])
    /\ Same(minerModels[a][j], minerModels[a][i].model, e)

Moved(m, e) == [m EXCEPT !.endpoint = e]

UpdateEndpoint(a, i, e) ==
  /\ RegisteredNeuron(a) /\ i \in DOMAIN minerModels[a]
  /\ ~DuplicateUpdate(a, i, e)
  /\ Released(a, minerModels[a][i].endpoint)[e] \in {None, a}
  /\ endpointOwner' = [Released(a, minerModels[a][i].endpoint) EXCEPT ![e] = a]
  /\ minerModels' = [minerModels EXCEPT ![a][i] = Moved(@, e)]
  /\ UNCHANGED <<clock, reportVars, bindingVars>>

-----------------------------------------------------------------------------
(***************************************************************************)
(* Offline reports, cleanup and time                                         *)
(***************************************************************************)
\* Mutated form: a validator may report the same entry again.
MayReportAgain(v, a, i) == Validator(v) /\ i \in DOMAIN minerModels[a]

MayReport(v, a, i) ==
  /\ Validator(v) /\ i \in DOMAIN minerModels[a]
  /\ v \notin reported[a][i]

ReportOffline(v, a, i) ==
  /\ MayReport(v, a, i)
  /\ reported' = [reported EXCEPT ![a][i] = @ \union {v}]
  /\ failureCount' = [failureCount EXCEPT ![a][i] = @ + 1]
  /\ minerModels' = IF failureCount[a][i] + 1 >= OfflineThreshold
                    THEN [minerModels EXCEPT ![a][i] = Deactivated(@)]
                    ELSE minerModels
  /\ UNCHANGED <<clock, endpointOwner, bindingVars>>

\* Swap and pop; the reports stay with the index.
WithoutEntry(s, i) ==
  [j \in 1..(Len(s) - 1) |-> IF j = i THEN s[Len(s)] ELSE s[j]]

\* Mutated form: an entry may be removed as soon as its lease has ended.
CleanableAtOnce(a, i) ==
  i \in DOMAIN minerModels[a] /\ minerModels[a][i].expiresAt < clock

Cleanable(a, i) ==
  /\ i \in DOMAIN minerModels[a]
  /\ minerModels[a][i].expiresAt + Grace < clock

Cleanup(a, i) ==
  /\ Cleanable(a, i)
  /\ endpointOwner' = Released(a, minerModels[a][i].endpoint)
  /\ minerModels' = [minerModels EXCEPT ![a] = WithoutEntry(@, i)]
  /\ UNCHANGED <<clock, reportVars, bindingVars>>

Tick ==
  /\ clock < MaxTime
  /\ clock' = clock + 1
  /\ UNCHANGED <<modelVars, reportVars, bindingVars>>

Call == calls < MaxCalls /\ calls' = calls + 1

Next ==
  \/ Tick /\ UNCHANGED calls
  \/ \E a \in Addrs, u \in Uids : Call /\ RegisterEvm(a, u)
  \/ \E u \in Uids : Call /\ ResetEvmRegistration(u)
  \/ \E a \in Addrs, model \in Models, e \in Endpoints, c \in Contexts :
       Call /\ RegisterModel(a, model, e, c)
  \/ \E a \in Addrs, i \in Indices : Call /\ RenewModel(a, i)
  \/ \E a \in Addrs, i \in Indices : Call /\ DeactivateModel(a, i)
  \/ \E a \in Addrs, i \in Indices, e \in Endpoints :
       Call /\ UpdateEndpoint(a, i, e)
  \/ \E v, a \in Addrs, i \in Indices : Call /\ ReportOffline(v, a, i)
  \/ \E a \in Addrs, i \in Indices : Call /\ Cleanup(a, i)

Spec == Init /\ [][Next]_vars

-----------------------------------------------------------------------------
(***************************************************************************)
(* Properties                                                                *)
(***************************************************************************)

\* registerEvm and resetEvmRegistration keep the two mappings inverse to each
\* other whatever UIDs are recycled and whichever addresses move: an address
\* never acts under a UID that the contract gives to another address.
BindingIsInverse ==
  \A a \in Addrs, u \in Uids :
    uidToEvm[u] = a <=> (evmRegistered[a] /\ evmToUid[a] = u)

\* An endpoint's owner has an entry on it, so it can always be given up:
\* deactivateModel, updateEndpoint or, for a miner that is gone, anyone's
\* cleanup releases it.  No sequence of these calls leaves it claimed for ever.
OwnerHasEntry ==
  \A e \in Endpoints, a \in Addrs :
    endpointOwner[e] = a =>
      \E i \in DOMAIN minerModels[a] : minerModels[a][i].endpoint = e

\* failureCount never exceeds the number of addresses that have reported the
\* index, so reportOffline takes an entry off line only after that many
\* different reporters.
ReportsCounted ==
  \A a \in Addrs, i \in Indices :
    failureCount[a][i] <= Cardinality(reported[a][i])

\* Whatever is called, and by whom, an entry that is not yet eligible for
\* cleanup is never dropped and its lease never shortened: cleanup's swap and
\* pop loses the entry it is asked for and no other.
Kept(s, t) ==
  \A i \in DOMAIN s :
    s[i].expiresAt + Grace >= clock =>
      \E j \in DOMAIN t : /\ t[j].model = s[i].model
                          /\ t[j].expiresAt >= s[i].expiresAt
LeaseKept ==
  [][\A a \in Addrs : Kept(minerModels[a], minerModels'[a])]_vars
=============================================================================
