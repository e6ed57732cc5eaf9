------------------------ MODULE MinerRegistryProofs ------------------------
(***************************************************************************)
(* Proofs about the MinerRegistry contract, for any addresses, UIDs,         *)
(* endpoints and bounds: the type invariant, the three invariants of the     *)
(* run, and that no call drops an entry before its time.                     *)
(***************************************************************************)
EXTENDS MinerRegistry, FiniteSetTheorems, SequenceTheorems, TLAPS

-----------------------------------------------------------------------------
(***************************************************************************)
(* Entries and arrays                                                        *)
(***************************************************************************)

\* The entry operations return entries; each changes the fields it names.
LEMMA EntryOps ==
  ASSUME NEW m \in Entry, clock \in Nat, Lease \in Nat
  PROVE  /\ Renewed(m) \in Entry /\ Deactivated(m) \in Entry
         /\ Renewed(m).endpoint = m.endpoint
         /\ Deactivated(m).endpoint = m.endpoint
         /\ Renewed(m).model = m.model /\ Deactivated(m).model = m.model
         /\ Renewed(m).expiresAt = clock + Lease
         /\ Deactivated(m).expiresAt = m.expiresAt
<1>1. clock + Lease \in Nat
  OBVIOUS
<1>2. ASSUME NEW t \in Nat, NEW r, r = [m EXCEPT !.expiresAt = t, !.active = TRUE]
      PROVE  /\ r \in Entry /\ r.endpoint = m.endpoint /\ r.model = m.model
             /\ r.expiresAt = t
  BY <1>2, Zenon DEF Entry
<1>3. /\ Deactivated(m) \in Entry /\ Deactivated(m).endpoint = m.endpoint
      /\ Deactivated(m).model = m.model
      /\ Deactivated(m).expiresAt = m.expiresAt
  BY Zenon DEF Deactivated, Entry
<1>4. /\ Renewed(m) \in Entry /\ Renewed(m).endpoint = m.endpoint
      /\ Renewed(m).model = m.model /\ Renewed(m).expiresAt = clock + Lease
  BY <1>1, <1>2, Zenon DEF Renewed
<1> QED
  BY <1>3, <1>4, Zenon

\* updateEndpoint's entry.
LEMMA MovedEntry ==
  ASSUME NEW m \in Entry, NEW e \in Endpoints
  PROVE  /\ Moved(m, e) \in Entry /\ Moved(m, e).endpoint = e
         /\ Moved(m, e).model = m.model /\ Moved(m, e).expiresAt = m.expiresAt
BY Zenon DEF Moved, Entry

\* registerModel's entry.
LEMMA FreshEntry ==
  ASSUME NEW model \in Models, NEW e \in Endpoints, NEW c \in Contexts,
         clock \in Nat, Lease \in Nat
  PROVE  /\ NewEntry(model, e, c) \in Entry
         /\ NewEntry(model, e, c).endpoint = e
         /\ NewEntry(model, e, c).model = model
         /\ NewEntry(model, e, c).expiresAt = clock + Lease
<1>1. clock + Lease \in Nat
  OBVIOUS
<1> QED
  BY <1>1, Zenon DEF NewEntry, Entry

\* Writing one element keeps an array an array of the same length.
LEMMA Written ==
  ASSUME NEW S, NEW s \in Seq(S), NEW i \in DOMAIN s, NEW x \in S
  PROVE  /\ [s EXCEPT ![i] = x] \in Seq(S)
         /\ Len([s EXCEPT ![i] = x]) = Len(s)
         /\ DOMAIN [s EXCEPT ![i] = x] = DOMAIN s
         /\ [s EXCEPT ![i] = x][i] = x
         /\ \A j \in DOMAIN s : j # i => [s EXCEPT ![i] = x][j] = s[j]
OBVIOUS

\* Swap and pop keeps every element but the one removed.
LEMMA Removed ==
  ASSUME NEW S, NEW s \in Seq(S), NEW i \in DOMAIN s
  PROVE  /\ WithoutEntry(s, i) \in Seq(S)
         /\ Len(WithoutEntry(s, i)) = Len(s) - 1
         /\ \A j \in DOMAIN s : j # i =>
              \E k \in DOMAIN WithoutEntry(s, i) : WithoutEntry(s, i)[k] = s[j]
         /\ \A k \in DOMAIN WithoutEntry(s, i) :
              \E j \in DOMAIN s : WithoutEntry(s, i)[k] = s[j]
<1> DEFINE t == WithoutEntry(s, i)
<1>1. Len(s) \in Nat /\ DOMAIN s = 1..Len(s) /\ Len(s) >= 1 /\ i \in 1..Len(s)
  OBVIOUS
<1>2. /\ DOMAIN t = 1..(Len(s) - 1)
      /\ \A j \in 1..(Len(s) - 1) : t[j] = IF j = i THEN s[Len(s)] ELSE s[j]
  BY DEF WithoutEntry
<1>3. \A j \in 1..(Len(s) - 1) : t[j] \in S
  BY <1>1, <1>2
<1>4. t = [j \in 1..(Len(s) - 1) |-> t[j]]
  BY <1>2 DEF WithoutEntry
<1>5. Len(s) - 1 \in Nat
  BY <1>1
<1>6. t \in Seq(S) /\ Len(t) = Len(s) - 1
  BY <1>2, <1>3, <1>4, <1>5
<1>7. ASSUME NEW j \in DOMAIN s, j # i PROVE \E k \in DOMAIN t : t[k] = s[j]
  <2>1. CASE j = Len(s)
    <3>1. i \in 1..(Len(s) - 1) /\ t[i] = s[j]
      BY <1>1, <1>2, <1>7, <2>1
    <3> QED
      BY <1>2, <3>1
  <2>2. CASE j # Len(s)
    <3>1. j \in 1..(Len(s) - 1) /\ t[j] = s[j]
      BY <1>1, <1>2, <1>7, <2>2
    <3> QED
      BY <1>2, <3>1
  <2> QED
    BY <2>1, <2>2
<1>8. ASSUME NEW k \in DOMAIN t PROVE \E j \in DOMAIN s : t[k] = s[j]
  <2>1. k \in DOMAIN s /\ Len(s) \in DOMAIN s
    BY <1>1, <1>2
  <2> QED
    BY <1>2, <2>1
<1> QED
  BY <1>6, <1>7, <1>8

-----------------------------------------------------------------------------
(***************************************************************************)
(* The inductive invariant: the reporters of an index are finitely many, so  *)
(* that they can be counted, and no lease runs longer than one given now, so *)
(* that writing a new one never shortens it.                                 *)
(***************************************************************************)
FiniteReports ==
  \A a \in Addrs, i \in Indices : IsFiniteSet(reported[a][i])

LeaseBound ==
  \A a \in Addrs : \A i \in DOMAIN minerModels[a] :
    minerModels[a][i].expiresAt <= clock + Lease

IInv == /\ TypeOK /\ BindingIsInverse /\ OwnerHasEntry
        /\ ReportsCounted /\ FiniteReports /\ LeaseBound

\* The parts of the type invariant.
ModelsOK(mm) ==
  /\ mm \in [Addrs -> Seq(Entry)]
  /\ \A a \in Addrs : Len(mm[a]) <= MaxModels
OwnersOK(oo) == oo \in [Endpoints -> Addrs \union {None}]
BindingOK(toUid, reg, toEvm) ==
  /\ toUid \in [Addrs -> Uids] /\ reg \in [Addrs -> BOOLEAN]
  /\ toEvm \in [Uids -> Addrs \union {None}]
CountsOK(fc, rp) ==
  /\ fc \in [Addrs -> [Indices -> Nat]]
  /\ rp \in [Addrs -> [Indices -> SUBSET Addrs]]

\* The type invariant is the conjunction of the parts.
LEMMA TypeParts ==
  TypeOK <=> /\ clock \in Nat /\ calls \in Nat
             /\ ModelsOK(minerModels) /\ OwnersOK(endpointOwner)
             /\ CountsOK(failureCount, reported)
             /\ BindingOK(evmToUid, evmRegistered, uidToEvm)
BY Zenon DEF TypeOK, ModelsOK, OwnersOK, CountsOK, BindingOK

\* The initial state.
LEMMA InitIInv == Init => IInv
<1> SUFFICES ASSUME Init PROVE IInv
  OBVIOUS
<1> USE RegistryAssumption DEF Init
<1>1. ModelsOK(minerModels)
  <2>1. <<>> \in Seq(Entry) /\ Len(<<>>) = 0
    OBVIOUS
  <2>2. minerModels \in [Addrs -> Seq(Entry)]
    BY <2>1
  <2>3. \A a \in Addrs : minerModels[a] = <<>>
    OBVIOUS
  <2>4. \A a \in Addrs : Len(minerModels[a]) <= MaxModels
    BY <2>1, <2>3
  <2> QED
    BY <2>2, <2>4 DEF ModelsOK
<1>2. OwnersOK(endpointOwner) /\ clock \in Nat /\ calls \in Nat
  BY DEF OwnersOK
<1>3. CountsOK(failureCount, reported)
  BY DEF CountsOK
<1>4. BindingOK(evmToUid, evmRegistered, uidToEvm)
  BY DEF BindingOK
<1>5. BindingIsInverse
  BY DEF BindingIsInverse
<1>6. OwnerHasEntry
  BY DEF OwnerHasEntry
<1>7. ReportsCounted /\ FiniteReports
  BY FS_EmptySet DEF ReportsCounted, FiniteReports
<1>8. LeaseBound
  BY DEF LeaseBound
<1> QED
  BY <1>1, <1>2, <1>3, <1>4, <1>5, <1>6, <1>7, <1>8, TypeParts DEF IInv

-----------------------------------------------------------------------------
(***************************************************************************)
(* The binding                                                               *)
(***************************************************************************)

\* registerEvm: reverse and forward heal together keep the mappings inverse.
LEMMA RegisterEvmBinding ==
  ASSUME BindingOK(evmToUid, evmRegistered, uidToEvm), BindingIsInverse,
         NEW a \in Addrs, NEW u \in Uids, RegisterEvm(a, u)
  PROVE  BindingOK(evmToUid', evmRegistered', uidToEvm') /\ BindingIsInverse'
<1> USE RegistryAssumption
<1>1. CASE Bound(a, u)
  BY <1>1 DEF RegisterEvm, bindingVars, BindingOK, BindingIsInverse
<1>2. CASE ~Bound(a, u)
  <2>1. /\ uidToEvm' = [v \in Uids |-> IF v = u THEN a
                                        ELSE IF v \in LeftUids(a, u) THEN None
                                        ELSE uidToEvm[v]]
        /\ evmRegistered' = [b \in Addrs |->
              b = a \/ (b \notin Displaced(a, u) /\ evmRegistered[b])]
        /\ evmToUid' = [b \in Addrs |-> IF b = a THEN u
                                         ELSE IF b \in Displaced(a, u) THEN 0
                                         ELSE evmToUid[b]]
    BY <1>2, Zenon DEF RegisterEvm
  <2>2. BindingOK(evmToUid', evmRegistered', uidToEvm')
    <3>1. evmToUid' \in [Addrs -> Uids]
      BY <2>1 DEF BindingOK
    <3>2. uidToEvm' \in [Uids -> Addrs \union {None}]
      BY <2>1 DEF BindingOK
    <3>3. evmRegistered' \in [Addrs -> BOOLEAN]
      BY <2>1, Zenon DEF BindingOK
    <3> QED
      BY <3>1, <3>2, <3>3 DEF BindingOK
  <2>3. ASSUME NEW b \in Addrs, NEW v \in Uids
        PROVE  uidToEvm'[v] = b <=> (evmRegistered'[b] /\ evmToUid'[b] = v)
    <3>1. uidToEvm'[v] = IF v = u THEN a
                         ELSE IF v \in LeftUids(a, u) THEN None ELSE uidToEvm[v]
      BY <2>1
    <3>2. evmRegistered'[b] <=>
            (b = a \/ (b \notin Displaced(a, u) /\ evmRegistered[b]))
      BY <2>1, Zenon
    <3>3. evmToUid'[b] = IF b = a THEN u
                         ELSE IF b \in Displaced(a, u) THEN 0 ELSE evmToUid[b]
      BY <2>1
    <3>4. \A w \in Uids : w \in LeftUids(a, u) <=>
            (evmRegistered[a] /\ evmToUid[a] = w /\ w # u /\ uidToEvm[w] = a)
      BY DEF LeftUids
    <3>5. b \in Displaced(a, u) <=> (uidToEvm[u] = b /\ b # a)
      BY DEF Displaced
    <3>6. \A c \in Addrs, w \in Uids :
            uidToEvm[w] = c <=> (evmRegistered[c] /\ evmToUid[c] = w)
      BY DEF BindingIsInverse
    <3>7. CASE b = a
      <4>1. CASE v = u
        BY <3>1, <3>2, <3>3, <3>7, <4>1
      <4>2. CASE v # u
        BY <3>1, <3>3, <3>4, <3>6, <3>7, <4>2
      <4> QED
        BY <4>1, <4>2
    <3>8. CASE b # a
      <4>1. CASE v = u
        BY <3>1, <3>2, <3>3, <3>5, <3>6, <3>8, <4>1
      <4>2. CASE v # u
        BY <3>1, <3>2, <3>3, <3>4, <3>5, <3>6, <3>8, <4>2
      <4> QED
        BY <4>1, <4>2
    <3> QED
      BY <3>7, <3>8
  <2> QED
    BY <2>2, <2>3 DEF BindingIsInverse
<1> QED
  BY <1>1, <1>2

\* resetEvmRegistration removes both directions of one pair.
LEMMA ResetBinding ==
  ASSUME BindingOK(evmToUid, evmRegistered, uidToEvm), BindingIsInverse,
         NEW u \in Uids, ResetEvmRegistration(u)
  PROVE  BindingOK(evmToUid', evmRegistered', uidToEvm') /\ BindingIsInverse'
<1> USE RegistryAssumption
<1> DEFINE old == uidToEvm[u]
<1>1. old \in Addrs /\ evmRegistered[old] /\ evmToUid[old] = u
  BY DEF ResetEvmRegistration, BindingOK, BindingIsInverse
<1>2. BindingOK(evmToUid', evmRegistered', uidToEvm')
  <2>1. evmToUid' \in [Addrs -> Uids] /\ uidToEvm' \in [Uids -> Addrs \union {None}]
    BY <1>1 DEF ResetEvmRegistration, BindingOK
  <2>2. evmRegistered' \in [Addrs -> BOOLEAN]
    BY <1>1, Zenon DEF ResetEvmRegistration, BindingOK
  <2> QED
    BY <2>1, <2>2 DEF BindingOK
<1>3. ASSUME NEW b \in Addrs, NEW v \in Uids
      PROVE  uidToEvm'[v] = b <=> (evmRegistered'[b] /\ evmToUid'[b] = v)
  <2>1. uidToEvm'[v] = IF v = u THEN None ELSE uidToEvm[v]
    BY DEF ResetEvmRegistration, BindingOK
  <2>2. evmRegistered'[b] <=> (b # old /\ evmRegistered[b])
    BY <1>1, Zenon DEF ResetEvmRegistration, BindingOK
  <2>3. evmToUid'[b] = IF b = old THEN 0 ELSE evmToUid[b]
    BY <1>1 DEF ResetEvmRegistration, BindingOK
  <2>4. \A c \in Addrs, w \in Uids :
          uidToEvm[w] = c <=> (evmRegistered[c] /\ evmToUid[c] = w)
    BY DEF BindingIsInverse
  <2> QED
    BY <1>1, <2>1, <2>2, <2>3, <2>4
<1> QED
  BY <1>2, <1>3 DEF BindingIsInverse

-----------------------------------------------------------------------------
(***************************************************************************)
(* The arrays.  Every call that changes one writes an entry, appends one or  *)
(* removes one.                                                              *)
(***************************************************************************)

\* What holds of an array after a step that makes it t.
GoodArray(a, t) ==
  /\ t \in Seq(Entry) /\ Len(t) <= MaxModels
  /\ \A i \in DOMAIN t : t[i].expiresAt <= clock + Lease
  /\ Kept(minerModels[a], t)

\* Replacing one miner's array by a good one.
LEMMA ArrayStep ==
  ASSUME IInv, NEW a \in Addrs, NEW t, GoodArray(a, t), clock' = clock,
         minerModels' = [minerModels EXCEPT ![a] = t]
  PROVE  /\ ModelsOK(minerModels') /\ LeaseBound'
         /\ minerModels'[a] = t
         /\ \A b \in Addrs \ {a} : minerModels'[b] = minerModels[b]
<1>1. ModelsOK(minerModels)
  BY TypeParts DEF IInv
<1>2. /\ minerModels' \in [Addrs -> Seq(Entry)]
      /\ minerModels'[a] = t
      /\ \A b \in Addrs \ {a} : minerModels'[b] = minerModels[b]
  BY <1>1 DEF ModelsOK, GoodArray
<1>3. \A b \in Addrs : Len(minerModels'[b]) <= MaxModels
  BY <1>1, <1>2 DEF ModelsOK, GoodArray
<1>4. LeaseBound'
  BY <1>2 DEF IInv, LeaseBound, GoodArray
<1> QED
  BY <1>2, <1>3, <1>4 DEF ModelsOK

\* An array keeps its own entries.
LEMMA KeptSame ==
  ASSUME NEW s \in Seq(Entry) PROVE Kept(s, s)
<1>1. \A i \in DOMAIN s : s[i].expiresAt \in Nat
  <2>1. \A i \in DOMAIN s : s[i] \in Entry
    OBVIOUS
  <2> QED
    BY <2>1 DEF Entry
<1> QED
  BY <1>1 DEF Kept

\* Writing an entry of the same model with a lease that is no shorter.
LEMMA WriteGood ==
  ASSUME IInv, NEW a \in Addrs,
         NEW i \in DOMAIN minerModels[a], NEW x \in Entry,
         x.model = minerModels[a][i].model,
         x.expiresAt >= minerModels[a][i].expiresAt,
         x.expiresAt <= clock + Lease
  PROVE  GoodArray(a, [minerModels[a] EXCEPT ![i] = x])
<1> DEFINE s == minerModels[a]
           t == [s EXCEPT ![i] = x]
<1>1. s \in Seq(Entry) /\ Len(s) <= MaxModels
  BY TypeParts DEF IInv, ModelsOK
<1>2. /\ t \in Seq(Entry) /\ Len(t) = Len(s) /\ DOMAIN t = DOMAIN s
      /\ t[i] = x /\ \A j \in DOMAIN s : j # i => t[j] = s[j]
  BY <1>1, Written
<1>3. \A j \in DOMAIN s : s[j].expiresAt \in Nat /\ s[j].expiresAt <= clock + Lease
  <2>1. \A j \in DOMAIN s : s[j] \in Entry
    BY <1>1
  <2> QED
    BY <2>1 DEF Entry, IInv, LeaseBound
<1>4. \A j \in DOMAIN t : t[j].expiresAt <= clock + Lease
  BY <1>2, <1>3
<1>5. Kept(s, t)
  BY <1>2, <1>3 DEF Kept
<1> HIDE DEF t
<1> QED
  BY <1>1, <1>2, <1>4, <1>5 DEF GoodArray

\* Appending an entry with a new lease.
LEMMA AppendGood ==
  ASSUME IInv, NEW a \in Addrs, NEW x \in Entry, HasRoom(a),
         x.expiresAt = clock + Lease
  PROVE  GoodArray(a, Append(minerModels[a], x))
<1> DEFINE s == minerModels[a]
           t == Append(s, x)
<1>1. s \in Seq(Entry) /\ Len(s) < MaxModels /\ MaxModels \in Nat
  BY TypeParts, RegistryAssumption DEF IInv, ModelsOK, HasRoom
<1>2. /\ t \in Seq(Entry) /\ Len(t) = Len(s) + 1 /\ DOMAIN t = 1..(Len(s) + 1)
      /\ DOMAIN s = 1..Len(s) /\ Len(s) \in Nat
      /\ t[Len(s) + 1] = x /\ \A j \in DOMAIN s : t[j] = s[j]
  BY <1>1
<1>3. \A j \in DOMAIN s : s[j].expiresAt \in Nat /\ s[j].expiresAt <= clock + Lease
  <2>1. \A j \in DOMAIN s : s[j] \in Entry
    BY <1>1
  <2> QED
    BY <2>1 DEF Entry, IInv, LeaseBound
<1>4. x.expiresAt <= clock + Lease /\ clock + Lease \in Nat
  BY RegistryAssumption, TypeParts DEF IInv
<1> HIDE DEF t
<1>5. \A j \in DOMAIN t : t[j].expiresAt <= clock + Lease
  BY <1>2, <1>3, <1>4
<1>6. Kept(s, t)
  BY <1>2, <1>3 DEF Kept
<1> QED
  BY <1>1, <1>2, <1>5, <1>6 DEF GoodArray, t

\* Removing an entry that is eligible for cleanup.
LEMMA RemoveGood ==
  ASSUME IInv, NEW a \in Addrs, NEW i \in Indices, Cleanable(a, i)
  PROVE  GoodArray(a, WithoutEntry(minerModels[a], i))
<1> DEFINE s == minerModels[a]
           t == WithoutEntry(s, i)
<1>1. s \in Seq(Entry) /\ Len(s) <= MaxModels /\ MaxModels \in Nat /\ i \in DOMAIN s
  BY TypeParts, RegistryAssumption DEF IInv, ModelsOK, Cleanable
<1> HIDE DEF s
<1>2. /\ t \in Seq(Entry) /\ Len(t) = Len(s) - 1
      /\ \A j \in DOMAIN s : j # i => \E k \in DOMAIN t : t[k] = s[j]
  BY <1>1, Removed, Zenon
<1>3. \A j \in DOMAIN s : s[j].expiresAt \in Nat /\ s[j].expiresAt <= clock + Lease
  <2>1. \A j \in DOMAIN s : s[j] \in Entry
    BY <1>1
  <2> QED
    BY <2>1 DEF Entry, IInv, LeaseBound, s
<1>4. \A k \in DOMAIN t : \E j \in DOMAIN s : t[k] = s[j]
  BY <1>1, Removed, Zenon
<1>5. \A k \in DOMAIN t : t[k].expiresAt <= clock + Lease
  BY <1>3, <1>4
<1>6. ~(s[i].expiresAt + Grace >= clock)
  BY <1>1, <1>3, RegistryAssumption, TypeParts DEF Cleanable, IInv, s
<1> HIDE DEF t
<1>7. Kept(s, t)
  BY <1>2, <1>3, <1>6 DEF Kept
<1>8. Len(t) <= MaxModels
  <2>1. Len(s) \in Nat
    BY <1>1
  <2> QED
    BY <1>1, <1>2, <2>1
<1> QED
  BY <1>2, <1>5, <1>7, <1>8 DEF GoodArray, t, s

-----------------------------------------------------------------------------
(***************************************************************************)
(* The owners                                                                *)
(***************************************************************************)

\* What an action leaves of the models and the owners.
ModelsGood ==
  /\ ModelsOK(minerModels') /\ LeaseBound'
  /\ OwnersOK(endpointOwner') /\ OwnerHasEntry'
  /\ \A b \in Addrs : Kept(minerModels[b], minerModels'[b])

HasEntry(t, e) == \E i \in DOMAIN t : t[i].endpoint = e

\* One miner's array becomes t, which still covers every endpoint that the
\* miner owns; the other miners own no more than before.
LEMMA OwnersStep ==
  ASSUME IInv, NEW a \in Addrs, NEW t, GoodArray(a, t), clock' = clock,
         minerModels' = [minerModels EXCEPT ![a] = t],
         OwnersOK(endpointOwner'),
         \A e \in Endpoints : endpointOwner'[e] = a => HasEntry(t, e),
         \A e \in Endpoints, b \in Addrs \ {a} :
           endpointOwner'[e] = b => endpointOwner[e] = b
  PROVE  ModelsGood
<1>1. /\ ModelsOK(minerModels') /\ LeaseBound'
      /\ minerModels'[a] = t
      /\ \A b \in Addrs \ {a} : minerModels'[b] = minerModels[b]
  BY ArrayStep
<1>2. ASSUME NEW b \in Addrs PROVE Kept(minerModels[b], minerModels'[b])
  <2>1. CASE b = a
    BY <1>1, <2>1 DEF GoodArray
  <2>2. CASE b # a
    <3>1. minerModels[b] \in Seq(Entry) /\ minerModels'[b] = minerModels[b]
      BY <1>1, <2>2, TypeParts DEF IInv, ModelsOK
    <3> QED
      BY <3>1, KeptSame
  <2> QED
    BY <2>1, <2>2
<1>3. OwnerHasEntry'
  <2> SUFFICES ASSUME NEW e \in Endpoints, NEW b \in Addrs, endpointOwner'[e] = b
               PROVE  HasEntry(minerModels'[b], e)
    BY DEF OwnerHasEntry, HasEntry
  <2>1. CASE b = a
    BY <1>1, <2>1
  <2>2. CASE b # a
    BY <1>1, <2>2 DEF IInv, OwnerHasEntry, HasEntry
  <2> QED
    BY <2>1, <2>2
<1> QED
  BY <1>1, <1>2, <1>3 DEF ModelsGood

\* Releasing an endpoint changes at most its own owner.
LEMMA ReleasedOwners ==
  ASSUME OwnersOK(endpointOwner), NEW a \in Addrs, NEW e \in Endpoints
  PROVE  /\ OwnersOK(Released(a, e))
         /\ Released(a, e)[e] # a
         /\ \A f \in Endpoints : Released(a, e)[f] # None =>
              Released(a, e)[f] = endpointOwner[f]
BY RegistryAssumption DEF OwnersOK, Released

\* An entry's fields have their types.
LEMMA EntryAt ==
  ASSUME IInv, NEW a \in Addrs, NEW i \in DOMAIN minerModels[a]
  PROVE  /\ minerModels[a] \in Seq(Entry) /\ minerModels[a][i] \in Entry
         /\ minerModels[a][i].endpoint \in Endpoints
         /\ minerModels[a][i].model \in Models
         /\ minerModels[a][i].expiresAt \in Nat
         /\ minerModels[a][i].expiresAt <= clock + Lease
         /\ i \in Indices /\ clock \in Nat
<1>1. minerModels[a] \in Seq(Entry) /\ Len(minerModels[a]) <= MaxModels
  BY TypeParts DEF IInv, ModelsOK
<1>2. minerModels[a][i] \in Entry
  BY <1>1
<1>3. /\ minerModels[a][i].endpoint \in Endpoints
      /\ minerModels[a][i].model \in Models
      /\ minerModels[a][i].expiresAt \in Nat
  BY <1>2, Zenon DEF Entry
<1>4. i \in Indices
  BY <1>1, RegistryAssumption DEF Indices
<1> QED
  BY <1>1, <1>2, <1>3, <1>4, TypeParts DEF IInv, LeaseBound

\* Writing an entry on the same endpoint covers the same endpoints.
LEMMA Covers ==
  ASSUME IInv, NEW a \in Addrs, NEW i \in DOMAIN minerModels[a], NEW x \in Entry,
         x.endpoint = minerModels[a][i].endpoint
  PROVE  \A e \in Endpoints : endpointOwner[e] = a =>
           HasEntry([minerModels[a] EXCEPT ![i] = x], e)
<1> DEFINE s == minerModels[a]
           t == [s EXCEPT ![i] = x]
<1>1. s \in Seq(Entry)
  BY EntryAt
<1>2. /\ DOMAIN t = DOMAIN s /\ t[i] = x
      /\ \A j \in DOMAIN s : j # i => t[j] = s[j]
  BY <1>1, Written
<1>3. \A j \in DOMAIN s : t[j].endpoint = s[j].endpoint
  BY <1>2
<1> HIDE DEF t
<1>4. \A e \in Endpoints : endpointOwner[e] = a => HasEntry(t, e)
  BY <1>2, <1>3 DEF IInv, OwnerHasEntry, HasEntry
<1> QED
  BY <1>4 DEF t

\* renewModel
LEMMA RenewModels ==
  ASSUME IInv, NEW a \in Addrs, NEW i \in Indices, RenewModel(a, i)
  PROVE  ModelsGood
<1> DEFINE x == Renewed(minerModels[a][i])
           t == [minerModels[a] EXCEPT ![i] = x]
<1>1. i \in DOMAIN minerModels[a]
  BY DEF RenewModel, Renewable
<1>2. /\ clock \in Nat /\ Lease \in Nat /\ minerModels[a][i] \in Entry
      /\ minerModels[a][i].expiresAt \in Nat
      /\ minerModels[a][i].expiresAt <= clock + Lease
  BY <1>1, EntryAt, RegistryAssumption
<1>3. /\ x \in Entry /\ x.endpoint = minerModels[a][i].endpoint
      /\ x.model = minerModels[a][i].model /\ x.expiresAt = clock + Lease
  BY <1>2, EntryOps, Zenon
<1>4. minerModels' = [minerModels EXCEPT ![a] = t]
  BY DEF RenewModel
<1> HIDE DEF x
<1>5. x.expiresAt >= minerModels[a][i].expiresAt /\ x.expiresAt <= clock + Lease
  BY <1>2, <1>3
<1>6. GoodArray(a, t)
  BY <1>1, <1>3, <1>5, WriteGood
<1>7. \A e \in Endpoints : endpointOwner[e] = a => HasEntry(t, e)
  BY <1>1, <1>3, Covers
<1>8. clock' = clock /\ endpointOwner' = endpointOwner /\ OwnersOK(endpointOwner)
  BY TypeParts DEF RenewModel, IInv
<1> HIDE DEF t
<1> QED
  BY <1>4, <1>6, <1>7, <1>8, OwnersStep

\* deactivateModel
LEMMA DeactivateModels ==
  ASSUME IInv, NEW a \in Addrs, NEW i \in Indices, DeactivateModel(a, i)
  PROVE  ModelsGood
<1> DEFINE x == Deactivated(minerModels[a][i])
           t == [minerModels[a] EXCEPT ![i] = x]
           e0 == minerModels[a][i].endpoint
<1>1. i \in DOMAIN minerModels[a]
  BY DEF DeactivateModel
<1>2. /\ clock \in Nat /\ Lease \in Nat /\ minerModels[a][i] \in Entry
      /\ minerModels[a][i].expiresAt \in Nat /\ e0 \in Endpoints
      /\ minerModels[a][i].expiresAt <= clock + Lease
  BY <1>1, EntryAt, RegistryAssumption
<1>3. /\ x \in Entry /\ x.endpoint = e0
      /\ x.model = minerModels[a][i].model
      /\ x.expiresAt = minerModels[a][i].expiresAt
  BY <1>2, EntryOps, Zenon
<1>4. minerModels' = [minerModels EXCEPT ![a] = t]
  BY DEF DeactivateModel
<1> HIDE DEF x
<1>5. x.expiresAt >= minerModels[a][i].expiresAt /\ x.expiresAt <= clock + Lease
  BY <1>2, <1>3
<1>6. GoodArray(a, t)
  BY <1>1, <1>3, <1>5, WriteGood
<1>7. \A e \in Endpoints : endpointOwner[e] = a => HasEntry(t, e)
  BY <1>1, <1>3, Covers
<1>8. clock' = clock /\ endpointOwner' = Released(a, e0) /\ OwnersOK(endpointOwner)
  BY TypeParts DEF DeactivateModel, IInv
<1>9. /\ OwnersOK(endpointOwner')
      /\ \A f \in Endpoints : endpointOwner'[f] # None =>
            endpointOwner'[f] = endpointOwner[f]
  BY <1>2, <1>8, ReleasedOwners
<1> HIDE DEF t, e0
<1>10. \A f \in Endpoints, b \in Addrs : endpointOwner'[f] = b => endpointOwner[f] = b
  BY <1>9, RegistryAssumption
<1>11. \A f \in Endpoints : endpointOwner'[f] = a => HasEntry(t, f)
  BY <1>7, <1>10
<1>12. \A f \in Endpoints, b \in Addrs \ {a} :
          endpointOwner'[f] = b => endpointOwner[f] = b
  BY <1>10
<1>13. clock' = clock /\ OwnersOK(endpointOwner')
  BY <1>8, <1>9
<1> QED
  BY <1>4, <1>6, <1>11, <1>12, <1>13, OwnersStep

\* updateEndpoint
LEMMA UpdateModels ==
  ASSUME IInv, NEW a \in Addrs, NEW i \in Indices, NEW e \in Endpoints,
         UpdateEndpoint(a, i, e)
  PROVE  ModelsGood
<1> DEFINE s == minerModels[a]
           x == Moved(s[i], e)
           t == [s EXCEPT ![i] = x]
           rel == Released(a, s[i].endpoint)
<1>1. i \in DOMAIN s
  BY DEF UpdateEndpoint
<1>2. /\ s \in Seq(Entry) /\ s[i] \in Entry /\ s[i].endpoint \in Endpoints
      /\ s[i].expiresAt \in Nat /\ s[i].expiresAt <= clock + Lease
  BY <1>1, EntryAt
<1>3. /\ x \in Entry /\ x.endpoint = e /\ x.model = s[i].model
      /\ x.expiresAt = s[i].expiresAt
  BY <1>2, MovedEntry, Zenon
<1>4. minerModels' = [minerModels EXCEPT ![a] = t]
  BY DEF UpdateEndpoint
<1> HIDE DEF x
<1>5. x.expiresAt >= s[i].expiresAt /\ x.expiresAt <= clock + Lease
  BY <1>2, <1>3
<1>6. GoodArray(a, t)
  BY <1>1, <1>3, <1>5, WriteGood
<1>7. /\ DOMAIN t = DOMAIN s /\ t[i] = x
      /\ \A j \in DOMAIN s : j # i => t[j] = s[j]
  BY <1>1, <1>2, <1>3, Written
<1>8. /\ clock' = clock /\ endpointOwner' = [rel EXCEPT ![e] = a]
      /\ OwnersOK(endpointOwner)
  BY TypeParts DEF UpdateEndpoint, IInv
<1>9. /\ OwnersOK(rel) /\ rel[s[i].endpoint] # a
      /\ \A f \in Endpoints : rel[f] # None => rel[f] = endpointOwner[f]
  BY <1>2, <1>8, ReleasedOwners
<1> HIDE DEF t, rel
<1>10. OwnersOK(endpointOwner')
  BY <1>8, <1>9 DEF OwnersOK
<1>11. \A f \in Endpoints \ {e} : endpointOwner'[f] = rel[f]
  BY <1>8, <1>9 DEF OwnersOK
<1>12. endpointOwner'[e] = a
  BY <1>8, <1>9 DEF OwnersOK
<1>13. ASSUME NEW f \in Endpoints, endpointOwner'[f] = a PROVE HasEntry(t, f)
  <2>1. CASE f = e
    BY <1>1, <1>3, <1>7, <2>1 DEF HasEntry
  <2>2. CASE f # e
    <3>1. rel[f] = a /\ f # s[i].endpoint /\ endpointOwner[f] = a
      BY <1>9, <1>11, <1>13, <2>2, RegistryAssumption
    <3>2. PICK j \in DOMAIN s : s[j].endpoint = f
      BY <3>1 DEF IInv, OwnerHasEntry
    <3>3. j # i /\ t[j] = s[j]
      BY <1>7, <3>1, <3>2
    <3> QED
      BY <1>7, <3>2, <3>3 DEF HasEntry
  <2> QED
    BY <2>1, <2>2
<1>14. \A f \in Endpoints, b \in Addrs \ {a} :
         endpointOwner'[f] = b => endpointOwner[f] = b
  BY <1>9, <1>11, <1>12, RegistryAssumption
<1> QED
  BY <1>4, <1>6, <1>8, <1>10, <1>13, <1>14, OwnersStep

\* cleanup
LEMMA CleanupModels ==
  ASSUME IInv, NEW a \in Addrs, NEW i \in Indices, Cleanup(a, i)
  PROVE  ModelsGood
<1> DEFINE s == minerModels[a]
           t == WithoutEntry(s, i)
           rel == Released(a, s[i].endpoint)
<1>1. i \in DOMAIN s /\ Cleanable(a, i)
  BY DEF Cleanup, Cleanable
<1>2. s \in Seq(Entry) /\ s[i].endpoint \in Endpoints
  BY <1>1, EntryAt
<1>3. minerModels' = [minerModels EXCEPT ![a] = t]
  BY DEF Cleanup
<1>4. GoodArray(a, t)
  BY <1>1, RemoveGood
<1>5. \A j \in DOMAIN s : j # i => \E k \in DOMAIN t : t[k] = s[j]
  BY <1>1, <1>2, Removed, Zenon
<1>6. clock' = clock /\ endpointOwner' = rel /\ OwnersOK(endpointOwner)
  BY TypeParts DEF Cleanup, IInv
<1>7. /\ OwnersOK(rel) /\ rel[s[i].endpoint] # a
      /\ \A f \in Endpoints : rel[f] # None => rel[f] = endpointOwner[f]
  BY <1>2, <1>6, ReleasedOwners
<1> HIDE DEF t, rel
<1>8. ASSUME NEW f \in Endpoints, endpointOwner'[f] = a PROVE HasEntry(t, f)
  <2>1. f # s[i].endpoint /\ endpointOwner[f] = a
    BY <1>6, <1>7, <1>8, RegistryAssumption
  <2>2. PICK j \in DOMAIN s : s[j].endpoint = f
    BY <2>1 DEF IInv, OwnerHasEntry
  <2>3. j # i
    BY <2>1, <2>2
  <2>4. PICK k \in DOMAIN t : t[k] = s[j]
    BY <1>5, <2>3
  <2> QED
    BY <2>2, <2>4 DEF HasEntry
<1>9. \A f \in Endpoints, b \in Addrs \ {a} :
         endpointOwner'[f] = b => endpointOwner[f] = b
  BY <1>6, <1>7, RegistryAssumption
<1> QED
  BY <1>3, <1>4, <1>6, <1>7, <1>8, <1>9, OwnersStep

\* reportOffline
LEMMA ReportModels ==
  ASSUME IInv, NEW v \in Addrs, NEW a \in Addrs, NEW i \in Indices,
         ReportOffline(v, a, i)
  PROVE  ModelsGood
<1> DEFINE s == minerModels[a]
           x == Deactivated(s[i])
           t == [s EXCEPT ![i] = x]
<1>1. i \in DOMAIN s
  BY DEF ReportOffline, MayReport
<1>2. /\ clock \in Nat /\ Lease \in Nat /\ s[i] \in Entry
      /\ s[i].expiresAt \in Nat /\ s[i].expiresAt <= clock + Lease
      /\ s \in Seq(Entry)
  BY <1>1, EntryAt, RegistryAssumption
<1>3. /\ x \in Entry /\ x.endpoint = s[i].endpoint
      /\ x.model = s[i].model /\ x.expiresAt = s[i].expiresAt
  BY <1>2, EntryOps, Zenon
<1>4. /\ clock' = clock /\ endpointOwner' = endpointOwner
      /\ OwnersOK(endpointOwner) /\ ModelsOK(minerModels)
  BY TypeParts DEF ReportOffline, IInv
<1>5. CASE minerModels' = minerModels
  <2>1. \A b \in Addrs : Kept(minerModels[b], minerModels'[b])
    BY <1>4, <1>5, KeptSame DEF ModelsOK
  <2> QED
    BY <1>4, <1>5, <2>1 DEF ModelsGood, IInv, LeaseBound, OwnerHasEntry
<1>6. CASE minerModels' = [minerModels EXCEPT ![a] = t]
  <2> HIDE DEF x
  <2>1. x.expiresAt >= s[i].expiresAt /\ x.expiresAt <= clock + Lease
    BY <1>2, <1>3
  <2>2. GoodArray(a, t)
    BY <1>1, <1>3, <2>1, WriteGood
  <2>3. \A e \in Endpoints : endpointOwner[e] = a => HasEntry(t, e)
    BY <1>1, <1>3, Covers
  <2> HIDE DEF t
  <2> QED
    BY <1>4, <1>6, <2>2, <2>3, OwnersStep
<1>7. minerModels' = minerModels \/ minerModels' = [minerModels EXCEPT ![a] = t]
  BY DEF ReportOffline
<1> QED
  BY <1>5, <1>6, <1>7

\* registerModel
LEMMA RegisterModels ==
  ASSUME IInv, NEW a \in Addrs, NEW model \in Models, NEW e \in Endpoints,
         NEW c \in Contexts, RegisterModel(a, model, e, c)
  PROVE  ModelsGood
<1> DEFINE s == minerModels[a]
           x == NewEntry(model, e, c)
           found == Reactivatable(a, model, e)
<1>1. /\ clock \in Nat /\ Lease \in Nat /\ s \in Seq(Entry)
      /\ OwnersOK(endpointOwner)
  BY TypeParts, RegistryAssumption DEF IInv, ModelsOK
<1>2. /\ x \in Entry /\ x.endpoint = e /\ x.model = model
      /\ x.expiresAt = clock + Lease
  BY <1>1, FreshEntry, Zenon
<1>3. /\ clock' = clock /\ endpointOwner' = [endpointOwner EXCEPT ![e] = a]
      /\ OwnersOK(endpointOwner')
      /\ \A f \in Endpoints : f # e => endpointOwner'[f] = endpointOwner[f]
      /\ endpointOwner'[e] = a
  BY <1>1 DEF RegisterModel, OwnersOK
<1>4. \A f \in Endpoints, b \in Addrs \ {a} :
         endpointOwner'[f] = b => endpointOwner[f] = b
  BY <1>3
<1> HIDE DEF x
<1>5. CASE found = {}
  <2> DEFINE t == Append(s, x)
  <2>1. HasRoom(a) /\ minerModels' = [minerModels EXCEPT ![a] = t]
    BY <1>5 DEF RegisterModel, x
  <2>2. GoodArray(a, t)
    BY <1>2, <2>1, AppendGood
  <2>3. /\ Len(s) + 1 \in DOMAIN t /\ t[Len(s) + 1] = x
        /\ \A j \in DOMAIN s : j \in DOMAIN t /\ t[j] = s[j]
    BY <1>1, <1>2
  <2> HIDE DEF t
  <2>4. ASSUME NEW f \in Endpoints, endpointOwner'[f] = a PROVE HasEntry(t, f)
    <3>1. CASE f = e
      BY <1>2, <2>3, <3>1 DEF HasEntry
    <3>2. CASE f # e
      <4>1. PICK j \in DOMAIN s : s[j].endpoint = f
        BY <1>3, <2>4, <3>2 DEF IInv, OwnerHasEntry
      <4> QED
        BY <2>3, <4>1 DEF HasEntry
    <3> QED
      BY <3>1, <3>2
  <2> QED
    BY <1>3, <1>4, <2>1, <2>2, <2>4, OwnersStep
<1>6. CASE found # {}
  <2>1. PICK i \in found : minerModels' = [minerModels EXCEPT ![a][i] = x]
    BY <1>6 DEF RegisterModel, x
  <2> DEFINE t == [s EXCEPT ![i] = x]
  <2>2. /\ minerModels' = [minerModels EXCEPT ![a] = t]
        /\ i \in DOMAIN s /\ s[i].model = model /\ s[i].endpoint = e
    BY <2>1 DEF Reactivatable, Same
  <2>3. s[i].expiresAt \in Nat /\ s[i].expiresAt <= clock + Lease
    BY <2>2, EntryAt
  <2>4. x.expiresAt >= s[i].expiresAt /\ x.expiresAt <= clock + Lease
    BY <1>1, <1>2, <2>3
  <2>5. GoodArray(a, t)
    BY <1>2, <2>2, <2>4, WriteGood
  <2>6. \A f \in Endpoints : endpointOwner[f] = a => HasEntry(t, f)
    BY <1>2, <2>2, Covers
  <2>7. i \in DOMAIN t /\ t[i] = x
    BY <1>1, <1>2, <2>2, Written
  <2> HIDE DEF t
  <2>8. ASSUME NEW f \in Endpoints, endpointOwner'[f] = a PROVE HasEntry(t, f)
    <3>1. CASE f = e
      BY <1>2, <2>7, <3>1 DEF HasEntry
    <3>2. CASE f # e
      BY <1>3, <2>6, <2>8, <3>2
    <3> QED
      BY <3>1, <3>2
  <2> QED
    BY <1>3, <1>4, <2>2, <2>5, <2>8, OwnersStep
<1> QED
  BY <1>5, <1>6

-----------------------------------------------------------------------------
(***************************************************************************)
(* The reports                                                               *)
(***************************************************************************)

\* What an action leaves of the reports.
CountsGood ==
  CountsOK(failureCount', reported') /\ ReportsCounted' /\ FiniteReports'

\* A count is set to zero, or nothing happens to the reports.
LEMMA CountsReset ==
  ASSUME IInv, NEW a \in Addrs, NEW i \in Indices, reported' = reported,
         \/ failureCount' = failureCount
         \/ failureCount' = [failureCount EXCEPT ![a][i] = 0]
  PROVE  CountsGood
<1>1. CountsOK(failureCount, reported)
  BY TypeParts DEF IInv
<1>2. /\ CountsOK(failureCount', reported')
      /\ \A b \in Addrs, j \in Indices :
           failureCount'[b][j] \in {0, failureCount[b][j]}
  <2>1. CASE failureCount' = failureCount
    BY <1>1, <2>1 DEF CountsOK
  <2>2. CASE failureCount' = [failureCount EXCEPT ![a][i] = 0]
    <3>1. [failureCount[a] EXCEPT ![i] = 0] \in [Indices -> Nat]
      BY <1>1 DEF CountsOK
    <3>2. failureCount' = [failureCount EXCEPT
                             ![a] = [failureCount[a] EXCEPT ![i] = 0]]
      BY <2>2, <1>1 DEF CountsOK
    <3>3. failureCount' \in [Addrs -> [Indices -> Nat]]
      BY <1>1, <3>1, <3>2 DEF CountsOK
    <3> QED
      BY <1>1, <3>2, <3>3 DEF CountsOK
  <2> QED
    BY <2>1, <2>2
<1>4. \A b \in Addrs, j \in Indices :
        /\ IsFiniteSet(reported[b][j]) /\ Cardinality(reported[b][j]) \in Nat
        /\ failureCount[b][j] <= Cardinality(reported[b][j])
  BY FS_CardinalityType DEF IInv, FiniteReports, ReportsCounted
<1>5. \A b \in Addrs, j \in Indices :
        failureCount'[b][j] <= Cardinality(reported[b][j])
  BY <1>2, <1>4
<1> QED
  BY <1>2, <1>4, <1>5 DEF CountsGood, ReportsCounted, FiniteReports

\* reportOffline counts a reporter that was not counted before.
LEMMA CountsReport ==
  ASSUME IInv, NEW v \in Addrs, NEW a \in Addrs, NEW i \in Indices,
         ReportOffline(v, a, i)
  PROVE  CountsGood
<1>1. CountsOK(failureCount, reported) /\ v \notin reported[a][i]
  BY TypeParts DEF IInv, ReportOffline, MayReport
<1>2. /\ reported' = [reported EXCEPT ![a][i] = @ \union {v}]
      /\ failureCount' = [failureCount EXCEPT ![a][i] = @ + 1]
  BY DEF ReportOffline
<1>3. CountsOK(failureCount', reported')
  BY <1>1, <1>2 DEF CountsOK
<1>4. ASSUME NEW b \in Addrs, NEW j \in Indices
      PROVE  /\ IsFiniteSet(reported'[b][j])
             /\ failureCount'[b][j] <= Cardinality(reported'[b][j])
  <2>1. /\ IsFiniteSet(reported[b][j]) /\ Cardinality(reported[b][j]) \in Nat
        /\ failureCount[b][j] <= Cardinality(reported[b][j])
        /\ failureCount[b][j] \in Nat
    BY <1>1, FS_CardinalityType DEF IInv, FiniteReports, ReportsCounted, CountsOK
  <2>2. CASE b = a /\ j = i
    <3>1. /\ reported'[b][j] = reported[b][j] \union {v}
          /\ failureCount'[b][j] = failureCount[b][j] + 1
      BY <1>1, <1>2, <2>2 DEF CountsOK
    <3>2. /\ IsFiniteSet(reported[b][j] \union {v})
          /\ Cardinality(reported[b][j] \union {v}) = Cardinality(reported[b][j]) + 1
      BY <1>1, <2>1, <2>2, FS_AddElement
    <3> QED
      BY <2>1, <3>1, <3>2
  <2>3. CASE ~(b = a /\ j = i)
    <3>1. /\ reported'[b][j] = reported[b][j]
          /\ failureCount'[b][j] = failureCount[b][j]
      BY <1>1, <1>2, <2>3 DEF CountsOK
    <3> QED
      BY <2>1, <3>1
  <2> QED
    BY <2>2, <2>3
<1> QED
  BY <1>3, <1>4 DEF CountsGood, ReportsCounted, FiniteReports

-----------------------------------------------------------------------------
(***************************************************************************)
(* The step, and the theorems                                                *)
(***************************************************************************)
BindingGood ==
  BindingOK(evmToUid', evmRegistered', uidToEvm') /\ BindingIsInverse'

\* A step that leaves the binding alone.
LEMMA BindingSame ==
  ASSUME IInv, UNCHANGED bindingVars PROVE BindingGood
BY TypeParts DEF IInv, bindingVars, BindingGood, BindingIsInverse

\* A step that leaves the reports alone.
LEMMA CountsSame ==
  ASSUME IInv, UNCHANGED reportVars PROVE CountsGood
BY TypeParts DEF IInv, reportVars, CountsGood, ReportsCounted, FiniteReports

\* A step that leaves the entries and owners alone, while time may pass.
LEMMA ModelsSame ==
  ASSUME IInv, UNCHANGED modelVars, clock' \in Nat, clock' >= clock
  PROVE  ModelsGood
<1>1. ModelsOK(minerModels) /\ OwnersOK(endpointOwner) /\ clock \in Nat
  BY TypeParts DEF IInv
<1>2. \A b \in Addrs : Kept(minerModels[b], minerModels'[b])
  BY <1>1, KeptSame DEF ModelsOK, modelVars
<1>3. LeaseBound'
  <2> SUFFICES ASSUME NEW b \in Addrs, NEW i \in DOMAIN minerModels[b]
               PROVE  minerModels[b][i].expiresAt <= clock' + Lease
    BY DEF LeaseBound, modelVars
  <2>1. /\ minerModels[b][i].expiresAt \in Nat
        /\ minerModels[b][i].expiresAt <= clock + Lease
    BY EntryAt
  <2> QED
    BY <1>1, <2>1, RegistryAssumption
<1> QED
  BY <1>1, <1>2, <1>3 DEF ModelsGood, modelVars, IInv, OwnerHasEntry

\* A transaction, by anyone.
AnyCall ==
  \/ \E a \in Addrs, u \in Uids : RegisterEvm(a, u)
  \/ \E u \in Uids : ResetEvmRegistration(u)
  \/ \E a \in Addrs, model \in Models, e \in Endpoints, c \in Contexts :
       RegisterModel(a, model, e, c)
  \/ \E a \in Addrs, i \in Indices : RenewModel(a, i)
  \/ \E a \in Addrs, i \in Indices : DeactivateModel(a, i)
  \/ \E a \in Addrs, i \in Indices, e \in Endpoints : UpdateEndpoint(a, i, e)
  \/ \E v, a \in Addrs, i \in Indices : ReportOffline(v, a, i)
  \/ \E a \in Addrs, i \in Indices : Cleanup(a, i)

\* Every transaction keeps the invariant and every entry's time.
LEMMA CallGood ==
  ASSUME IInv, AnyCall
  PROVE  ModelsGood /\ CountsGood /\ BindingGood /\ clock' = clock
<1>1. /\ clock \in Nat
      /\ BindingOK(evmToUid, evmRegistered, uidToEvm) /\ BindingIsInverse
  BY TypeParts DEF IInv
<1>2. ASSUME NEW a \in Addrs, NEW u \in Uids, RegisterEvm(a, u)
      PROVE  ModelsGood /\ CountsGood /\ BindingGood /\ clock' = clock
  <2>1. /\ clock' = clock /\ UNCHANGED modelVars /\ UNCHANGED reportVars
    BY <1>1, <1>2 DEF RegisterEvm
  <2>2. BindingGood
    BY <1>1, <1>2, RegisterEvmBinding DEF BindingGood
  <2>3. clock' \in Nat /\ clock' >= clock
    BY <1>1, <2>1
  <2> QED
    BY <2>1, <2>2, <2>3, ModelsSame, CountsSame
<1>3. ASSUME NEW u \in Uids, ResetEvmRegistration(u)
      PROVE  ModelsGood /\ CountsGood /\ BindingGood /\ clock' = clock
  <2>1. /\ clock' = clock /\ UNCHANGED modelVars /\ UNCHANGED reportVars
    BY <1>1, <1>3 DEF ResetEvmRegistration
  <2>2. BindingGood
    BY <1>1, <1>3, ResetBinding DEF BindingGood
  <2>3. clock' \in Nat /\ clock' >= clock
    BY <1>1, <2>1
  <2> QED
    BY <2>1, <2>2, <2>3, ModelsSame, CountsSame
<1>4. ASSUME NEW a \in Addrs, NEW model \in Models, NEW e \in Endpoints,
             NEW c \in Contexts, RegisterModel(a, model, e, c)
      PROVE  ModelsGood /\ CountsGood /\ BindingGood /\ clock' = clock
  <2>1. /\ clock' = clock /\ UNCHANGED bindingVars /\ reported' = reported
    BY <1>1, <1>4 DEF RegisterModel
  <2>2. \E i \in Indices :
           \/ failureCount' = failureCount
           \/ failureCount' = [failureCount EXCEPT ![a][i] = 0]
    <3>1. CASE Reactivatable(a, model, e) = {}
      <4>1. failureCount' = failureCount
        BY <1>4, <3>1 DEF RegisterModel
      <4>2. 1 \in Indices
        BY RegistryAssumption DEF Indices
      <4> QED
        BY <4>1, <4>2
    <3>2. CASE Reactivatable(a, model, e) # {}
      <4>1. PICK i \in Reactivatable(a, model, e) :
              failureCount' = [failureCount EXCEPT ![a][i] = 0]
        BY <1>4, <3>2 DEF RegisterModel
      <4>2. i \in Indices
        <5>1. i \in DOMAIN minerModels[a]
          BY DEF Reactivatable
        <5> QED
          BY <5>1, EntryAt
      <4> QED
        BY <4>1, <4>2
    <3> QED
      BY <3>1, <3>2
  <2> QED
    BY <1>1, <1>4, <2>1, <2>2, RegisterModels, CountsReset, BindingSame
<1>5. ASSUME NEW a \in Addrs, NEW i \in Indices, RenewModel(a, i)
      PROVE  ModelsGood /\ CountsGood /\ BindingGood /\ clock' = clock
  <2>1. /\ clock' = clock /\ UNCHANGED bindingVars /\ reported' = reported
        /\ failureCount' = [failureCount EXCEPT ![a][i] = 0]
    BY <1>1, <1>5 DEF RenewModel
  <2> QED
    BY <1>1, <1>5, <2>1, RenewModels, CountsReset, BindingSame
<1>6. ASSUME NEW a \in Addrs, NEW i \in Indices, DeactivateModel(a, i)
      PROVE  ModelsGood /\ CountsGood /\ BindingGood /\ clock' = clock
  <2>1. /\ clock' = clock /\ UNCHANGED bindingVars /\ UNCHANGED reportVars
    BY <1>1, <1>6 DEF DeactivateModel
  <2> QED
    BY <1>1, <1>6, <2>1, DeactivateModels, CountsSame, BindingSame
<1>7. ASSUME NEW a \in Addrs, NEW i \in Indices, NEW e \in Endpoints,
             UpdateEndpoint(a, i, e)
      PROVE  ModelsGood /\ CountsGood /\ BindingGood /\ clock' = clock
  <2>1. /\ clock' = clock /\ UNCHANGED bindingVars /\ UNCHANGED reportVars
    BY <1>1, <1>7 DEF UpdateEndpoint
  <2> QED
    BY <1>1, <1>7, <2>1, UpdateModels, CountsSame, BindingSame
<1>8. ASSUME NEW v \in Addrs, NEW a \in Addrs, NEW i \in Indices,
             ReportOffline(v, a, i)
      PROVE  ModelsGood /\ CountsGood /\ BindingGood /\ clock' = clock
  <2>1. clock' = clock /\ UNCHANGED bindingVars
    BY <1>1, <1>8 DEF ReportOffline
  <2> QED
    BY <1>1, <1>8, <2>1, ReportModels, CountsReport, BindingSame
<1>9. ASSUME NEW a \in Addrs, NEW i \in Indices, Cleanup(a, i)
      PROVE  ModelsGood /\ CountsGood /\ BindingGood /\ clock' = clock
  <2>1. /\ clock' = clock /\ UNCHANGED bindingVars /\ UNCHANGED reportVars
    BY <1>1, <1>9 DEF Cleanup
  <2> QED
    BY <1>1, <1>9, <2>1, CleanupModels, CountsSame, BindingSame
<1> QED
  BY <1>2, <1>3, <1>4, <1>5, <1>6, <1>7, <1>8, <1>9 DEF AnyCall

\* So does time.
LEMMA TickGood ==
  ASSUME IInv, Tick
  PROVE  ModelsGood /\ CountsGood /\ BindingGood /\ clock' \in Nat
<1>1. /\ clock' = clock + 1 /\ clock \in Nat
      /\ UNCHANGED modelVars /\ UNCHANGED reportVars /\ UNCHANGED bindingVars
  BY TypeParts DEF Tick, IInv
<1>2. clock' \in Nat /\ clock' >= clock
  BY <1>1
<1> QED
  BY <1>1, <1>2, ModelsSame, CountsSame, BindingSame

\* Every step of the contract is a transaction or time.
LEMMA NextGood ==
  ASSUME IInv, Next
  PROVE  /\ ModelsGood /\ CountsGood /\ BindingGood
         /\ clock' \in Nat /\ calls' \in Nat
<1>1. clock \in Nat /\ calls \in Nat
  BY TypeParts DEF IInv
<1>2. CASE Tick /\ UNCHANGED calls
  BY <1>1, <1>2, TickGood
<1>3. CASE Call /\ AnyCall
  BY <1>1, <1>3, CallGood DEF Call
<1> QED
  BY <1>2, <1>3, Zenon DEF Next, AnyCall

\* What the three parts of a step amount to.
LEMMA GoodStep ==
  ASSUME IInv, ModelsGood, CountsGood, BindingGood, clock' \in Nat, calls' \in Nat
  PROVE  IInv'
<1>1. TypeOK'
  BY TypeParts, Zenon
    DEF ModelsGood, CountsGood, BindingGood, TypeOK, ModelsOK, OwnersOK,
        CountsOK, BindingOK
<1> QED
  BY <1>1 DEF IInv, ModelsGood, CountsGood, BindingGood

\* The invariant is inductive.
LEMMA NextIInv ==
  ASSUME IInv, [Next]_vars PROVE IInv'
<1>1. CASE Next
  BY <1>1, NextGood, GoodStep
<1>2. CASE UNCHANGED vars
  BY <1>2 DEF vars, registryVars, modelVars, reportVars, bindingVars, IInv,
    TypeOK, BindingIsInverse, OwnerHasEntry, ReportsCounted, FiniteReports,
    LeaseBound
<1> QED
  BY <1>1, <1>2

\* The invariant holds of every behaviour of the contract.
LEMMA Inductive == Spec => []IInv
<1>1. IInv /\ [Next]_vars => IInv'
  BY NextIInv
<1> QED
  BY InitIInv, <1>1, PTL DEF Spec

\* The contract's storage keeps its types and the arrays their limit, whatever
\* is called and by whom.
THEOREM RegistryTypes == Spec => []TypeOK
<1>1. IInv => TypeOK
  BY DEF IInv
<1> QED
  BY Inductive, <1>1, PTL

\* registerEvm and resetEvmRegistration keep the two directions of the binding
\* inverse to each other, for any number of addresses and UIDs.
THEOREM Binding == Spec => []BindingIsInverse
<1>1. IInv => BindingIsInverse
  BY DEF IInv
<1> QED
  BY Inductive, <1>1, PTL

\* The owner of an endpoint always has an entry on it, through which the
\* endpoint can be released.
THEOREM Ownership == Spec => []OwnerHasEntry
<1>1. IInv => OwnerHasEntry
  BY DEF IInv
<1> QED
  BY Inductive, <1>1, PTL

\* No count of failures exceeds the number of different reporters.
THEOREM Reports == Spec => []ReportsCounted
<1>1. IInv => ReportsCounted
  BY DEF IInv
<1> QED
  BY Inductive, <1>1, PTL

\* No call drops an entry before it is eligible for cleanup or shortens its
\* lease.
THEOREM Leases == Spec => LeaseKept
<1>1. IInv /\ [Next]_vars =>
        [\A a \in Addrs : Kept(minerModels[a], minerModels'[a])]_vars
  BY NextGood DEF ModelsGood
<1> QED
  BY Inductive, <1>1, PTL DEF Spec, LeaseKept
=============================================================================
