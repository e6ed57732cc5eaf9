-------------------------- MODULE MinerLeaseProofs --------------------------
(***************************************************************************)
(* Proofs about the miner neuron's lease (module MinerLease), on top of the   *)
(* invariant of the contract (module MinerRegistryProofs).                    *)
(*                                                                           *)
(* Types, UniqueEntry and IndexIsOwn hold whatever the process is started     *)
(* with and whatever receipts are lost.  The other properties follow from     *)
(* Known: what the process has read, returned and remembered, against the     *)
(* miner's array M as it is by now.  It is inductive as long as nobody takes  *)
(* an index away, the receipt of registerModel is seen and no entry has been  *)
(* moved.  Without the receipt HasIndex is violated (run MinerLeaseIndex),    *)
(* after a move SleepsWithinLease is (README, section 3).                    *)
(***************************************************************************)
EXTENDS MinerLease, MinerRegistryProofs, WellFoundedInduction

-----------------------------------------------------------------------------
(***************************************************************************)
(* The inductive invariant.  M is the miner's array in the contract.         *)
(***************************************************************************)
M == minerModels[Miner]

\* pcs of register_on_chain's loop before its registration is mined.
Trying == pc \in {"bind", "read", "scan", "register"}

\* l is an earlier reading of s: since then entries were renewed and added.
Earlier(l, s) ==
  /\ Len(l) <= Len(s)
  /\ \A i \in DOMAIN l : /\ Same(l[i], s[i].model, s[i].endpoint)
                         /\ l[i].expiresAt <= s[i].expiresAt

\* Nothing happened between the readings s and t but deactivations and reports.
Deactivates(s, t) ==
  /\ Len(t) = Len(s) /\ DOMAIN t = DOMAIN s
  /\ \A i \in DOMAIN s : /\ Same(t[i], s[i].model, s[i].endpoint)
                         /\ t[i].expiresAt = s[i].expiresAt
                         /\ t[i].active => s[i].active

\* No endpoint has active entries of two models.
OneId(l) ==
  \A i, j \in DOMAIN l :
    l[i].active /\ l[j].active /\ l[i].endpoint = l[j].endpoint =>
      ModelId[l[i].model] = ModelId[l[j].model]

OwnAt(i) == i \in DOMAIN M /\ Own(M[i])

\* No other model is active on the process's endpoint at the indices of S.
ServedAlone(S) ==
  \A i \in S : M[i].active /\ M[i].endpoint = config.endpoint =>
                 ModelId[M[i].model] = ModelId[config.model]

\* What the process has in its variables, whatever happens to it.
ProcessInv ==
  /\ Len(list) <= MaxModels
  /\ cache # None => cache \in Seq(Entry) /\ Len(cache) <= MaxModels
  /\ pc = "down" => index = None /\ cache = None
  /\ relisting => Trying \/ pc = "index"
  /\ pc \in {"down", "bind", "read", "heartbeat"} =>
       list = <<>> /\ at = 1 /\ match = None
  /\ pc # "index" => written = None
  /\ pc = "index" => \E i \in DOMAIN M : M[i].expiresAt > clock

\* What it knows while nobody disturbs it.
CacheInv ==
  cache # None =>
    /\ Earlier(cache, M)
    /\ Trying \/ (pc = "heartbeat" /\ index \in DOMAIN M /\ M[index].expiresAt <= clock)
         => Deactivates(cache, M)

ScanInv ==
  pc = "scan" =>
    /\ Deactivates(list, M)
    /\ match # None => match < at /\ OwnAt(match) /\ M[match].expiresAt > clock
    /\ ~gaveUp => /\ \A i \in DOMAIN M : i < at /\ Live(M[i]) /\ OwnAt(i) => match = i
                  /\ ServedAlone({i \in DOMAIN M : i < at})

RegisterInv ==
  pc = "register" /\ ~gaveUp => \A i \in DOMAIN M : ~(Live(M[i]) /\ Own(M[i]))

RelistInv ==
  Trying /\ relisting => OwnAt(index) /\ M[index].expiresAt <= clock

WrittenInv ==
  pc = "index" => OwnAt(EventIndex) /\ M[EventIndex].expiresAt = clock + Lease

HeartbeatInv ==
  pc = "heartbeat" =>
    /\ index = None => gaveUp /\ due <= clock
    /\ index # None => OwnAt(index) /\ (~failing /\ due > clock => M[index].expiresAt > due)

ServedInv ==
  ~gaveUp =>
    /\ OneId(M) /\ OneId(list) /\ (cache # None => OneId(cache))
    /\ pc \in {"register", "index", "heartbeat"} \/ relisting => ServedAlone(DOMAIN M)

Known == /\ CacheInv /\ ScanInv /\ RegisterInv /\ RelistInv
         /\ WrittenInv /\ HeartbeatInv /\ ServedInv

-----------------------------------------------------------------------------
(***************************************************************************)
(* What each call makes of the miner's array                                 *)
(***************************************************************************)

\* The array's shape and its entries' fields.
LEMMA ArrayTypes ==
  ASSUME IInv
  PROVE  /\ M \in Seq(Entry) /\ Len(M) \in Nat /\ Len(M) <= MaxModels
         /\ DOMAIN M = 1..Len(M) /\ DOMAIN M \subseteq Indices /\ clock \in Nat
         /\ \A i \in DOMAIN M : /\ M[i] \in Entry /\ M[i].expiresAt \in Nat
                                /\ M[i].expiresAt <= clock + Lease
                                /\ M[i].active \in BOOLEAN
<1>1. Miner \in Addrs
  BY LeaseAssumption
<1>2. M \in Seq(Entry) /\ Len(M) <= MaxModels /\ clock \in Nat
  BY <1>1, TypeParts DEF IInv, ModelsOK, M
<1>3. Len(M) \in Nat /\ DOMAIN M = 1..Len(M) /\ \A i \in DOMAIN M : M[i] \in Entry
  BY <1>2
<1>4. DOMAIN M \subseteq Indices
  BY <1>2, <1>3, RegistryAssumption DEF Indices
<1>5. \A i \in DOMAIN M : M[i].expiresAt \in Nat /\ M[i].expiresAt <= clock + Lease
  BY <1>1, EntryAt DEF M
<1>6. \A i \in DOMAIN M : M[i].active \in BOOLEAN
  BY <1>3, Zenon DEF Entry
<1> QED
  BY <1>2, <1>3, <1>4, <1>5, <1>6

\* The fields of the entries that are written.
LEMMA EntryActive ==
  ASSUME NEW m \in Entry
  PROVE  ~Deactivated(m).active
BY Zenon DEF Deactivated, Entry

\* Writing one entry of the array.
LEMMA WriteArray ==
  ASSUME IInv, NEW i \in DOMAIN M, NEW x \in Entry,
         minerModels' = [minerModels EXCEPT ![Miner] = [M EXCEPT ![i] = x]]
  PROVE  /\ Len(M') = Len(M) /\ DOMAIN M' = DOMAIN M
         /\ M'[i] = x /\ \A j \in DOMAIN M : j # i => M'[j] = M[j]
<1>1. M \in Seq(Entry)
  BY ArrayTypes
<1>2. minerModels \in [Addrs -> Seq(Entry)] /\ Miner \in Addrs
  BY LeaseAssumption, TypeParts DEF IInv, ModelsOK
<1>3. M' = [M EXCEPT ![i] = x]
  BY <1>2 DEF M
<1> QED
  BY <1>1, <1>3, Written

\* deactivateModel and reportOffline take nothing away but the flag.
LEMMA DeactivateArray ==
  ASSUME IInv, NEW i \in Indices, DeactivateModel(Miner, i)
  PROVE  Deactivates(M, M') /\ i \in DOMAIN M /\ ~M'[i].active
<1> DEFINE x == Deactivated(M[i])
<1>1. i \in DOMAIN M
  BY DEF DeactivateModel, M
<1>2. M[i] \in Entry /\ clock \in Nat /\ Lease \in Nat
  BY <1>1, ArrayTypes, RegistryAssumption
<1>3. /\ x \in Entry /\ x.endpoint = M[i].endpoint /\ x.model = M[i].model
      /\ x.expiresAt = M[i].expiresAt /\ ~x.active
  BY <1>2, EntryOps, EntryActive, Zenon
<1>4. minerModels' = [minerModels EXCEPT ![Miner] = [M EXCEPT ![i] = x]]
  BY DEF DeactivateModel, M
<1> HIDE DEF x
<1>5. /\ Len(M') = Len(M) /\ DOMAIN M' = DOMAIN M
      /\ M'[i] = x /\ \A j \in DOMAIN M : j # i => M'[j] = M[j]
  BY <1>1, <1>3, <1>4, WriteArray
<1> QED
  BY <1>1, <1>3, <1>5 DEF Deactivates, Same

\* reportOffline deactivates the entry or only counts.
LEMMA ReportArray ==
  ASSUME IInv, NEW v \in Addrs, NEW i \in Indices, ReportOffline(v, Miner, i)
  PROVE  Deactivates(M, M')
<1> DEFINE x == Deactivated(M[i])
<1>1. i \in DOMAIN M
  BY DEF ReportOffline, MayReport, M
<1>2. M[i] \in Entry /\ clock \in Nat /\ Lease \in Nat
  BY <1>1, ArrayTypes, RegistryAssumption
<1>3. /\ x \in Entry /\ x.endpoint = M[i].endpoint /\ x.model = M[i].model
      /\ x.expiresAt = M[i].expiresAt /\ ~x.active
  BY <1>2, EntryOps, EntryActive, Zenon
<1>4. \/ minerModels' = minerModels
      \/ minerModels' = [minerModels EXCEPT ![Miner] = [M EXCEPT ![i] = x]]
  BY DEF ReportOffline, M
<1> HIDE DEF x
<1>5. CASE minerModels' = minerModels
  BY <1>5 DEF Deactivates, Same, M
<1>6. CASE minerModels' = [minerModels EXCEPT ![Miner] = [M EXCEPT ![i] = x]]
  <2>1. /\ Len(M') = Len(M) /\ DOMAIN M' = DOMAIN M
        /\ M'[i] = x /\ \A j \in DOMAIN M : j # i => M'[j] = M[j]
    BY <1>1, <1>3, <1>6, WriteArray
  <2> QED
    BY <1>1, <1>3, <2>1 DEF Deactivates, Same
<1> QED
  BY <1>4, <1>5, <1>6

\* renewModel gives one entry a new lease.
LEMMA RenewArray ==
  ASSUME IInv, NEW i \in Indices, RenewModel(Miner, i)
  PROVE  /\ Len(M') = Len(M) /\ DOMAIN M' = DOMAIN M /\ i \in DOMAIN M
         /\ Same(M'[i], M[i].model, M[i].endpoint)
         /\ M'[i].expiresAt = clock + Lease
         /\ \A j \in DOMAIN M : j # i => M'[j] = M[j]
<1> DEFINE x == Renewed(M[i])
<1>1. i \in DOMAIN M
  BY DEF RenewModel, Renewable, M
<1>2. M[i] \in Entry /\ clock \in Nat /\ Lease \in Nat
  BY <1>1, ArrayTypes, RegistryAssumption
<1>3. /\ x \in Entry /\ x.endpoint = M[i].endpoint /\ x.model = M[i].model
      /\ x.expiresAt = clock + Lease
  BY <1>2, EntryOps, Zenon
<1>4. minerModels' = [minerModels EXCEPT ![Miner] = [M EXCEPT ![i] = x]]
  BY DEF RenewModel, M
<1> HIDE DEF x
<1>5. /\ Len(M') = Len(M) /\ DOMAIN M' = DOMAIN M
      /\ M'[i] = x /\ \A j \in DOMAIN M : j # i => M'[j] = M[j]
  BY <1>1, <1>3, <1>4, WriteArray
<1> QED
  BY <1>1, <1>3, <1>5 DEF Same

\* registerModel writes entry i: the first it can reactivate, else a new one.
Registers(s, t, found, model, e, i) ==
  /\ \/ found = {} /\ i = Len(s) + 1 /\ Len(t) = Len(s) + 1
     \/ i \in found /\ (\A j \in found : i <= j) /\ Len(t) = Len(s)
  /\ i \in DOMAIN t /\ DOMAIN t = DOMAIN s \union {i}
  /\ Same(t[i], model, e) /\ t[i].expiresAt = clock + Lease
  /\ \A j \in DOMAIN s : j # i => t[j] = s[j]

\* registerModel writes exactly one entry.
LEMMA RegisterArray ==
  ASSUME IInv, NEW model \in Models, NEW e \in Endpoints, NEW c \in Contexts,
         RegisterModel(Miner, model, e, c)
  PROVE  \E i \in Indices :
           Registers(M, M', Reactivatable(Miner, model, e), model, e, i)
<1> DEFINE x == NewEntry(model, e, c)
           found == Reactivatable(Miner, model, e)
<1>1. /\ M \in Seq(Entry) /\ Len(M) \in Nat /\ DOMAIN M = 1..Len(M)
      /\ DOMAIN M \subseteq Indices /\ clock \in Nat /\ Lease \in Nat
  BY ArrayTypes, RegistryAssumption
<1>2. /\ x \in Entry /\ x.endpoint = e /\ x.model = model
      /\ x.expiresAt = clock + Lease
  BY <1>1, FreshEntry, Zenon
<1>3. minerModels \in [Addrs -> Seq(Entry)] /\ Miner \in Addrs
  BY LeaseAssumption, TypeParts DEF IInv, ModelsOK
<1> HIDE DEF x
<1>4. CASE found = {}
  <2>1. HasRoom(Miner) /\ minerModels' = [minerModels EXCEPT ![Miner] = Append(M, x)]
    BY <1>4 DEF RegisterModel, x, M
  <2>2. M' = Append(M, x)
    BY <1>3, <2>1 DEF M
  <2>3. Len(M) + 1 \in Indices
    BY <1>1, <2>1, RegistryAssumption DEF HasRoom, Indices, M
  <2>4. /\ Len(M') = Len(M) + 1 /\ M'[Len(M) + 1] = x
        /\ \A j \in DOMAIN M : M'[j] = M[j]
    BY <1>1, <1>2, <2>2
  <2>5. DOMAIN M' = 1..(Len(M) + 1)
    BY <1>1, <1>2, <2>2
  <2>6. DOMAIN M' = DOMAIN M \union {Len(M) + 1} /\ Len(M) + 1 \in DOMAIN M'
    BY <1>1, <2>5
  <2>7. Registers(M, M', found, model, e, Len(M) + 1)
    BY <1>2, <1>4, <2>4, <2>6 DEF Registers, Same
  <2> QED
    BY <2>3, <2>7
<1>5. CASE found # {}
  <2>1. PICK i \in found : /\ \A j \in found : i <= j
                           /\ minerModels' = [minerModels EXCEPT ![Miner][i] = x]
    BY <1>5 DEF RegisterModel, x
  <2>2. /\ minerModels' = [minerModels EXCEPT ![Miner] = [M EXCEPT ![i] = x]]
        /\ i \in DOMAIN M
    BY <2>1 DEF Reactivatable, M
  <2>3. /\ Len(M') = Len(M) /\ DOMAIN M' = DOMAIN M
        /\ M'[i] = x /\ \A j \in DOMAIN M : j # i => M'[j] = M[j]
    BY <1>2, <2>2, WriteArray
  <2>4. Registers(M, M', found, model, e, i)
    BY <1>2, <2>1, <2>2, <2>3 DEF Registers, Same
  <2> QED
    BY <1>1, <2>2, <2>4
<1> QED
  BY <1>4, <1>5

\* The receipt's event names the entry that was written.
LEMMA EventIsWritten ==
  ASSUME IInv, NEW model, NEW e, NEW found, NEW i \in Indices,
         Registers(M, M', found, model, e, i), \A j \in found : j \in DOMAIN M,
         written' = IF found = {} THEN None ELSE Min(found)
  PROVE  EventIndex' = i
<1>1. DOMAIN M \subseteq Nat /\ None \notin Nat
  BY ArrayTypes, LeaseAssumption
<1>2. i \in found => Min(found) = i
  <2> SUFFICES ASSUME i \in found PROVE Min(found) = i
    OBVIOUS
  <2>1. \A j \in found : i <= j
    BY DEF Registers
  <2>2. \E x \in found : \A y \in found : x <= y
    BY <2>1
  <2>3. Min(found) \in found /\ \A y \in found : Min(found) <= y
    BY <2>2 DEF Min
  <2>4. Min(found) \in Nat /\ i \in Nat
    BY <1>1, <2>3
  <2> QED
    BY <2>1, <2>3, <2>4
<1>3. EventIndex' = IF written' # None THEN written' ELSE Len(M')
  BY DEF EventIndex, M
<1>4. CASE found = {}
  BY <1>3, <1>4 DEF Registers
<1>5. CASE i \in found
  BY <1>1, <1>2, <1>3, <1>5
<1> QED
  BY <1>4, <1>5 DEF Registers

\* cleanup removes one entry; the others may change places.
LEMMA CleanupArray ==
  ASSUME IInv, NEW i \in Indices, Cleanup(Miner, i)
  PROVE  /\ Len(M') = Len(M) - 1
         /\ \A k \in DOMAIN M' :
              IF k = i THEN Len(M) \in DOMAIN M /\ M'[k] = M[Len(M)] /\ k # Len(M)
              ELSE k \in DOMAIN M /\ M'[k] = M[k] /\ k # Len(M)
         /\ \A j \in DOMAIN M : j # i => \E k \in DOMAIN M' : M'[k] = M[j]
<1>1. /\ M \in Seq(Entry) /\ Len(M) \in Nat /\ DOMAIN M = 1..Len(M) /\ i \in DOMAIN M
  BY ArrayTypes DEF Cleanup, Cleanable, M
<1>2. minerModels \in [Addrs -> Seq(Entry)] /\ Miner \in Addrs
  BY LeaseAssumption, TypeParts DEF IInv, ModelsOK
<1>3. M' = WithoutEntry(M, i)
  BY <1>2 DEF Cleanup, M
<1>4. /\ DOMAIN M' = 1..(Len(M) - 1)
      /\ \A k \in 1..(Len(M) - 1) : M'[k] = IF k = i THEN M[Len(M)] ELSE M[k]
  BY <1>3 DEF WithoutEntry
<1>5. \A k \in DOMAIN M' : k \in DOMAIN M /\ k # Len(M) /\ Len(M) \in DOMAIN M
  BY <1>1, <1>4
<1>6. /\ Len(M') = Len(M) - 1
      /\ \A j \in DOMAIN M : j # i => \E k \in DOMAIN M' : M'[k] = M[j]
  BY <1>1, <1>3, Removed, Zenon
<1> QED
  BY <1>4, <1>5, <1>6

-----------------------------------------------------------------------------
(***************************************************************************)
(* The contract under the neuron's calls                                     *)
(***************************************************************************)

\* The calls that the neuron and the others make on its address.
MinerCall ==
  \/ RegisterEvm(Miner, Uid) \/ ResetEvmRegistration(Uid)
  \/ RegisterModel(Miner, config.model, config.endpoint, config.ctx)
  \/ \E i \in Indices : RenewModel(Miner, i) \/ DeactivateModel(Miner, i)
  \/ \E v \in Addrs, i \in Indices : ReportOffline(v, Miner, i)

\* The one call that only --update-endpoint makes.
Moves == moved' = TRUE /\ \E i \in Indices : UpdateEndpoint(Miner, i, config.endpoint)

\* Every step is one of those calls, time passing, or leaves the contract alone.
LEMMA LeaseCalls ==
  ASSUME LeaseTypeOK, IInv, LeaseNext
  PROVE  /\ MinerCall \/ Moves \/ CleanedUp \/ Tick \/ UNCHANGED registryVars
         /\ calls' \in Nat /\ (moved' = moved \/ moved' = TRUE)
<1>1. calls \in Nat /\ index \in Indices \union {None} /\ DOMAIN M \subseteq Indices
  BY ArrayTypes DEF LeaseTypeOK, TypeOK
<1>2. CASE Start \/ CacheExpires \/ Scanned \/ Index \/ Crash
  BY <1>1, <1>2 DEF Start, CacheExpires, Scanned, Index, Crash
<1>3. CASE \E reached \in BOOLEAN : Bind(reached) \/ Read(reached)
  BY <1>1, <1>3 DEF Bind, Read, MinerCall
<1>4. CASE \E reached \in BOOLEAN : Scan(reached)
  <2>1. PICK reached \in BOOLEAN : Scan(reached)
    BY <1>4
  <2>2. UNCHANGED registryVars \/ (at \in DOMAIN M /\ DeactivateModel(Miner, at))
    BY <2>1 DEF Scan, DeactivateListed, M
  <2> QED
    BY <1>1, <2>1, <2>2 DEF Scan, MinerCall
<1>5. CASE \E reached \in BOOLEAN : Register(reached)
  BY <1>1, <1>5 DEF Register, MinerCall
<1>11. CASE \E reached \in BOOLEAN : DropOlder(reached)
  <2>1. PICK reached \in BOOLEAN : DropOlder(reached)
    BY <1>11
  <2>2. UNCHANGED registryVars \/ (match \in DOMAIN M /\ DeactivateModel(Miner, match))
    BY <2>1 DEF DropOlder, DeactivateListed, M
  <2> QED
    BY <1>1, <2>1, <2>2 DEF DropOlder, MinerCall
<1>12. CASE \E reached \in BOOLEAN : Move(reached)
  <2>1. PICK reached \in BOOLEAN : Move(reached)
    BY <1>12
  <2>2. \/ UNCHANGED registryVars /\ moved' = moved
        \/ /\ moved' = TRUE /\ at \in DOMAIN M
           /\ UpdateEndpoint(Miner, at, config.endpoint)
    BY <2>1 DEF Move, MayMove, M
  <2> QED
    BY <1>1, <2>1, <2>2 DEF Move, Moves
<1>6. CASE \E reached \in BOOLEAN : Renew(reached)
  BY <1>1, <1>6 DEF Renew, MinerCall
<1>7. CASE Pass
  BY <1>1, <1>7 DEF Pass
<1>8. CASE Reported
  BY <1>1, <1>8 DEF Reported, MinerCall, Call
<1>9. CASE CleanedUp
  BY <1>1, <1>9 DEF CleanedUp, Call
<1>10. CASE Unbound
  BY <1>1, <1>10 DEF Unbound, MinerCall, Call
<1> QED
  BY <1>2, <1>3, <1>4, <1>5, <1>6, <1>7, <1>8, <1>9, <1>10, <1>11, <1>12 DEF LeaseNext

\* The contract's invariant holds under the neuron's calls.
LEMMA LeaseRegistry ==
  ASSUME LeaseTypeOK, IInv, [LeaseNext]_leaseVars
  PROVE  IInv'
<1>1. CASE UNCHANGED leaseVars
  <2>1. UNCHANGED vars
    BY <1>1 DEF leaseVars, vars
  <2> QED
    BY <2>1, NextIInv
<1>2. CASE LeaseNext
  <2>1. calls' \in Nat /\ clock \in Nat
    BY <1>2, LeaseCalls, TypeParts DEF IInv
  <2>2. CASE MinerCall \/ Moves \/ CleanedUp
    <3>1. /\ Miner \in Addrs /\ Uid \in Uids /\ config.model \in Models
          /\ config.endpoint \in Endpoints /\ config.ctx \in Contexts
      BY LeaseAssumption DEF LeaseTypeOK, Configs
    <3>2. AnyCall
      BY <2>2, <3>1, Zenon DEF MinerCall, Moves, CleanedUp, AnyCall
    <3> QED
      BY <2>1, <3>2, CallGood, GoodStep
  <2>3. CASE Tick
    BY <2>1, <2>3, TickGood, GoodStep
  <2>4. CASE UNCHANGED registryVars
    <3>1. UNCHANGED modelVars /\ UNCHANGED reportVars /\ UNCHANGED bindingVars /\ clock' = clock
      BY <2>4 DEF registryVars
    <3>2. clock' \in Nat /\ clock' >= clock
      BY <2>1, <3>1
    <3> QED
      BY <2>1, <3>1, <3>2, ModelsSame, CountsSame, BindingSame, GoodStep
  <2> QED
    BY <1>2, <2>2, <2>3, <2>4, LeaseCalls
<1> QED
  BY <1>1, <1>2

\* One entry for each model and endpoint, whatever is called, until one is moved.
LEMMA UniqueStep ==
  ASSUME LeaseTypeOK, IInv, UniqueEntry, [LeaseNext]_leaseVars
  PROVE  UniqueEntry'
<1> DEFINE Uniq(s) == \A i, j \in DOMAIN s : Same(s[i], s[j].model, s[j].endpoint) => i = j
<1>2. SUFFICES ASSUME ~moved' PROVE Uniq(M')
  BY DEF UniqueEntry, M
<1>0. ~moved
  <2>1. moved' = moved \/ moved' = TRUE
    BY LeaseCalls DEF leaseVars
  <2> QED
    BY <1>2, <2>1, Zenon
<1>1. Uniq(M)
  BY <1>0 DEF UniqueEntry, M
<1>3. CASE M' = M
  BY <1>1, <1>3
<1>4. ASSUME NEW i \in Indices, DeactivateModel(Miner, i) PROVE Uniq(M')
  BY <1>1, <1>4, DeactivateArray DEF Deactivates, Same
<1>5. ASSUME NEW v \in Addrs, NEW i \in Indices, ReportOffline(v, Miner, i)
      PROVE  Uniq(M')
  BY <1>1, <1>5, ReportArray DEF Deactivates, Same
<1>6. ASSUME NEW i \in Indices, RenewModel(Miner, i) PROVE Uniq(M')
  BY <1>1, <1>6, RenewArray DEF Same
<1>7. ASSUME NEW i \in Indices, Cleanup(Miner, i) PROVE Uniq(M')
  <2> DEFINE from(k) == IF k = i THEN Len(M) ELSE k
  <2>1. \A k \in DOMAIN M' : from(k) \in DOMAIN M /\ M'[k] = M[from(k)] /\ k # Len(M)
    BY <1>7, CleanupArray
  <2>2. \A k, l \in DOMAIN M' : from(k) = from(l) => k = l
    BY <2>1
  <2> HIDE DEF from
  <2> QED
    BY <1>1, <2>1, <2>2
<1>8. CASE RegisterModel(Miner, config.model, config.endpoint, config.ctx)
  <2> DEFINE found == Reactivatable(Miner, config.model, config.endpoint)
  <2>1. /\ config.model \in Models /\ config.endpoint \in Endpoints
        /\ config.ctx \in Contexts
    BY DEF LeaseTypeOK, Configs
  <2>2. PICK i \in Indices :
          Registers(M, M', found, config.model, config.endpoint, i)
    BY <1>8, <2>1, RegisterArray
  <2>3. \A j \in DOMAIN M : Same(M[j], config.model, config.endpoint) => j \in found
    BY <1>8 DEF RegisterModel, Duplicate, Reactivatable, M
  <2>4. \A j \in found : j \in DOMAIN M /\ Same(M[j], config.model, config.endpoint)
    BY DEF Reactivatable, M
  <2> HIDE DEF found
  <2>5. \A j \in DOMAIN M : Same(M[j], config.model, config.endpoint) => j = i
    <3>1. CASE found = {}
      BY <2>3, <3>1
    <3>2. CASE i \in found
      BY <1>1, <2>3, <2>4, <3>2 DEF Same
    <3> QED
      BY <2>2, <3>1, <3>2 DEF Registers
  <2>6. /\ DOMAIN M' = DOMAIN M \union {i} /\ Same(M'[i], config.model, config.endpoint)
        /\ \A j \in DOMAIN M : j # i => M'[j] = M[j]
    BY <2>2 DEF Registers
  <2> QED
    BY <1>1, <2>5, <2>6 DEF Same
<1>9. CASE UNCHANGED leaseVars
  BY <1>3, <1>9 DEF leaseVars, registryVars, modelVars, M
<1>10. CASE LeaseNext
  <2>1. CASE MinerCall
    <3>1. CASE RegisterEvm(Miner, Uid) \/ ResetEvmRegistration(Uid)
      BY <1>3, <3>1 DEF RegisterEvm, ResetEvmRegistration, modelVars, M
    <3> QED
      BY <1>4, <1>5, <1>6, <1>8, <2>1, <3>1 DEF MinerCall
  <2>4. CASE CleanedUp
    BY <1>7, <2>4 DEF CleanedUp
  <2>2. CASE Tick
    BY <1>3, <2>2 DEF Tick, modelVars, M
  <2>3. CASE UNCHANGED registryVars
    BY <1>3, <2>3 DEF registryVars, modelVars, M
  <2> QED
    BY <1>2, <1>10, <2>1, <2>2, <2>3, <2>4, LeaseCalls DEF Moves
<1> QED
  BY <1>9, <1>10

-----------------------------------------------------------------------------
(***************************************************************************)
(* The process's variables                                                   *)
(***************************************************************************)

\* The type invariant without the contract's.
ProcessOK ==
  /\ pc \in {"down", "bind", "read", "scan", "register", "index", "heartbeat"}
  /\ config \in Configs
  /\ attempt \in 1..MaxRetries
  /\ relisting \in BOOLEAN /\ failing \in BOOLEAN
  /\ gaveUp \in BOOLEAN /\ disturbed \in BOOLEAN
  /\ cache \in Seq(Entry) \union {None}
  /\ list \in Seq(Entry) /\ at \in 1..(Len(list) + 1)
  /\ match \in Indices \union {None} /\ written \in Indices \union {None}
  /\ index \in Indices \union {None}
  /\ due \in Nat /\ crashes \in 0..MaxCrashes

\* The two parts of the type invariant.
LEMMA LeaseParts == LeaseTypeOK <=> TypeOK /\ ProcessOK /\ moved \in BOOLEAN
BY Zenon DEF LeaseTypeOK, ProcessOK

\* A set of indices that is not empty has a largest one.
LEMMA LargestIndex ==
  ASSUME NEW n \in Nat, NEW S \in SUBSET (1..n), S # {}
  PROVE  Max(S) \in S
<1> DEFINE T == {n - y : y \in S}
<1>1. T \subseteq Nat /\ T # {}
  <2>1. \A y \in S : n - y \in Nat
    OBVIOUS
  <2> QED
    BY <2>1
<1>2. IsWellFoundedOn(OpToRel(<, Nat), Nat)
  BY NatLessThanWellFounded
<1>3. PICK x \in T : \A y \in T : ~(<<y, x>> \in OpToRel(<, Nat))
  BY <1>1, <1>2, WFMin
<1>4. \A y \in T : ~(y < x)
  BY <1>1, <1>3 DEF OpToRel
<1>5. PICK s \in S : x = n - s
  BY <1>3
<1>6. \A y \in S : s >= y
  <2> SUFFICES ASSUME NEW y \in S PROVE s >= y
    OBVIOUS
  <2>1. n - y \in T /\ y \in 1..n /\ s \in 1..n
    OBVIOUS
  <2>2. ~(n - y < n - s)
    BY <1>4, <1>5, <2>1
  <2> QED
    BY <2>1, <2>2
<1> QED
  BY <1>5, <1>6 DEF Max

\* The list get_miner_models returns.
LEMMA ListedType ==
  ASSUME IInv, ProcessInv
  PROVE  /\ Listed \in Seq(Entry) /\ Len(Listed) \in Nat /\ Len(Listed) <= MaxModels
         /\ DOMAIN Listed = 1..Len(Listed) /\ DOMAIN Listed \subseteq Indices
         /\ \A i \in DOMAIN Listed : Listed[i].expiresAt \in Nat
<1>1. Listed \in Seq(Entry) /\ Len(Listed) <= MaxModels
  BY ArrayTypes DEF Listed, ProcessInv, M
<1>2. /\ Len(Listed) \in Nat /\ DOMAIN Listed = 1..Len(Listed)
      /\ \A i \in DOMAIN Listed : Listed[i] \in Entry
  BY <1>1
<1>3. \A i \in DOMAIN Listed : Listed[i].expiresAt \in Nat
  BY <1>2, Zenon DEF Entry
<1>4. DOMAIN Listed \subseteq Indices
  BY <1>1, <1>2, RegistryAssumption DEF Indices
<1> QED
  BY <1>1, <1>2, <1>3, <1>4

\* register_on_chain's loop is left, or goes round.
LEMMA AttemptFacts ==
  ASSUME ProcessOK, clock \in Nat, AttemptFailed
  PROVE  /\ pc' \in {"bind", "heartbeat", "down"}
         /\ list' = <<>> /\ at' = 1 /\ match' = None /\ written' = None
         /\ attempt' \in 1..MaxRetries /\ due' \in Nat
         /\ relisting' \in BOOLEAN /\ failing' \in BOOLEAN
         /\ cache' \in {cache, None} /\ index' \in {index, None}
         /\ pc' = "down" => index' = None /\ cache' = None
         /\ relisting' => pc' = "bind"
         /\ pc' = "bind" =>
              relisting' = relisting /\ index' = index /\ cache' = cache
         /\ pc' = "heartbeat" =>
              /\ relisting /\ index' = index /\ cache' = cache
              /\ due' = clock /\ failing' = TRUE
<1>1. CASE ~LastAttempt
  <2>1. attempt + 1 \in 1..MaxRetries
    BY <1>1, LeaseAssumption DEF ProcessOK, LastAttempt
  <2> QED
    BY <1>1, <2>1 DEF AttemptFailed, ProcessOK, heartbeatVars
<1>2. CASE LastAttempt
  <2>1. 1 \in 1..MaxRetries
    BY LeaseAssumption
  <2>2. CASE relisting
    BY <1>2, <2>1, <2>2 DEF AttemptFailed, LoopReset, ProcessOK
  <2>3. CASE ~relisting
    <3>1. /\ pc' = "down" /\ index' = None /\ due' = 0 /\ cache' = None
          /\ LoopReset
      BY <1>2, <2>3 DEF AttemptFailed
    <3>2. failing' = relisting
      BY <1>2, Zenon DEF AttemptFailed
    <3>3. failing' \in BOOLEAN
      BY <3>2, Zenon DEF ProcessOK
    <3> QED
      BY <2>1, <3>1, <3>3 DEF LoopReset
  <2> QED
    BY <2>2, <2>3
<1> QED
  BY <1>1, <1>2

\* register_on_chain returns, and the process goes on to its heartbeat.
LEMMA ReturnedFacts ==
  ASSUME ProcessOK, ProcessInv, IInv, NEW i \in Indices \union {None}, Returned(i),
         ~Exits
  PROVE  /\ pc' = "heartbeat" /\ index' = i /\ failing' = FALSE
         /\ list' = <<>> /\ at' = 1 /\ match' = None /\ written' = None
         /\ attempt' \in 1..MaxRetries /\ due' \in Nat /\ relisting' = FALSE
         /\ cache' \in {cache, Listed}
         /\ relisting => due' = clock + Interval /\ cache' = cache
         /\ ~relisting => \/ due' = clock
                          \/ i \in DOMAIN Listed /\ due' = Listed[i].expiresAt - Interval
<1>1. 1 \in 1..MaxRetries /\ Interval \in Nat /\ Margin \in Nat /\ clock \in Nat
  BY LeaseAssumption, ArrayTypes
<1>2. /\ pc' = "heartbeat" /\ index' = i /\ failing' = FALSE
      /\ list' = <<>> /\ at' = 1 /\ match' = None /\ written' = None
      /\ attempt' = 1 /\ relisting' = FALSE
  BY DEF Returned, LoopReset
<1>3. CASE relisting
  BY <1>1, <1>2, <1>3 DEF Returned
<1>4. CASE ~relisting
  <2>1. /\ due' = FirstDue(Listed, i) \/ due' = clock
        /\ cache' \in {cache, Listed}
    BY <1>4 DEF Returned
  <2>2. CASE due' = clock
    BY <1>1, <1>2, <1>4, <2>1, <2>2
  <2>3. CASE due' = FirstDue(Listed, i) /\ due' # clock
    <3>1. /\ i \in DOMAIN Listed /\ due' = Listed[i].expiresAt - Interval
          /\ Listed[i].expiresAt - clock > Interval + Margin
      BY <2>3 DEF FirstDue
    <3>2. Listed[i].expiresAt \in Nat
      BY <3>1, ListedType
    <3>3. due' \in Nat
      BY <1>1, <3>1, <3>2
    <3> QED
      BY <1>1, <1>2, <1>4, <2>1, <3>1, <3>3
  <2> QED
    BY <2>1, <2>2, <2>3
<1> QED
  BY <1>3, <1>4

\* An empty list, as between two attempts.
LEMMA EmptyList == <<>> \in Seq(Entry) /\ Len(<<>>) = 0 /\ 1 \in 1..(Len(<<>>) + 1)
OBVIOUS

\* What a step that ends an attempt leaves of the process.
LEMMA BetweenAttempts ==
  ASSUME ProcessOK, ProcessInv, IInv,
         pc' \in {"bind", "heartbeat", "down"},
         list' = <<>>, at' = 1, match' = None, written' = None,
         attempt' \in 1..MaxRetries, due' \in Nat,
         relisting' \in BOOLEAN, failing' \in BOOLEAN,
         cache' \in {cache, None, Listed}, index' \in Indices \union {None},
         pc' = "down" => index' = None /\ cache' = None,
         relisting' => pc' = "bind",
         config' = config, gaveUp' \in BOOLEAN, disturbed' \in BOOLEAN,
         crashes' \in 0..MaxCrashes
  PROVE  ProcessOK' /\ ProcessInv'
<1>1. MaxModels \in Nat
  BY RegistryAssumption
<1>2. /\ cache' \in Seq(Entry) \union {None}
      /\ cache' # None => cache' \in Seq(Entry) /\ Len(cache') <= MaxModels
  BY ListedType DEF ProcessOK, ProcessInv
<1>3. ProcessOK'
  BY <1>2, EmptyList DEF ProcessOK
<1> QED
  BY <1>1, <1>2, <1>3, EmptyList DEF ProcessInv, Trying

\* A step that leaves the process alone, and an entry of the future.
LEMMA ProcessUntouched ==
  ASSUME ProcessOK, ProcessInv,
         UNCHANGED processVars, disturbed' \in BOOLEAN, crashes' = crashes,
         pc = "index" => \E i \in DOMAIN M' : M'[i].expiresAt > clock'
  PROVE  ProcessOK' /\ ProcessInv'
<1>1. ProcessOK'
  BY DEF ProcessOK, processVars, registerVars, heartbeatVars
<1>2. ProcessInv'
  BY DEF ProcessInv, Trying, processVars, registerVars, heartbeatVars
<1> QED
  BY <1>1, <1>2

\* Every step keeps the process's variables in order.
LEMMA ProcessStep ==
  ASSUME ProcessOK, ProcessInv, IInv, [LeaseNext]_leaseVars
  PROVE  ProcessOK' /\ ProcessInv'
<1>1. /\ clock \in Nat /\ M \in Seq(Entry) /\ Len(M) \in Nat /\ DOMAIN M = 1..Len(M)
      /\ DOMAIN M \subseteq Indices /\ MaxModels \in Nat
      /\ \A i \in DOMAIN M : M[i].expiresAt \in Nat
  BY ArrayTypes, RegistryAssumption
<1>2. index \in Indices \union {None} /\ MaxCrashes \in Nat /\ Lease \in Nat \ {0}
  BY LeaseAssumption, RegistryAssumption DEF ProcessOK
<1>3. CASE UNCHANGED leaseVars
  BY <1>3, ProcessUntouched
  DEF leaseVars, processVars, ProcessOK, ProcessInv, registryVars, modelVars, M
<1>4. CASE Start
  <2>1. /\ pc = "down" /\ pc' = "bind" /\ config' \in Configs
        /\ disturbed' = FALSE /\ crashes' = crashes
        /\ UNCHANGED <<attempt, relisting, list, at, match, written, index, due,
                       failing, cache>>
    BY <1>4 DEF Start, registerVars, heartbeatVars
  <2>2. gaveUp' \in BOOLEAN
    BY <1>4, Zenon DEF Start, ProcessOK
  <2>3. ProcessOK'
    BY <2>1, <2>2 DEF ProcessOK
  <2> QED
    BY <2>1, <2>3 DEF ProcessInv, Trying
<1>5. CASE CacheExpires
  <2>1. /\ cache' = None /\ UNCHANGED <<minerModels, clock>>
        /\ UNCHANGED <<pc, config, attempt, relisting, list, at, match, written,
                       index, due, failing, gaveUp, disturbed, crashes>>
    BY <1>5 DEF CacheExpires, registerVars, heartbeatVars, registryVars, modelVars
  <2>2. ProcessOK'
    BY <2>1 DEF ProcessOK
  <2> QED
    BY <2>1, <2>2 DEF ProcessInv, Trying, M
<1>6. ASSUME AttemptFailed, config' = config, gaveUp' = gaveUp,
             disturbed' = disturbed, crashes' = crashes
      PROVE  ProcessOK' /\ ProcessInv'
  <2>1. gaveUp' \in BOOLEAN /\ disturbed' \in BOOLEAN /\ crashes' \in 0..MaxCrashes
    BY <1>6 DEF ProcessOK
  <2> QED
    BY <1>1, <1>2, <1>6, <2>1, AttemptFacts, BetweenAttempts
<1>7. ASSUME NEW i \in Indices \union {None}, Returned(i), config' = config,
             gaveUp' = gaveUp, disturbed' = disturbed, crashes' = crashes
      PROVE  ProcessOK' /\ ProcessInv'
  <2>1. /\ gaveUp' \in BOOLEAN /\ disturbed' \in BOOLEAN /\ crashes' \in 0..MaxCrashes
        /\ 1 \in 1..MaxRetries
    BY <1>7, LeaseAssumption DEF ProcessOK
  <2>2. CASE Exits
    BY <1>7, <2>1, <2>2, BetweenAttempts DEF Exits, LoopReset
  <2>3. CASE ~Exits
    BY <1>1, <1>2, <1>7, <2>1, <2>3, ReturnedFacts, BetweenAttempts
  <2> QED
    BY <2>2, <2>3
<1>8. CASE Scanned
  <2>1. CASE match # None
    BY <1>7, <1>8, <2>1 DEF Scanned, ProcessOK
  <2>2. CASE match = None
    <3>1. /\ pc = "scan" /\ pc' = "register"
          /\ UNCHANGED <<config, attempt, relisting, list, at, match, written,
                         index, due, failing, cache, gaveUp, disturbed, crashes>>
      BY <1>8, <2>2 DEF Scanned, registerVars, heartbeatVars
    <3>2. ProcessOK'
      BY <3>1 DEF ProcessOK
    <3> QED
      BY <3>1, <3>2 DEF ProcessInv, Trying
  <2> QED
    BY <2>1, <2>2
<1>9. CASE Index
  <2>1. EventIndex \in Indices
    <3>1. Len(M) \in Indices
      <4>1. pc = "index"
        BY <1>9 DEF Index
      <4>2. PICK i \in DOMAIN M : TRUE
        BY <4>1 DEF ProcessInv
      <4>3. Len(M) \in DOMAIN M
        BY <1>1, <4>2
      <4> QED
        BY <1>1, <4>3
    <3> QED
      BY <3>1 DEF EventIndex, ProcessOK, M
  <2>2. Findable(Listed) # {} => Max(Findable(Listed)) \in Indices
    <3>1. /\ Len(Listed) \in Nat /\ DOMAIN Listed = 1..Len(Listed)
          /\ DOMAIN Listed \subseteq Indices
      BY ListedType
    <3>2. Findable(Listed) \subseteq DOMAIN Listed
      BY DEF Findable
    <3> QED
      BY <3>1, <3>2, LargestIndex
  <2> QED
    BY <1>6, <1>7, <1>9, <2>1, <2>2 DEF Index
<1>10. ASSUME NEW reached \in BOOLEAN, Bind(reached)
       PROVE  ProcessOK' /\ ProcessInv'
  <2>1. CASE reached /\ Lookup[Miner] \in {None, Uid}
    <3>1. /\ pc = "bind" /\ pc' = "read"
          /\ UNCHANGED <<config, attempt, relisting, list, at, match, written,
                         index, due, failing, cache, gaveUp, disturbed, crashes>>
      BY <1>10, <2>1 DEF Bind, registerVars, heartbeatVars
    <3>2. ProcessOK'
      BY <3>1 DEF ProcessOK
    <3> QED
      BY <3>1, <3>2 DEF ProcessInv, Trying
  <2>2. CASE ~(reached /\ Lookup[Miner] \in {None, Uid})
    BY <1>6, <1>10, <2>2 DEF Bind
  <2> QED
    BY <2>1, <2>2
<1>11. ASSUME NEW reached \in BOOLEAN, Read(reached)
       PROVE  ProcessOK' /\ ProcessInv'
  <2>1. CASE reached \/ cache # None
    <3>1. /\ pc = "read" /\ pc' = "scan" /\ list' = Listed /\ cache' = Listed
          /\ UNCHANGED <<config, attempt, relisting, at, match, written,
                         index, due, failing, gaveUp, disturbed, crashes>>
      BY <1>11, <2>1 DEF Read, heartbeatVars
    <3>2. /\ Listed \in Seq(Entry) /\ Len(Listed) <= MaxModels
          /\ Len(Listed) \in Nat
      BY ListedType
    <3>3. at = 1 /\ 1 \in 1..(Len(Listed) + 1)
      BY <3>1, <3>2 DEF ProcessInv
    <3>4. ProcessOK'
      BY <3>1, <3>2, <3>3 DEF ProcessOK
    <3> QED
      BY <3>1, <3>2, <3>4 DEF ProcessInv, Trying
  <2>2. CASE ~(reached \/ cache # None)
    BY <1>6, <1>11, <2>2 DEF Read
  <2> QED
    BY <2>1, <2>2
<1>12. ASSUME NEW reached \in BOOLEAN, Scan(reached)
       PROVE  ProcessOK' /\ ProcessInv'
  <2>1. /\ pc = "scan" /\ at <= Len(list) /\ match' \in {at, match}
        /\ \/ pc' = "register" /\ at' = at
           \/ pc' = pc /\ at' = at + 1
        /\ UNCHANGED <<config, attempt, relisting, list, written,
                       index, due, failing, cache, disturbed, crashes>>
    BY <1>12 DEF Scan, heartbeatVars
  <2>2. gaveUp' \in BOOLEAN
    BY <1>12 DEF Scan, DeactivateListed, ProcessOK
  <2>3. /\ Len(list) \in Nat /\ at \in 1..(Len(list) + 1) /\ Len(list) <= MaxModels
    BY DEF ProcessOK, ProcessInv
  <2>4. at \in Indices /\ at' \in 1..(Len(list) + 1)
    BY <1>1, <2>1, <2>3 DEF Indices
  <2>5. match' \in Indices \union {None}
    BY <2>1, <2>4 DEF ProcessOK
  <2>6. ProcessOK'
    BY <2>1, <2>2, <2>4, <2>5 DEF ProcessOK
  <2> QED
    BY <2>1, <2>6 DEF ProcessInv, Trying
<1>20. ASSUME NEW reached \in BOOLEAN, DropOlder(reached)
       PROVE  ProcessOK' /\ ProcessInv'
  <2>1. /\ pc = "scan" /\ match' = None
        /\ UNCHANGED <<pc, config, attempt, relisting, list, at, written,
                       index, due, failing, cache, disturbed, crashes>>
    BY <1>20 DEF DropOlder, heartbeatVars
  <2>2. gaveUp' \in BOOLEAN
    BY <1>20 DEF DropOlder, DeactivateListed, ProcessOK
  <2>3. ProcessOK'
    BY <2>1, <2>2 DEF ProcessOK
  <2> QED
    BY <2>1, <2>3 DEF ProcessInv, Trying
<1>21. ASSUME NEW reached \in BOOLEAN, Move(reached)
       PROVE  ProcessOK' /\ ProcessInv'
  <2>1. /\ pc = "scan" /\ at <= Len(list) /\ match' \in {at, match, None}
        /\ at' = at + 1
        /\ UNCHANGED <<pc, config, attempt, relisting, list, written, index, due,
                       failing, cache, gaveUp, disturbed, crashes>>
    BY <1>21 DEF Move, heartbeatVars
  <2>2. Len(list) \in Nat /\ at \in 1..(Len(list) + 1) /\ Len(list) <= MaxModels
    BY DEF ProcessOK, ProcessInv
  <2>3. at \in Indices /\ at' \in 1..(Len(list) + 1)
    BY <1>1, <2>1, <2>2 DEF Indices
  <2>4. match' \in Indices \union {None}
    BY <2>1, <2>3 DEF ProcessOK
  <2>5. ProcessOK'
    BY <2>1, <2>3, <2>4 DEF ProcessOK
  <2> QED
    BY <2>1, <2>5 DEF ProcessInv, Trying
<1>13. ASSUME NEW reached \in BOOLEAN, Register(reached)
       PROVE  ProcessOK' /\ ProcessInv'
  <2>1. CASE pc' = "index" /\ reached /\ MayRegister
    <3> DEFINE found == Reactivatable(Miner, config.model, config.endpoint)
    <3>1. /\ RegisterModel(Miner, config.model, config.endpoint, config.ctx)
          /\ written' = IF found = {} THEN None ELSE Min(found)
          /\ UNCHANGED <<config, attempt, relisting, list, at, match, index, due,
                         failing, cache, gaveUp, disturbed, crashes>>
      BY <1>13, <2>1, AttemptFacts, <1>1 DEF Register, heartbeatVars
    <3>2. /\ config.model \in Models /\ config.endpoint \in Endpoints
          /\ config.ctx \in Contexts
      BY DEF ProcessOK, Configs
    <3>3. PICK i \in Indices :
            Registers(M, M', found, config.model, config.endpoint, i)
      BY <3>1, <3>2, RegisterArray
    <3>4. written' \in Indices \union {None}
      <4>1. CASE found = {}
        BY <3>1, <4>1
      <4>2. CASE i \in found
        <5>1. \E x \in found : \A y \in found : x <= y
          BY <3>3, <4>2 DEF Registers
        <5>2. Min(found) \in found
          BY <5>1 DEF Min
        <5>3. found \subseteq DOMAIN M
          BY DEF Reactivatable, M
        <5> QED
          BY <1>1, <3>1, <5>2, <5>3
      <4> QED
        BY <3>3, <4>1, <4>2 DEF Registers
    <3>5. i \in DOMAIN M' /\ M'[i].expiresAt > clock'
      BY <1>1, <1>2, <3>1, <3>3 DEF Registers, RegisterModel
    <3>6. ProcessOK'
      BY <2>1, <3>1, <3>4 DEF ProcessOK
    <3> QED
      BY <2>1, <3>1, <3>5, <3>6 DEF ProcessInv, Trying
  <2>2. CASE AttemptFailed
    BY <1>6, <1>13, <2>2 DEF Register
  <2>3. CASE Returned(None)
    BY <1>7, <1>13, <2>3 DEF Register
  <2> QED
    BY <1>13, <2>1, <2>2, <2>3 DEF Register
<1>14. ASSUME NEW reached \in BOOLEAN, Renew(reached)
       PROVE  ProcessOK' /\ ProcessInv'
  <2>1. /\ pc = "heartbeat" /\ Interval \in Nat
        /\ UNCHANGED <<config, cache, gaveUp, disturbed, crashes>>
    BY <1>14, LeaseAssumption DEF Renew
  <2>2. CASE /\ due' \in {clock, clock + Interval} /\ failing' \in BOOLEAN
             /\ UNCHANGED <<pc, attempt, relisting, list, at, match, written, index>>
    <3>1. due' \in Nat
      BY <1>1, <2>1, <2>2
    <3>2. ProcessOK'
      BY <2>1, <2>2, <3>1 DEF ProcessOK
    <3> QED
      BY <2>1, <2>2, <3>2 DEF ProcessInv, Trying
  <2>3. CASE /\ pc' = "bind" /\ relisting' = TRUE
             /\ UNCHANGED <<attempt, list, at, match, written, index, due, failing>>
    <3>1. ProcessOK'
      BY <2>1, <2>3 DEF ProcessOK
    <3> QED
      BY <2>1, <2>3, <3>1 DEF ProcessInv, Trying
  <2> QED
    BY <1>14, <2>2, <2>3 DEF Renew, registerVars, heartbeatVars
<1>15. CASE Crash
  <2>1. /\ pc' = "down" /\ cache' = None /\ index' = None /\ due' = 0
        /\ failing' = FALSE /\ LoopReset /\ crashes' = crashes + 1
        /\ crashes < MaxCrashes /\ UNCHANGED <<config, gaveUp, disturbed>>
    BY <1>15 DEF Crash, Exits
  <2>2. /\ crashes' \in 0..MaxCrashes /\ gaveUp' \in BOOLEAN /\ disturbed' \in BOOLEAN
        /\ 1 \in 1..MaxRetries
    BY <1>2, <2>1, LeaseAssumption DEF ProcessOK
  <2> QED
    BY <2>1, <2>2, BetweenAttempts DEF LoopReset
<1>16. CASE Pass
  <2>1. /\ cache' = None /\ pc \in {"down", "heartbeat"}
        /\ UNCHANGED <<pc, config, attempt, relisting, list, at, match, written,
                       index, due, failing, gaveUp, disturbed, crashes>>
    BY <1>16 DEF Pass, registerVars, heartbeatVars
  <2>2. ProcessOK'
    BY <2>1 DEF ProcessOK
  <2> QED
    BY <2>1, <2>2 DEF ProcessInv, Trying
<1>17. CASE Reported
  <2>1. PICK v \in Addrs, i \in Indices : ReportOffline(v, Miner, i)
    BY <1>17 DEF Reported
  <2>2. Deactivates(M, M') /\ clock' = clock
    BY <2>1, ReportArray DEF ReportOffline
  <2>3. pc = "index" => \E j \in DOMAIN M' : M'[j].expiresAt > clock'
    BY <2>2 DEF ProcessInv, Deactivates
  <2>4. disturbed' \in BOOLEAN
    BY <1>17 DEF Reported, ProcessOK
  <2> QED
    BY <1>17, <2>3, <2>4, ProcessUntouched DEF Reported
<1>18. CASE CleanedUp
  <2>1. PICK i \in Indices : Cleanup(Miner, i)
    BY <1>18 DEF CleanedUp
  <2>2. /\ \A j \in DOMAIN M : j # i => \E k \in DOMAIN M' : M'[k] = M[j]
        /\ clock' = clock
    BY <2>1, CleanupArray DEF Cleanup
  <2>3. i \in DOMAIN M /\ ~(M[i].expiresAt > clock)
    BY <1>1, <2>1, RegistryAssumption DEF Cleanup, Cleanable, M
  <2>4. pc = "index" => \E j \in DOMAIN M' : M'[j].expiresAt > clock'
    BY <2>2, <2>3 DEF ProcessInv
  <2>5. disturbed' \in BOOLEAN
    BY <1>18, Zenon DEF CleanedUp, ProcessOK
  <2> QED
    BY <1>18, <2>4, <2>5, ProcessUntouched DEF CleanedUp
<1>19. CASE Unbound
  <2>1. UNCHANGED <<minerModels, clock>>
    BY <1>19 DEF Unbound, ResetEvmRegistration, modelVars
  <2>2. pc = "index" => \E j \in DOMAIN M' : M'[j].expiresAt > clock'
    BY <2>1 DEF ProcessInv, M
  <2>3. disturbed' \in BOOLEAN
    BY <1>19, Zenon DEF Unbound, ProcessOK
  <2> QED
    BY <1>19, <2>2, <2>3, ProcessUntouched DEF Unbound
<1> QED
  BY <1>3, <1>4, <1>5, <1>8, <1>9, <1>10, <1>11, <1>12, <1>13, <1>14, <1>15,
     <1>16, <1>17, <1>18, <1>19, <1>20, <1>21 DEF LeaseNext

-----------------------------------------------------------------------------
(***************************************************************************)
(* Readings of the array                                                     *)
(***************************************************************************)

\* An earlier reading stays one while entries are renewed and added.
LEMMA EarlierTrans ==
  ASSUME NEW l \in Seq(Entry), NEW s \in Seq(Entry), NEW t,
         Earlier(l, s), Earlier(s, t), Len(t) \in Nat,
         \A i \in DOMAIN s : t[i].expiresAt \in Nat
  PROVE  Earlier(l, t)
<1>1. /\ Len(l) \in Nat /\ DOMAIN l = 1..Len(l) /\ \A i \in DOMAIN l : l[i] \in Entry
      /\ Len(s) \in Nat /\ DOMAIN s = 1..Len(s) /\ \A i \in DOMAIN s : s[i] \in Entry
  OBVIOUS
<1>2. /\ \A i \in DOMAIN l : l[i].expiresAt \in Nat
      /\ \A i \in DOMAIN s : s[i].expiresAt \in Nat
  BY <1>1, Zenon DEF Entry
<1>3. \A i \in DOMAIN l : i \in DOMAIN s
  BY <1>1 DEF Earlier
<1>4. Len(l) <= Len(t)
  BY <1>1 DEF Earlier
<1>5. \A i \in DOMAIN l : l[i].expiresAt <= t[i].expiresAt
  BY <1>2, <1>3 DEF Earlier
<1> QED
  BY <1>3, <1>4, <1>5 DEF Earlier, Same

\* Two spells of deactivations are one.
LEMMA DeactivatesTrans ==
  ASSUME NEW l, NEW s, NEW t, Deactivates(l, s), Deactivates(s, t)
  PROVE  Deactivates(l, t)
BY DEF Deactivates, Same

\* A deactivation takes nothing from a lease.
LEMMA DeactivatesEarlier ==
  ASSUME NEW s \in Seq(Entry), NEW t, Deactivates(s, t)
  PROVE  Earlier(s, t) /\ Len(t) \in Nat /\ \A i \in DOMAIN s : t[i].expiresAt \in Nat
<1>1. Len(s) \in Nat /\ \A i \in DOMAIN s : s[i] \in Entry
  OBVIOUS
<1>2. \A i \in DOMAIN s : s[i].expiresAt \in Nat
  BY <1>1, Zenon DEF Entry
<1> QED
  BY <1>1, <1>2 DEF Earlier, Deactivates, Same

\* Every list the process can hold was once the array.
LEMMA Reading ==
  ASSUME IInv, ProcessInv, Known
  PROVE  /\ Earlier(Listed, M) /\ (cache = None => Listed = M)
         /\ Trying => Deactivates(Listed, M)
         /\ ~gaveUp => OneId(Listed)
<1>1. M \in Seq(Entry) /\ Deactivates(M, M)
  BY ArrayTypes DEF Deactivates, Same
<1>2. Earlier(M, M)
  BY <1>1, DeactivatesEarlier
<1>3. CASE cache = None
  BY <1>1, <1>2, <1>3 DEF Listed, Known, ServedInv, M
<1>4. CASE cache # None
  BY <1>4 DEF Listed, Known, CacheInv, ServedInv
<1> QED
  BY <1>3, <1>4

\* No other model is active beside the one the process serves: writing its own
\* entry leaves that so.
LEMMA OwnWritten ==
  ASSUME NEW i, OneId(M), ServedAlone(DOMAIN M), config' = config,
         DOMAIN M' = DOMAIN M \union {i}, Same(M'[i], config.model, config.endpoint),
         \A j \in DOMAIN M : j # i => M'[j] = M[j]
  PROVE  OneId(M)' /\ ServedAlone(DOMAIN M)'
<1>1. ServedAlone(DOMAIN M)'
  BY DEF ServedAlone, Same
<1>2. \A j, k \in DOMAIN M' :
        M'[j].active /\ M'[k].active /\ M'[j].endpoint = M'[k].endpoint =>
          ModelId[M'[j].model] = ModelId[M'[k].model]
  BY DEF OneId, ServedAlone, Same
<1> QED
  BY <1>1, <1>2 DEF OneId

\* Deactivations take no model onto an endpoint.
LEMMA StillAlone ==
  ASSUME Deactivates(M, M'), config' = config
  PROVE  /\ OneId(M) => OneId(M)'
         /\ ServedAlone(DOMAIN M) => ServedAlone(DOMAIN M)'
BY DEF OneId, ServedAlone, Deactivates, Same

-----------------------------------------------------------------------------
(***************************************************************************)
(* What the process knows, step by step                                      *)
(***************************************************************************)

\* What holds before a step of an undisturbed process, if none has moved an entry.
Settled == IInv /\ ProcessOK /\ ProcessInv /\ UniqueEntry /\ ~moved /\ Known

\* Others report entries, or the cache is dropped.
LEMMA UntouchedKnown ==
  ASSUME Settled, Deactivates(M, M'), clock' = clock, cache' \in {cache, None},
         UNCHANGED <<pc, config, registerVars, heartbeatVars, gaveUp>>
  PROVE  Known'
<1>1. UNCHANGED <<pc, config, attempt, relisting, list, at, match, written,
                  index, due, failing, gaveUp>>
  BY DEF registerVars, heartbeatVars
<1>2. IInv /\ ProcessOK /\ ProcessInv /\ Known
  BY DEF Settled
<1>3. M \in Seq(Entry) /\ (cache # None => cache \in Seq(Entry)) /\ clock \in Nat
  BY <1>2, ArrayTypes DEF ProcessInv
<1>4. CacheInv'
  <2>1. cache # None => Earlier(cache, M')
    BY <1>2, <1>3, EarlierTrans, DeactivatesEarlier DEF Known, CacheInv
  <2>2. cache # None /\ Deactivates(cache, M) => Deactivates(cache, M')
    BY DeactivatesTrans
  <2>3. \A i \in DOMAIN M' : i \in DOMAIN M /\ M'[i].expiresAt = M[i].expiresAt
    BY DEF Deactivates
  <2> QED
    BY <1>1, <1>2, <2>1, <2>2, <2>3 DEF Known, CacheInv, Trying
<1>5. ScanInv'
  <2>1. Deactivates(list, M) => Deactivates(list, M')
    BY DeactivatesTrans
  <2> QED
    BY <1>1, <1>2, <2>1
    DEF Known, ScanInv, Deactivates, OwnAt, Own, Same, Live, ServedAlone
<1>6. RegisterInv'
  BY <1>1, <1>2 DEF Known, RegisterInv, Deactivates, Own, Same, Live
<1>7. RelistInv'
  BY <1>1, <1>2 DEF Known, RelistInv, Trying, Deactivates, OwnAt, Own, Same
<1>8. WrittenInv'
  <2>1. EventIndex' = EventIndex
    BY <1>1 DEF EventIndex, Deactivates, M
  <2> QED
    BY <1>1, <1>2, <2>1 DEF Known, WrittenInv, Deactivates, OwnAt, Own, Same
<1>9. HeartbeatInv'
  BY <1>1, <1>2 DEF Known, HeartbeatInv, Deactivates, OwnAt, Own, Same
<1>10. ServedInv'
  <2>1. OneId(list) => OneId(list)'
    BY <1>1 DEF OneId
  <2>2. cache' # None /\ OneId(cache) => OneId(cache)'
    BY DEF OneId
  <2> QED
    BY <1>1, <1>2, <2>1, <2>2, StillAlone DEF Known, ServedInv
<1> QED
  BY <1>4, <1>5, <1>6, <1>7, <1>8, <1>9, <1>10 DEF Known

\* An attempt fails before registerModel is mined.
LEMMA AttemptKnown ==
  ASSUME Settled, Trying, AttemptFailed, UNCHANGED <<minerModels, clock, config, gaveUp>>
  PROVE  Known'
<1>1. IInv /\ ProcessOK /\ ProcessInv /\ Known /\ M' = M /\ clock \in Nat
  BY ArrayTypes DEF Settled, M
<1>2. /\ pc' \in {"bind", "heartbeat", "down"}
      /\ list' = <<>> /\ written' = None
      /\ pc' = "down" => index' = None /\ cache' = None
      /\ relisting' => pc' = "bind"
      /\ pc' = "bind" => relisting' = relisting /\ index' = index /\ cache' = cache
      /\ pc' = "heartbeat" => /\ relisting /\ index' = index /\ cache' = cache
                              /\ due' = clock /\ failing' = TRUE
  BY <1>1, AttemptFacts
<1>3. cache' # None => cache' = cache
  BY <1>2
<1>4. CacheInv'
  BY <1>1, <1>3 DEF Known, CacheInv
<1>5. ScanInv' /\ RegisterInv' /\ WrittenInv'
  BY <1>2 DEF ScanInv, RegisterInv, WrittenInv
<1>6. relisting => OwnAt(index) /\ M[index].expiresAt <= clock
  BY <1>1 DEF Known, RelistInv
<1>7. RelistInv'
  BY <1>1, <1>2, <1>6 DEF RelistInv, OwnAt, Own
<1>8. HeartbeatInv'
  <2>1. relisting => index # None
    BY <1>1, <1>6, ArrayTypes, LeaseAssumption DEF OwnAt
  <2> QED
    BY <1>1, <1>2, <1>6, <2>1 DEF HeartbeatInv, OwnAt, Own
<1>9. ServedInv'
  <2>1. OneId(list)'
    BY <1>2 DEF OneId
  <2>2. OneId(M) => OneId(M)'
    BY <1>1
  <2>3. cache' # None /\ OneId(cache) => OneId(cache)'
    BY <1>3
  <2>4. ServedAlone(DOMAIN M) => ServedAlone(DOMAIN M)'
    BY <1>1 DEF ServedAlone
  <2> QED
    BY <1>1, <1>2, <1>3, <2>1, <2>2, <2>3, <2>4 DEF Known, ServedInv
<1> QED
  BY <1>4, <1>5, <1>7, <1>8, <1>9 DEF Known

\* The process ends: nothing of what it knew is left.
LEMMA ExitsKnown ==
  ASSUME Settled, Exits, UNCHANGED <<minerModels, gaveUp>>
  PROVE  Known'
<1>1. /\ Known /\ pc' = "down" /\ cache' = None /\ list' = <<>> /\ ~relisting'
      /\ M' = M
  BY DEF Settled, Exits, LoopReset, M
<1>2. CacheInv' /\ ScanInv' /\ RegisterInv' /\ RelistInv' /\ WrittenInv' /\ HeartbeatInv'
  BY <1>1 DEF CacheInv, ScanInv, RegisterInv, RelistInv, WrittenInv, HeartbeatInv
<1>3. ServedInv'
  BY <1>1 DEF Known, ServedInv, OneId
<1> QED
  BY <1>2, <1>3 DEF Known

\* register_on_chain returns an index of its own with a lease to run, or none
\* because a deactivation was given up.
LEMMA ReturnedKnown ==
  ASSUME Settled, NEW i \in Indices \union {None}, Returned(i),
         UNCHANGED <<minerModels, clock, config, gaveUp>>,
         i = None => gaveUp /\ ~relisting,
         i # None => /\ OwnAt(i) /\ M[i].expiresAt > clock
                     /\ relisting => M[i].expiresAt = clock + Lease,
         ~gaveUp => ServedAlone(DOMAIN M)
  PROVE  Known'
<1>0. SUFFICES ASSUME ~Exits PROVE Known'
  BY ExitsKnown
<1>1. /\ IInv /\ ProcessOK /\ ProcessInv /\ Known /\ M' = M /\ clock \in Nat
      /\ DOMAIN M \subseteq Indices /\ \A j \in DOMAIN M : M[j].expiresAt \in Nat
  BY ArrayTypes DEF Settled, M
<1>2. /\ pc' = "heartbeat" /\ index' = i /\ failing' = FALSE
      /\ list' = <<>> /\ written' = None /\ relisting' = FALSE
      /\ cache' \in {cache, Listed}
      /\ relisting => due' = clock + Interval
      /\ ~relisting => \/ due' = clock
                       \/ i \in DOMAIN Listed /\ due' = Listed[i].expiresAt - Interval
  BY <1>0, <1>1, ReturnedFacts
<1>3. /\ Interval \in Nat \ {0} /\ Lease \in Nat /\ Interval < Lease
      /\ None \notin DOMAIN M /\ None \notin DOMAIN Listed
  BY <1>1, ListedType, LeaseAssumption, RegistryAssumption DEF Indices
<1>4. /\ Earlier(Listed, M) /\ (~gaveUp => OneId(Listed))
      /\ \A j \in DOMAIN Listed : Listed[j].expiresAt \in Nat
  BY <1>1, Reading, ListedType
<1>5. CacheInv'
  <2>1. cache' # None => Earlier(cache', M)
    BY <1>1, <1>2, <1>4 DEF Known, CacheInv
  <2>2. ~(index' \in DOMAIN M /\ M[index'].expiresAt <= clock)
    BY <1>1, <1>2, <1>3 DEF OwnAt
  <2> QED
    BY <1>1, <1>2, <2>1, <2>2 DEF CacheInv, Trying
<1>6. ScanInv' /\ RegisterInv' /\ WrittenInv' /\ RelistInv'
  BY <1>2 DEF ScanInv, RegisterInv, WrittenInv, RelistInv
<1>7. HeartbeatInv'
  <2>1. CASE i = None
    BY <1>1, <1>2, <1>3, <2>1 DEF HeartbeatInv
  <2>2. CASE i # None
    <3>1. OwnAt(index)'
      BY <1>1, <1>2, <2>2 DEF OwnAt, Own
    <3>2. due' > clock => M[i].expiresAt > due'
      <4>1. CASE relisting
        BY <1>1, <1>2, <1>3, <2>2, <4>1
      <4>2. CASE ~relisting /\ due' = clock
        BY <1>1, <4>2
      <4>3. CASE i \in DOMAIN Listed /\ due' = Listed[i].expiresAt - Interval
        <5>1. Listed[i].expiresAt <= M[i].expiresAt /\ i \in DOMAIN M
          BY <1>4, <2>2, <4>3 DEF Earlier, OwnAt
        <5> QED
          BY <1>1, <1>3, <1>4, <4>3, <5>1
      <4> QED
        BY <1>2, <4>1, <4>2, <4>3
    <3> QED
      BY <1>1, <1>2, <2>2, <3>1, <3>2 DEF HeartbeatInv
  <2> QED
    BY <2>1, <2>2
<1>8. ServedInv'
  <2>1. OneId(list)'
    BY <1>2 DEF OneId
  <2>2. ~gaveUp => OneId(M)'
    BY <1>1 DEF Known, ServedInv
  <2>3. cache' # None /\ ~gaveUp => OneId(cache')
    BY <1>1, <1>2, <1>4 DEF Known, ServedInv
  <2>4. ~gaveUp => ServedAlone(DOMAIN M)'
    BY <1>1 DEF ServedAlone
  <2> QED
    BY <1>2, <2>1, <2>2, <2>3, <2>4 DEF ServedInv
<1> QED
  BY <1>5, <1>6, <1>7, <1>8 DEF Known

\* A fresh process: what an earlier one left is known unless it was disturbed.
LEMMA StartKnown ==
  ASSUME IInv, ProcessOK, ProcessInv, ~disturbed => Known, Start
  PROVE  Known'
<1>1. /\ pc = "down" /\ pc' = "bind" /\ M' = M
      /\ UNCHANGED <<relisting, list, cache>>
      /\ gaveUp' = (gaveUp \/ disturbed)
  BY DEF Start, registerVars, registryVars, modelVars, M
<1>2. cache = None /\ list = <<>> /\ ~relisting
  BY <1>1 DEF ProcessInv, Trying
<1>3. CacheInv' /\ ScanInv' /\ RegisterInv' /\ RelistInv' /\ WrittenInv' /\ HeartbeatInv'
  BY <1>1, <1>2
  DEF CacheInv, ScanInv, RegisterInv, RelistInv, WrittenInv, HeartbeatInv
<1>4. ServedInv'
  <2>1. ~gaveUp' => OneId(M)
    BY <1>1 DEF Known, ServedInv
  <2>2. OneId(list)'
    BY <1>1, <1>2 DEF OneId
  <2> QED
    BY <1>1, <1>2, <2>1, <2>2 DEF ServedInv
<1> QED
  BY <1>3, <1>4 DEF Known

\* _ensure_evm_registered
LEMMA BindKnown ==
  ASSUME Settled, NEW reached \in BOOLEAN, Bind(reached)
  PROVE  Known'
<1>1. /\ pc = "bind" /\ Trying /\ UNCHANGED <<config, gaveUp>>
      /\ IInv /\ ProcessOK /\ ProcessInv /\ Known
  BY DEF Bind, Trying, Settled
<1>2. UNCHANGED <<minerModels, clock>>
  BY DEF Bind, RegisterEvm, registryVars, modelVars
<1>3. M' = M
  BY <1>2 DEF M
<1>4. CASE reached /\ Lookup[Miner] \in {None, Uid}
  <2>1. /\ pc' = "read" /\ UNCHANGED <<attempt, relisting, list, at, match, written,
                                       index, due, failing, cache>>
    BY <1>4 DEF Bind, registerVars, heartbeatVars
  <2>2. CacheInv' /\ RelistInv'
    BY <1>1, <1>2, <1>3, <2>1 DEF Known, CacheInv, RelistInv, Trying, OwnAt, Own
  <2>3. ScanInv' /\ RegisterInv' /\ WrittenInv' /\ HeartbeatInv'
    BY <2>1 DEF ScanInv, RegisterInv, WrittenInv, HeartbeatInv
  <2>4. ServedInv'
    BY <1>1, <1>2, <1>3, <2>1 DEF Known, ServedInv, OneId, ServedAlone
  <2> QED
    BY <2>2, <2>3, <2>4 DEF Known
<1>5. CASE ~(reached /\ Lookup[Miner] \in {None, Uid})
  BY <1>1, <1>2, <1>5, AttemptKnown DEF Bind
<1> QED
  BY <1>4, <1>5

\* check_existing_registration reads the array, or the cache that stands for it.
LEMMA ReadKnown ==
  ASSUME Settled, NEW reached \in BOOLEAN, Read(reached)
  PROVE  Known'
<1>1. /\ pc = "read" /\ Trying /\ UNCHANGED <<minerModels, clock, config, gaveUp>>
      /\ IInv /\ ProcessOK /\ ProcessInv /\ Known
  BY DEF Read, Trying, Settled, registryVars, modelVars
<1>2. M' = M
  BY <1>1 DEF M
<1>3. CASE reached \/ cache # None
  <2>1. /\ pc' = "scan" /\ list' = Listed /\ cache' = Listed
        /\ UNCHANGED <<attempt, relisting, at, match, written, index, due, failing>>
    BY <1>3 DEF Read, heartbeatVars
  <2>2. at = 1 /\ match = None
    BY <1>1 DEF ProcessInv
  <2>3. Earlier(Listed, M) /\ Deactivates(Listed, M) /\ (~gaveUp => OneId(Listed))
    BY <1>1, Reading
  <2>4. CacheInv'
    BY <1>2, <2>1, <2>3 DEF CacheInv
  <2>5. ScanInv'
    <3>1. \A i \in DOMAIN M : ~(i < 1)
      BY <1>1, ArrayTypes
    <3> QED
      BY <1>2, <2>1, <2>2, <2>3, <3>1 DEF ScanInv, ServedAlone
  <2>6. RelistInv'
    BY <1>1, <1>2, <2>1 DEF Known, RelistInv, Trying, OwnAt, Own
  <2>7. RegisterInv' /\ WrittenInv' /\ HeartbeatInv'
    BY <2>1 DEF RegisterInv, WrittenInv, HeartbeatInv
  <2>8. ServedInv'
    BY <1>1, <1>2, <2>1, <2>3 DEF Known, ServedInv, ServedAlone
  <2> QED
    BY <2>4, <2>5, <2>6, <2>7, <2>8 DEF Known
<1>4. CASE ~(reached \/ cache # None)
  BY <1>1, <1>4, AttemptKnown DEF Read
<1> QED
  BY <1>3, <1>4

\* One turn of check_existing_registration's loop, on an entry of the list as it
\* stands in the array but for its flag.
LEMMA ScanKnown ==
  ASSUME Settled, NEW reached \in BOOLEAN, Scan(reached)
  PROVE  Known'
<1>1. /\ IInv /\ ProcessOK /\ ProcessInv /\ Known /\ pc = "scan" /\ Trying
      /\ Deactivates(list, M) /\ at <= Len(list)
  BY DEF Settled, Scan, Trying, Known, ScanInv
<1>2. UNCHANGED <<config, relisting, list, written, index, due, failing, cache>>
  BY DEF Scan, heartbeatVars
<1>3. /\ M \in Seq(Entry) /\ list \in Seq(Entry) /\ Len(list) \in Nat
      /\ DOMAIN list = 1..Len(list) /\ at \in DOMAIN list /\ at \in Nat
      /\ DOMAIN M = DOMAIN list /\ at \in Indices /\ clock \in Nat
      /\ DOMAIN M \subseteq Nat /\ None \notin DOMAIN M
      /\ \A i \in DOMAIN M : M[i].expiresAt \in Nat
  <2>1. /\ list \in Seq(Entry) /\ at \in 1..(Len(list) + 1) /\ Len(list) <= Len(list)
    BY <1>1 DEF ProcessOK
  <2>2. DOMAIN M = DOMAIN list /\ DOMAIN M \subseteq Indices /\ Indices \subseteq Nat
    BY <1>1, ArrayTypes DEF Deactivates, Indices
  <2> QED
    BY <1>1, <2>1, <2>2, ArrayTypes, LeaseAssumption
<1>4. clock' = clock /\ Deactivates(M, M')
      /\ (~gaveUp' => ~gaveUp /\ (Obsolete(list[at]) => ~M'[at].active))
  <2>1. CASE UNCHANGED <<registryVars, gaveUp>> /\ ~Obsolete(list[at])
    BY <2>1 DEF registryVars, modelVars, Deactivates, Same, M
  <2>2. CASE UNCHANGED registryVars /\ gaveUp' = TRUE
    BY <2>2 DEF registryVars, modelVars, Deactivates, Same, M
  <2>3. CASE DeactivateModel(Miner, at) /\ UNCHANGED gaveUp
    <3>1. Deactivates(M, M') /\ ~M'[at].active
      BY <1>1, <1>3, <2>3, DeactivateArray
    <3> QED
      BY <2>3, <3>1 DEF DeactivateModel
  <2> QED
    BY <2>1, <2>2, <2>3 DEF Scan, DeactivateListed
<1>5. /\ Deactivates(list, M') /\ DOMAIN M' = DOMAIN M
      /\ \A i \in DOMAIN M :
           /\ M'[i].model = M[i].model /\ M'[i].endpoint = M[i].endpoint
           /\ M'[i].expiresAt = M[i].expiresAt /\ (M'[i].active => M[i].active)
           /\ list[i].model = M[i].model /\ list[i].endpoint = M[i].endpoint
           /\ list[i].expiresAt = M[i].expiresAt /\ (M[i].active => list[i].active)
  <2>1. Deactivates(list, M')
    BY <1>1, <1>4, DeactivatesTrans
  <2> QED
    BY <1>1, <1>4, <2>1 DEF Deactivates, Same
<1>6. \A i, j \in DOMAIN M : Own(M[i]) /\ Own(M[j]) => i = j
  BY DEF Settled, UniqueEntry, Own, Same, M
<1>7. \/ pc' = "register" /\ OwnExpired(list[at])
      \/ pc' = "scan" /\ at' = at + 1 /\ ~OwnExpired(list[at])
  BY <1>1 DEF Scan
<1>8. CacheInv'
  <2>1. cache # None => cache \in Seq(Entry) /\ Earlier(cache, M) /\ Deactivates(cache, M)
    BY <1>1 DEF ProcessInv, Known, CacheInv
  <2>2. cache # None => Deactivates(cache, M') /\ Earlier(cache, M')
    BY <1>3, <1>4, <2>1, DeactivatesTrans, EarlierTrans, DeactivatesEarlier
  <2> QED
    BY <1>2, <2>2 DEF CacheInv
<1>9. ScanInv'
  <2> SUFFICES ASSUME pc' = "scan" PROVE ScanInv'
    BY DEF ScanInv
  <2>1. at' = at + 1
    BY <1>7
  <2>2. /\ match # None => match < at /\ OwnAt(match) /\ M[match].expiresAt > clock
        /\ ~gaveUp => /\ \A i \in DOMAIN M : i < at /\ Live(M[i]) /\ OwnAt(i) => match = i
                      /\ ServedAlone({i \in DOMAIN M : i < at})
    BY <1>1 DEF Known, ScanInv
  <2>3. match' = IF Reusable(list[at]) THEN at ELSE match
    BY DEF Scan
  <2>4. Reusable(list[at]) => Own(M[at]) /\ M[at].expiresAt > clock
    BY <1>3, <1>5 DEF Reusable, Obsolete, Own, Same
  <2>5. match' # None => match' < at' /\ match' \in DOMAIN M /\ Own(M[match'])
                         /\ M[match'].expiresAt > clock
    <3>1. CASE Reusable(list[at])
      BY <1>3, <2>1, <2>3, <2>4, <3>1
    <3>2. CASE ~Reusable(list[at])
      BY <1>3, <2>1, <2>2, <2>3, <3>2 DEF OwnAt
    <3> QED
      BY <3>1, <3>2
  <2>6. match' # None => match' < at' /\ OwnAt(match)' /\ M'[match'].expiresAt > clock'
    BY <1>2, <1>4, <1>5, <2>5 DEF OwnAt, Own, Same
  <2>7. ASSUME ~gaveUp', NEW i \in DOMAIN M', i < at', Live(M[i])', OwnAt(i)'
        PROVE  match' = i
    <3>1. i \in DOMAIN M /\ Live(M[i]) /\ Own(M[i]) /\ M'[i].active
      BY <1>2, <1>4, <1>5, <2>7 DEF Live, OwnAt, Own, Same
    <3>2. CASE i < at
      <4>1. match = i
        BY <1>4, <2>2, <2>7, <3>1, <3>2 DEF OwnAt
      <4>2. ~Reusable(list[at])
        BY <1>3, <1>6, <2>4, <3>1, <3>2
      <4> QED
        BY <2>3, <4>1, <4>2
    <3>3. CASE i = at
      <4>1. ~Obsolete(list[at])
        BY <1>4, <2>7, <3>1, <3>3
      <4>2. Reusable(list[at])
        BY <1>5, <3>1, <3>3, <4>1 DEF Reusable, Live, Own, Same
      <4> QED
        BY <2>3, <3>3, <4>2
    <3> QED
      BY <1>3, <2>1, <2>7, <3>1, <3>2, <3>3
  <2>8. ASSUME ~gaveUp', NEW i \in DOMAIN M', i < at', M'[i].active,
               M'[i].endpoint = config.endpoint
        PROVE  ModelId[M'[i].model] = ModelId[config.model]
    <3>1. i \in DOMAIN M /\ M[i].active /\ M[i].endpoint = config.endpoint
      BY <1>5, <2>8
    <3>2. CASE i < at
      BY <1>4, <1>5, <2>2, <2>8, <3>1, <3>2 DEF ServedAlone
    <3>3. CASE i = at
      BY <1>4, <1>5, <2>8, <3>1, <3>3 DEF Obsolete
    <3> QED
      BY <1>3, <2>1, <2>8, <3>1, <3>2, <3>3
  <2>9. ~gaveUp' => ServedAlone({i \in DOMAIN M : i < at})'
    BY <1>2, <2>8 DEF ServedAlone
  <2> QED
    BY <1>2, <1>5, <2>6, <2>7, <2>9 DEF ScanInv
<1>10. OwnExpired(list[at]) =>
         Own(M[at]) /\ M[at].expiresAt <= clock /\ list[at].active
  BY <1>3, <1>5 DEF OwnExpired, Own, Same
<1>11. RegisterInv'
  <2> SUFFICES ASSUME pc' = "register", NEW i \in DOMAIN M', Live(M[i])', Own(M[i])'
               PROVE  FALSE
    BY DEF RegisterInv
  <2>1. i \in DOMAIN M /\ Own(M[i]) /\ M[i].expiresAt > clock
    BY <1>2, <1>4, <1>5 DEF Live, Own, Same
  <2>2. i = at
    BY <1>3, <1>6, <1>7, <1>10, <2>1
  <2> QED
    BY <1>3, <1>7, <1>10, <2>1, <2>2
<1>12. RelistInv'
  BY <1>1, <1>2, <1>4, <1>5 DEF Known, RelistInv, OwnAt, Own, Same
<1>13. WrittenInv' /\ HeartbeatInv'
  BY <1>7 DEF WrittenInv, HeartbeatInv
<1>14. ServedInv'
  <2> SUFFICES ASSUME ~gaveUp' PROVE ServedInv'
    BY DEF ServedInv
  <2>1. ~gaveUp /\ OneId(M) /\ OneId(list) /\ (cache # None => OneId(cache))
    BY <1>1, <1>4 DEF Known, ServedInv
  <2>2. OneId(M)' /\ (ServedAlone(DOMAIN M) => ServedAlone(DOMAIN M)')
    BY <1>2, <1>4, <2>1, StillAlone
  <2>3. relisting => ServedAlone(DOMAIN M)'
    BY <1>1, <2>1, <2>2 DEF Known, ServedInv
  <2>4. OwnExpired(list[at]) => ServedAlone(DOMAIN M)'
    <3> SUFFICES ASSUME OwnExpired(list[at]), NEW i \in DOMAIN M', M'[i].active,
                        M'[i].endpoint = config.endpoint
                 PROVE  ModelId[M'[i].model] = ModelId[config.model]
      BY <1>2 DEF ServedAlone
    <3>1. /\ i \in DOMAIN list /\ list[i].active /\ list[i].endpoint = config.endpoint
          /\ list[i].model = M'[i].model
      BY <1>3, <1>5
    <3>2. /\ list[at].active /\ list[at].endpoint = config.endpoint
          /\ list[at].model = config.model
      BY <1>3, <1>5, <1>10 DEF Own, Same
    <3> QED
      BY <1>3, <2>1, <3>1, <3>2 DEF OneId
  <2> QED
    BY <1>2, <1>7, <2>1, <2>2, <2>3, <2>4 DEF ServedInv
<1> QED
  BY <1>8, <1>9, <1>11, <1>12, <1>13, <1>14 DEF Known

\* No second match: the array has one entry of the process's own, and the list
\* is the array but for its flags.
LEMMA NoSecondMatch ==
  ASSUME Settled, NEW reached \in BOOLEAN, DropOlder(reached)
  PROVE  FALSE
<1>1. /\ pc = "scan" /\ at <= Len(list) /\ match # None /\ Own(list[at])
      /\ Known /\ ProcessOK
  BY DEF DropOlder, SecondMatch, Settled
<1>2. Deactivates(list, M) /\ match < at /\ OwnAt(match)
  BY <1>1 DEF Known, ScanInv
<1>3. at \in DOMAIN list /\ at \in Nat
  BY <1>1 DEF ProcessOK
<1>4. OwnAt(at)
  BY <1>1, <1>2, <1>3 DEF Deactivates, OwnAt, Own, Same
<1>5. match = at
  BY <1>2, <1>4 DEF Settled, UniqueEntry, OwnAt, Own, Same, M
<1> QED
  BY <1>2, <1>3, <1>5

\* --update-endpoint fails to move an entry: the scan passes over it.
LEMMA PassedKnown ==
  ASSUME Settled, NEW reached \in BOOLEAN, Move(reached), ~moved'
  PROVE  Known'
<1>1. /\ IInv /\ ProcessOK /\ ProcessInv /\ Known /\ pc = "scan" /\ at <= Len(list)
      /\ list[at].endpoint # config.endpoint /\ at' = at + 1
      /\ UNCHANGED <<minerModels, clock, match>>
      /\ UNCHANGED <<pc, config, relisting, list, written, index, due, failing, cache,
                     gaveUp>>
  BY DEF Settled, Move, Movable, registryVars, modelVars, heartbeatVars
<1>2. M' = M /\ Deactivates(list, M)
  BY <1>1 DEF M, Known, ScanInv
<1>3. at \in DOMAIN list /\ at \in Nat /\ DOMAIN M = DOMAIN list /\ DOMAIN M \subseteq Nat
  BY <1>1, <1>2 DEF ProcessOK, Deactivates
<1>4. M[at].endpoint # config.endpoint
  BY <1>1, <1>2, <1>3 DEF Deactivates, Same
<1>5. ScanInv'
  <2>1. match # None => match < at /\ match \in DOMAIN M
    BY <1>1 DEF Known, ScanInv, OwnAt
  <2>2. match # None => match < at + 1
    BY <1>3, <2>1
  <2>3. \A i \in DOMAIN M : i < at + 1 => i < at \/ i = at
    BY <1>3
  <2> QED
    BY <1>1, <1>2, <1>4, <2>2, <2>3
    DEF Known, ScanInv, OwnAt, Own, Same, Live, ServedAlone
<1>6. CacheInv' /\ RelistInv'
  BY <1>1, <1>2 DEF Known, CacheInv, RelistInv, Trying, OwnAt, Own
<1>7. RegisterInv' /\ WrittenInv' /\ HeartbeatInv'
  BY <1>1 DEF RegisterInv, WrittenInv, HeartbeatInv
<1>8. ServedInv'
  BY <1>1, <1>2 DEF Known, ServedInv, OneId, ServedAlone
<1> QED
  BY <1>5, <1>6, <1>7, <1>8 DEF Known

\* check_existing_registration's loop has run out: what it found is returned,
\* and if it found nothing there is nothing live to find.
LEMMA ScannedKnown ==
  ASSUME Settled, Scanned
  PROVE  Known'
<1>1. /\ IInv /\ ProcessOK /\ ProcessInv /\ Known /\ pc = "scan" /\ Trying
      /\ Deactivates(list, M) /\ at > Len(list)
      /\ UNCHANGED <<minerModels, clock, config, gaveUp>>
  BY DEF Settled, Scanned, Trying, Known, ScanInv, registryVars, modelVars
<1>2. /\ M' = M /\ clock \in Nat /\ \A i \in DOMAIN M : i < at
      /\ \A i \in DOMAIN M : M[i].expiresAt \in Nat
  <2>1. /\ Len(list) \in Nat /\ at \in 1..(Len(list) + 1) /\ DOMAIN M = 1..Len(list)
    BY <1>1, ArrayTypes DEF ProcessOK, Deactivates
  <2> QED
    BY <1>1, <2>1, ArrayTypes DEF M
<1>3. /\ match # None => OwnAt(match) /\ M[match].expiresAt > clock
      /\ ~gaveUp => /\ \A i \in DOMAIN M : Live(M[i]) /\ OwnAt(i) => match = i
                    /\ ServedAlone(DOMAIN M)
  BY <1>1, <1>2 DEF Known, ScanInv, ServedAlone
<1>4. CASE match # None
  <2>1. ~relisting
    <3> SUFFICES ASSUME relisting PROVE FALSE
      OBVIOUS
    <3>1. OwnAt(index) /\ M[index].expiresAt <= clock
      BY <1>1 DEF Known, RelistInv
    <3>2. index = match
      BY <1>3, <1>4, <3>1 DEF Settled, UniqueEntry, OwnAt, Own, Same, M
    <3> QED
      BY <1>2, <1>3, <1>4, <3>1, <3>2 DEF OwnAt
  <2>2. Returned(match) /\ match \in Indices \union {None}
    BY <1>1, <1>4 DEF Scanned, ProcessOK
  <2> QED
    BY <1>1, <1>3, <1>4, <2>1, <2>2, ReturnedKnown
<1>5. CASE match = None
  <2>1. /\ pc' = "register"
        /\ UNCHANGED <<relisting, list, at, match, written, index, due, failing, cache>>
    BY <1>5 DEF Scanned, registerVars, heartbeatVars
  <2>2. CacheInv' /\ RelistInv'
    BY <1>1, <1>2, <2>1 DEF Known, CacheInv, RelistInv, Trying, OwnAt, Own
  <2>3. RegisterInv'
    <3>1. ~gaveUp => \A i \in DOMAIN M : ~(Live(M[i]) /\ Own(M[i]))
      <4>1. None \notin DOMAIN M
        BY <1>1, ArrayTypes, LeaseAssumption
      <4> QED
        BY <1>3, <1>5, <4>1 DEF OwnAt
    <3> QED
      BY <1>1, <1>2, <3>1 DEF RegisterInv, Live, Own
  <2>4. ScanInv' /\ WrittenInv' /\ HeartbeatInv'
    BY <2>1 DEF ScanInv, WrittenInv, HeartbeatInv
  <2>5. ServedInv'
    BY <1>1, <1>2, <1>3, <2>1 DEF Known, ServedInv, OneId, ServedAlone
  <2> QED
    BY <2>2, <2>3, <2>4, <2>5 DEF Known
<1> QED
  BY <1>4, <1>5

\* registerModel is mined with its receipt, or fails.
LEMMA RegisterKnown ==
  ASSUME Unseen = FALSE, Settled, NEW reached \in BOOLEAN, Register(reached)
  PROVE  Known'
<1>1. /\ IInv /\ ProcessOK /\ ProcessInv /\ Known /\ pc = "register" /\ Trying
      /\ UNCHANGED <<config, gaveUp>>
  BY DEF Settled, Register, Trying
<1>2. /\ M \in Seq(Entry) /\ Len(M) \in Nat /\ DOMAIN M = 1..Len(M)
      /\ DOMAIN M \subseteq Indices /\ clock \in Nat /\ Lease \in Nat \ {0}
      /\ None \notin Nat
      /\ \A i \in DOMAIN M : M[i].expiresAt \in Nat /\ M[i].expiresAt <= clock + Lease
  BY <1>1, ArrayTypes, LeaseAssumption, RegistryAssumption
<1>3. CASE reached /\ MayRegister
  <2> DEFINE found == Reactivatable(Miner, config.model, config.endpoint)
  <2>1. /\ RegisterModel(Miner, config.model, config.endpoint, config.ctx)
        /\ pc' = "index" /\ written' = IF found = {} THEN None ELSE Min(found)
        /\ UNCHANGED <<relisting, list, at, match, index, due, failing, cache>>
    BY <1>3 DEF Register, heartbeatVars
  <2>2. /\ config.model \in Models /\ config.endpoint \in Endpoints
        /\ config.ctx \in Contexts
    BY <1>1 DEF ProcessOK, Configs
  <2>3. PICK i \in Indices : Registers(M, M', found, config.model, config.endpoint, i)
    BY <1>1, <2>1, <2>2, RegisterArray
  <2>4. \A j \in found : j \in DOMAIN M /\ Same(M[j], config.model, config.endpoint)
    BY DEF Reactivatable, M
  <2>5. clock' = clock
    BY <2>1 DEF RegisterModel
  <2>7. EventIndex' = i
    BY <1>1, <2>1, <2>3, <2>4, EventIsWritten
  <2>8. /\ DOMAIN M' = DOMAIN M \union {i} /\ i \in DOMAIN M'
        /\ Same(M'[i], config.model, config.endpoint)
        /\ M'[i].expiresAt = clock + Lease
        /\ \A j \in DOMAIN M : j # i => M'[j] = M[j]
        /\ Len(M') \in Nat /\ Len(M) <= Len(M')
    <3>1. Len(M') = Len(M) + 1 \/ Len(M') = Len(M)
      BY <2>3 DEF Registers
    <3>2. Len(M') \in Nat /\ Len(M) <= Len(M')
      BY <1>2, <3>1
    <3> QED
      BY <2>3, <3>2 DEF Registers
  <2>9. i \in DOMAIN M => Same(M[i], config.model, config.endpoint)
    <3>1. found = {} => i \notin DOMAIN M
      BY <1>2, <2>3 DEF Registers
    <3>2. i \in found \/ found = {}
      BY <2>3 DEF Registers
    <3> QED
      BY <2>4, <3>1, <3>2
  <2> HIDE DEF found
  <2>10. Earlier(M, M') /\ \A j \in DOMAIN M : M'[j].expiresAt \in Nat
    BY <1>2, <2>8, <2>9 DEF Earlier, Same
  <2>11. CacheInv'
    <3>1. cache # None => cache \in Seq(Entry) /\ Earlier(cache, M)
      BY <1>1 DEF ProcessInv, Known, CacheInv
    <3>2. cache # None => Earlier(cache, M')
      BY <1>2, <2>8, <2>10, <3>1, EarlierTrans
    <3> QED
      BY <2>1, <3>2 DEF CacheInv, Trying
  <2>12. ScanInv' /\ RegisterInv' /\ RelistInv' /\ HeartbeatInv'
    BY <2>1 DEF ScanInv, RegisterInv, RelistInv, HeartbeatInv, Trying
  <2>13. WrittenInv'
    BY <1>1, <2>5, <2>7, <2>8 DEF WrittenInv, OwnAt, Own, Same
  <2>14. ServedInv'
    <3> SUFFICES ASSUME ~gaveUp PROVE ServedInv'
      BY <1>1 DEF ServedInv
    <3>1. /\ OneId(M) /\ OneId(list) /\ (cache # None => OneId(cache))
          /\ ServedAlone(DOMAIN M)
      BY <1>1 DEF Known, ServedInv
    <3>2. OneId(M)' /\ ServedAlone(DOMAIN M)'
      BY <1>1, <2>8, <3>1, OwnWritten
    <3> QED
      BY <2>1, <3>1, <3>2 DEF ServedInv
  <2> QED
    BY <2>11, <2>12, <2>13, <2>14 DEF Known
<1>4. CASE ~(reached /\ MayRegister)
  <2>1. UNCHANGED <<minerModels, clock>> /\ M' = M
    BY <1>4 DEF Register, registryVars, modelVars, M
  <2>2. CASE AttemptFailed
    BY <1>1, <2>1, <2>2, AttemptKnown
  <2>3. CASE Returned(None) /\ Duplicate(Miner, config.model, config.endpoint)
    <3>1. PICK j \in DOMAIN M : Live(M[j]) /\ Own(M[j])
      BY <2>3 DEF Duplicate, Own, M
    <3>2. gaveUp
      BY <1>1, <3>1 DEF Known, RegisterInv
    <3>3. ~relisting
      <4> SUFFICES ASSUME relisting PROVE FALSE
        OBVIOUS
      <4>1. OwnAt(index) /\ M[index].expiresAt <= clock
        BY <1>1 DEF Known, RelistInv
      <4>2. index = j
        BY <3>1, <4>1 DEF Settled, UniqueEntry, OwnAt, Own, Same, M
      <4> QED
        BY <1>2, <3>1, <4>1, <4>2 DEF Live
    <3> QED
      BY <1>1, <2>1, <2>3, <3>2, <3>3, ReturnedKnown
  <2> QED
    BY <1>4, <2>2, <2>3 DEF Register
<1> QED
  BY <1>3, <1>4

\* The receipt's index is the entry that registerModel wrote.
LEMMA IndexKnown ==
  ASSUME Unseen = FALSE, Settled, Index
  PROVE  Known'
<1>1. /\ IInv /\ ProcessOK /\ ProcessInv /\ Known /\ pc = "index"
      /\ UNCHANGED <<minerModels, clock, config, gaveUp>> /\ Returned(EventIndex)
  BY DEF Settled, Index, registryVars, modelVars
<1>2. /\ OwnAt(EventIndex) /\ M[EventIndex].expiresAt = clock + Lease
      /\ ~gaveUp => ServedAlone(DOMAIN M)
  BY <1>1 DEF Known, WrittenInv, ServedInv
<1>3. EventIndex \in Indices /\ EventIndex # None
  BY <1>1, <1>2, ArrayTypes, LeaseAssumption DEF OwnAt, Indices
<1>4. clock + Lease > clock
  BY <1>1, ArrayTypes, RegistryAssumption
<1> QED
  BY <1>1, <1>2, <1>3, <1>4, ReturnedKnown

\* renewModel on the process's own index.
LEMMA RenewKnown ==
  ASSUME Settled, NEW reached \in BOOLEAN, Renew(reached)
  PROVE  Known'
<1>1. /\ IInv /\ ProcessOK /\ ProcessInv /\ Known /\ pc = "heartbeat"
      /\ UNCHANGED <<config, gaveUp, cache>>
  BY DEF Settled, Renew
<1>2. /\ M \in Seq(Entry) /\ Len(M) \in Nat /\ DOMAIN M = 1..Len(M)
      /\ DOMAIN M \subseteq Indices /\ clock \in Nat /\ Lease \in Nat
      /\ Interval \in Nat \ {0} /\ Interval < Lease
      /\ \A i \in DOMAIN M : M[i].expiresAt \in Nat /\ M[i].expiresAt <= clock + Lease
  BY <1>1, ArrayTypes, LeaseAssumption, RegistryAssumption
<1>3. CASE reached /\ index # None /\ Renewable(Miner, index)
  <2>1. /\ RenewModel(Miner, index)
        /\ due' = clock + Interval \/ due' = clock
        /\ UNCHANGED <<pc, attempt, relisting, list, at, match, written, index>>
    BY <1>3 DEF Renew, registerVars
  <2>2. index \in Indices /\ clock' = clock
    BY <1>1, <1>3, <2>1 DEF ProcessOK, RenewModel
  <2>3. /\ Len(M') = Len(M) /\ DOMAIN M' = DOMAIN M /\ index \in DOMAIN M
        /\ Same(M'[index], M[index].model, M[index].endpoint)
        /\ M'[index].expiresAt = clock + Lease
        /\ \A j \in DOMAIN M : j # index => M'[j] = M[j]
    BY <1>1, <2>1, <2>2, RenewArray
  <2>4. OwnAt(index)
    BY <1>1, <1>3 DEF Known, HeartbeatInv
  <2>5. Earlier(M, M') /\ Len(M') \in Nat /\ \A j \in DOMAIN M : M'[j].expiresAt \in Nat
    <3>1. \A j \in DOMAIN M :
            /\ Same(M[j], M'[j].model, M'[j].endpoint)
            /\ M[j].expiresAt <= M'[j].expiresAt /\ M'[j].expiresAt \in Nat
      <4> TAKE j \in DOMAIN M
      <4>1. CASE j = index
        BY <1>2, <2>3, <4>1 DEF Same
      <4>2. CASE j # index
        BY <1>2, <2>3, <4>2 DEF Same
      <4> QED
        BY <4>1, <4>2
    <3> QED
      BY <1>2, <2>3, <3>1 DEF Earlier
  <2>6. CacheInv'
    <3>1. cache # None => cache \in Seq(Entry) /\ Earlier(cache, M)
      BY <1>1 DEF ProcessInv, Known, CacheInv
    <3>2. cache # None => Earlier(cache, M')
      BY <1>2, <2>5, <3>1, EarlierTrans
    <3>3. ~(clock + Lease <= clock)
      BY <1>2
    <3> QED
      BY <1>1, <2>1, <2>2, <2>3, <3>2, <3>3 DEF CacheInv, Trying
  <2>7. ScanInv' /\ RegisterInv' /\ RelistInv' /\ WrittenInv'
    BY <1>1, <2>1 DEF ScanInv, RegisterInv, RelistInv, WrittenInv, Trying
  <2>8. HeartbeatInv'
    <3>1. OwnAt(index)'
      BY <1>1, <2>1, <2>3, <2>4 DEF OwnAt, Own, Same
    <3>2. clock + Lease > due'
      BY <1>2, <2>1
    <3> QED
      BY <1>3, <2>1, <2>3, <3>1, <3>2 DEF HeartbeatInv
  <2>9. ServedInv'
    <3> SUFFICES ASSUME ~gaveUp PROVE ServedInv'
      BY <1>1 DEF ServedInv
    <3>1. /\ OneId(M) /\ OneId(list) /\ (cache # None => OneId(cache))
          /\ ServedAlone(DOMAIN M)
      BY <1>1 DEF Known, ServedInv
    <3>2. /\ DOMAIN M' = DOMAIN M \union {index}
          /\ Same(M'[index], config.model, config.endpoint)
      BY <2>3, <2>4 DEF OwnAt, Own, Same
    <3>3. OneId(M)' /\ ServedAlone(DOMAIN M)'
      BY <1>1, <2>3, <3>1, <3>2, OwnWritten
    <3> QED
      BY <1>1, <2>1, <3>1, <3>3 DEF ServedInv
  <2> QED
    BY <2>6, <2>7, <2>8, <2>9 DEF Known
<1>4. CASE ~(reached /\ index # None /\ Renewable(Miner, index))
  <2>1. UNCHANGED <<minerModels, clock>> /\ M' = M
    BY <1>4 DEF Renew, registryVars, modelVars, M
  <2>2. CASE /\ LeaseEnded /\ index # None /\ pc' = "bind" /\ relisting' = TRUE
             /\ UNCHANGED <<attempt, list, at, match, written, heartbeatVars>>
    <3>1. /\ UNCHANGED <<list, written, index>> /\ OwnAt(index)
          /\ M[index].expiresAt <= clock
      BY <1>1, <2>2 DEF LeaseEnded, heartbeatVars, Known, HeartbeatInv, M
    <3>2. CacheInv' /\ RelistInv'
      BY <1>1, <2>1, <2>2, <3>1 DEF Known, CacheInv, RelistInv, OwnAt, Own
    <3>3. ScanInv' /\ RegisterInv' /\ WrittenInv' /\ HeartbeatInv'
      BY <2>2 DEF ScanInv, RegisterInv, WrittenInv, HeartbeatInv
    <3>4. ServedInv'
      BY <1>1, <2>1, <3>1 DEF Known, ServedInv, OneId, ServedAlone
    <3> QED
      BY <3>2, <3>3, <3>4 DEF Known
  <2>3. CASE failing' = TRUE /\ due' = clock /\ UNCHANGED <<pc, registerVars, index>>
    <3>1. UNCHANGED <<pc, relisting, list, written, index>>
      BY <2>3 DEF registerVars
    <3>2. CacheInv'
      BY <1>1, <2>1, <3>1 DEF Known, CacheInv, Trying
    <3>3. HeartbeatInv'
      BY <1>1, <1>2, <2>1, <2>3, <3>1 DEF Known, HeartbeatInv, OwnAt, Own
    <3>4. ScanInv' /\ RegisterInv' /\ WrittenInv' /\ RelistInv'
      BY <1>1, <3>1 DEF ScanInv, RegisterInv, WrittenInv, RelistInv, Trying
    <3>5. ServedInv'
      BY <1>1, <2>1, <3>1 DEF Known, ServedInv, OneId, ServedAlone
    <3> QED
      BY <3>2, <3>3, <3>4, <3>5 DEF Known
  <2> QED
    BY <1>4, <2>2, <2>3 DEF Renew, Reregister
<1> QED
  BY <1>3, <1>4

\* Time passes over a sleeping process; the cache does not live that long.
LEMMA PassKnown ==
  ASSUME Settled, Pass
  PROVE  Known'
<1>1. /\ IInv /\ ProcessInv /\ ProcessOK /\ Known /\ pc \in {"down", "heartbeat"}
      /\ cache' = None /\ clock' = clock + 1 /\ M' = M
      /\ UNCHANGED <<pc, config, relisting, list, written, index, due, failing, gaveUp>>
  BY DEF Settled, Pass, Tick, registerVars, heartbeatVars, modelVars, M
<1>2. clock \in Nat /\ due \in Nat
  BY <1>1, ArrayTypes DEF ProcessOK
<1>3. CacheInv' /\ ScanInv' /\ RegisterInv' /\ WrittenInv' /\ RelistInv'
  BY <1>1 DEF CacheInv, ScanInv, RegisterInv, WrittenInv, RelistInv, Trying
<1>4. HeartbeatInv'
  <2>1. (due <= clock => due <= clock') /\ (due > clock' => due > clock)
    BY <1>1, <1>2
  <2> QED
    BY <1>1, <2>1 DEF Known, HeartbeatInv, OwnAt, Own
<1>5. ServedInv'
  BY <1>1 DEF Known, ServedInv, OneId, ServedAlone
<1> QED
  BY <1>3, <1>4, <1>5 DEF Known

\* An index or the binding is taken away while no process runs.
LEMMA DownKnown ==
  ASSUME Settled, pc = "down", UNCHANGED processVars,
         \A k \in DOMAIN M' : \E j \in DOMAIN M : M'[k] = M[j]
  PROVE  Known'
<1>1. /\ UNCHANGED <<pc, relisting, list, cache, gaveUp>> /\ Known
      /\ cache = None /\ list = <<>> /\ ~relisting
  BY DEF processVars, registerVars, Settled, ProcessInv, Trying
<1>2. CacheInv' /\ ScanInv' /\ RegisterInv' /\ RelistInv' /\ WrittenInv' /\ HeartbeatInv'
  BY <1>1 DEF CacheInv, ScanInv, RegisterInv, RelistInv, WrittenInv, HeartbeatInv
<1>3. ServedInv'
  <2>1. ~gaveUp => OneId(M)
    BY <1>1 DEF Known, ServedInv
  <2>2. OneId(M) => OneId(M')
    BY DEF OneId
  <2>3. OneId(list)
    BY <1>1 DEF OneId
  <2> QED
    BY <1>1, <2>1, <2>2, <2>3 DEF ServedInv
<1> QED
  BY <1>2, <1>3 DEF Known

\* What an undisturbed process knows survives every step, if the receipt of
\* registerModel is seen.
LEMMA KnownStep ==
  ASSUME Unseen = FALSE, IInv, ProcessOK, ProcessInv, UniqueEntry, ~moved,
         ~disturbed => Known, [LeaseNext]_leaseVars, ~disturbed', ~moved'
  PROVE  Known'
<1>1. CASE Start
  BY <1>1, StartKnown
<1>2. CASE CleanedUp
  <2>1. ~disturbed /\ pc = "down" /\ UNCHANGED processVars
    BY <1>2 DEF CleanedUp
  <2>2. PICK i \in Indices : Cleanup(Miner, i)
    BY <1>2 DEF CleanedUp
  <2>3. \A k \in DOMAIN M' : \E j \in DOMAIN M : M'[k] = M[j]
    BY <2>2, CleanupArray
  <2> QED
    BY <2>1, <2>3, DownKnown DEF Settled
<1>3. CASE Unbound
  <2>1. ~disturbed /\ pc = "down" /\ UNCHANGED processVars
    BY <1>3 DEF Unbound
  <2>2. M' = M
    BY <1>3 DEF Unbound, ResetEvmRegistration, modelVars, M
  <2> QED
    BY <2>1, <2>2, DownKnown DEF Settled
<1>4. CASE ~(Start \/ CleanedUp \/ Unbound)
  <2>1. disturbed' = disturbed
    BY <1>4
    DEF LeaseNext, CacheExpires, Scanned, Index, Bind, Read, Scan, DropOlder, Move,
        Register, Renew, Crash, Pass, Reported, leaseVars
  <2>2. Settled
    BY <2>1 DEF Settled
  <2>3. CASE CacheExpires \/ UNCHANGED leaseVars
    <3>1. /\ UNCHANGED <<pc, config, registerVars, heartbeatVars, gaveUp>>
          /\ cache' \in {cache, None} /\ UNCHANGED <<minerModels, clock>>
      BY <2>3 DEF CacheExpires, leaseVars, processVars, registryVars, modelVars
    <3>2. Deactivates(M, M')
      BY <3>1 DEF Deactivates, Same, M
    <3> QED
      BY <2>2, <3>1, <3>2, UntouchedKnown
  <2>4. CASE Reported
    <3>1. PICK v \in Addrs, i \in Indices : ReportOffline(v, Miner, i)
      BY <2>4 DEF Reported
    <3>2. Deactivates(M, M') /\ clock' = clock
      BY <3>1, ReportArray DEF ReportOffline
    <3>3. /\ UNCHANGED <<pc, config, registerVars, heartbeatVars, gaveUp>>
          /\ cache' = cache
      BY <2>4 DEF Reported, processVars
    <3> QED
      BY <2>2, <3>2, <3>3, UntouchedKnown
  <2>5. CASE Scanned \/ Index \/ Pass
    BY <2>2, <2>5, ScannedKnown, IndexKnown, PassKnown
  <2>7. CASE Crash
    BY <2>2, <2>7, ExitsKnown DEF Crash, registryVars, modelVars
  <2>6. CASE \E reached \in BOOLEAN :
               Bind(reached) \/ Read(reached) \/ Scan(reached) \/ Register(reached)
                 \/ Renew(reached)
    BY <2>2, <2>6, BindKnown, ReadKnown, ScanKnown, RegisterKnown, RenewKnown
  <2>8. CASE \E reached \in BOOLEAN : DropOlder(reached) \/ Move(reached)
    BY <2>2, <2>8, NoSecondMatch, PassedKnown
  <2> QED
    BY <1>4, <2>3, <2>4, <2>5, <2>6, <2>7, <2>8 DEF LeaseNext
<1> QED
  BY <1>1, <1>2, <1>3, <1>4

-----------------------------------------------------------------------------
(***************************************************************************)
(* Theorems                                                                  *)
(***************************************************************************)

\* What holds whatever happens to the process.
Safe == IInv /\ ProcessOK /\ ProcessInv /\ UniqueEntry /\ moved \in BOOLEAN

\* No entries, no process.
LEMMA InitSafe == LeaseInit => Safe /\ Known
<1> SUFFICES ASSUME LeaseInit PROVE Safe /\ Known
  OBVIOUS
<1>1. IInv
  BY InitIInv DEF LeaseInit
<1>2. M = <<>> /\ clock = 0
  BY LeaseAssumption DEF LeaseInit, Init, M
<1>3. /\ pc = "down" /\ config \in Configs /\ attempt = 1 /\ relisting = FALSE
      /\ cache = None /\ list = <<>> /\ at = 1 /\ match = None /\ written = None
      /\ index = None /\ due = 0 /\ failing = FALSE /\ gaveUp = FALSE
      /\ disturbed = FALSE /\ moved = FALSE /\ crashes = 0
  BY DEF LeaseInit
<1>4. ProcessOK
  <2>1. 1 \in 1..MaxRetries /\ 0 \in 0..MaxCrashes
    BY LeaseAssumption
  <2> QED
    BY <1>3, <2>1, EmptyList DEF ProcessOK
<1>5. ProcessInv
  <2>1. MaxModels \in Nat
    BY RegistryAssumption
  <2> QED
    BY <1>3, <2>1, EmptyList DEF ProcessInv
<1>6. UniqueEntry
  BY <1>2 DEF UniqueEntry, M
<1>7. CacheInv /\ ScanInv /\ RegisterInv /\ RelistInv /\ WrittenInv /\ HeartbeatInv
  BY <1>3 DEF CacheInv, ScanInv, RegisterInv, RelistInv, WrittenInv, HeartbeatInv, Trying
<1>8. ServedInv
  BY <1>2, <1>3 DEF ServedInv, OneId
<1> QED
  BY <1>1, <1>3, <1>4, <1>5, <1>6, <1>7, <1>8 DEF Safe, Known

\* Types are part of it.
LEMMA SafeTypes == Safe => LeaseTypeOK
<1> SUFFICES ASSUME Safe PROVE LeaseTypeOK
  OBVIOUS
<1>1. TypeOK
  BY TypeParts DEF Safe, IInv
<1> QED
  BY <1>1, LeaseParts DEF Safe

\* Every step keeps it.
LEMMA SafeStep == Safe /\ [LeaseNext]_leaseVars => Safe'
<1> SUFFICES ASSUME Safe, [LeaseNext]_leaseVars PROVE Safe'
  OBVIOUS
<1>1. LeaseTypeOK /\ IInv /\ ProcessOK /\ ProcessInv /\ UniqueEntry
  BY SafeTypes DEF Safe
<1>2. moved' \in BOOLEAN
  <2>1. moved' = moved \/ moved' = TRUE
    BY <1>1, LeaseCalls DEF leaseVars
  <2>2. moved \in BOOLEAN
    BY DEF Safe
  <2> QED
    BY <2>1, <2>2, Zenon
<1> QED
  BY <1>1, <1>2, LeaseRegistry, ProcessStep, UniqueStep DEF Safe

\* Whatever the neuron's process, the validators, the cleaners and the network
\* do, the neuron's variables and the contract's keep their types: the index it
\* renews is one the contract can have, and its lists are lists of entries.
THEOREM LeaseTypeCorrect == LeaseSpec => []LeaseTypeOK
<1>1. LeaseInit => Safe
  BY InitSafe
<1> QED
  BY <1>1, SafeStep, SafeTypes, PTL DEF LeaseSpec

\* The miner never has two entries for one model and endpoint before
\* --update-endpoint has moved one, whatever the process loses, forgets or
\* registers again: registerModel takes the old entry over.
THEOREM EntriesStayUnique == LeaseSpec => []UniqueEntry
<1>1. LeaseInit => Safe
  BY InitSafe
<1>2. Safe => UniqueEntry
  BY DEF Safe
<1> QED
  BY <1>1, <1>2, SafeStep, PTL DEF LeaseSpec

-----------------------------------------------------------------------------
(***************************************************************************)
(* The index is its own, whatever receipts are lost and entries moved        *)
(***************************************************************************)

\* The entries of l are still those of s, but for entries that were moved to
\* the endpoint the process serves.
Follows(l, s) ==
  /\ Len(l) <= Len(s)
  /\ \A i \in DOMAIN l :
       /\ i \in DOMAIN s /\ s[i].model = l[i].model
       /\ s[i].endpoint \in {l[i].endpoint, config.endpoint}

\* Every index the process holds is one of its own.
Owned ==
  /\ Follows(list, M) /\ (cache # None => Follows(cache, M))
  /\ match # None => OwnAt(match)
  /\ pc = "index" => OwnAt(EventIndex)
  /\ index # None => OwnAt(index)

\* updateEndpoint gives one entry another endpoint.
LEMMA MoveArray ==
  ASSUME IInv, NEW i \in Indices, NEW e \in Endpoints, UpdateEndpoint(Miner, i, e)
  PROVE  /\ Len(M') = Len(M) /\ DOMAIN M' = DOMAIN M /\ i \in DOMAIN M
         /\ Same(M'[i], M[i].model, e)
         /\ \A j \in DOMAIN M : j # i => M'[j] = M[j]
<1> DEFINE x == Moved(M[i], e)
<1>1. i \in DOMAIN M
  BY DEF UpdateEndpoint, M
<1>2. M[i] \in Entry /\ clock \in Nat /\ Lease \in Nat
  BY <1>1, ArrayTypes, RegistryAssumption
<1>3. x \in Entry /\ x.endpoint = e /\ x.model = M[i].model
  BY <1>2, Zenon DEF Moved, Entry
<1>4. minerModels' = [minerModels EXCEPT ![Miner] = [M EXCEPT ![i] = x]]
  BY DEF UpdateEndpoint, M
<1> HIDE DEF x
<1>5. /\ Len(M') = Len(M) /\ DOMAIN M' = DOMAIN M
      /\ M'[i] = x /\ \A j \in DOMAIN M : j # i => M'[j] = M[j]
  BY <1>1, <1>3, <1>4, WriteArray
<1> QED
  BY <1>1, <1>3, <1>5 DEF Same

\* The array after any step but a cleanup.
LEMMA ArrayFollows ==
  ASSUME LeaseTypeOK, IInv, [LeaseNext]_leaseVars, ~CleanedUp
  PROVE  Follows(M, M')
<1>1. /\ Len(M) \in Nat /\ DOMAIN M = 1..Len(M) /\ config.model \in Models
      /\ config.endpoint \in Endpoints /\ config.ctx \in Contexts
  BY ArrayTypes DEF LeaseTypeOK, Configs
<1>2. CASE M' = M
  BY <1>1, <1>2 DEF Follows
<1>3. CASE Deactivates(M, M')
  BY <1>1, <1>3 DEF Deactivates, Follows, Same
<1>4. ASSUME NEW i \in Indices, RenewModel(Miner, i) PROVE Follows(M, M')
  BY <1>1, <1>4, RenewArray DEF Follows, Same
<1>5. ASSUME NEW i \in Indices, UpdateEndpoint(Miner, i, config.endpoint)
      PROVE  Follows(M, M')
  <2>1. /\ Len(M') = Len(M) /\ DOMAIN M' = DOMAIN M /\ i \in DOMAIN M
        /\ Same(M'[i], M[i].model, config.endpoint)
        /\ \A j \in DOMAIN M : j # i => M'[j] = M[j]
    BY <1>1, <1>5, MoveArray
  <2> QED
    BY <1>1, <2>1 DEF Follows, Same
<1>6. CASE RegisterModel(Miner, config.model, config.endpoint, config.ctx)
  <2> DEFINE found == Reactivatable(Miner, config.model, config.endpoint)
  <2>1. PICK i \in Indices :
          Registers(M, M', found, config.model, config.endpoint, i)
    BY <1>1, <1>6, RegisterArray
  <2>2. i \in DOMAIN M => Same(M[i], config.model, config.endpoint)
    <3>1. found = {} => i \notin DOMAIN M
      BY <1>1, <2>1 DEF Registers
    <3>2. \A j \in found : Same(M[j], config.model, config.endpoint)
      BY DEF Reactivatable, M
    <3> QED
      BY <2>1, <3>1, <3>2 DEF Registers
  <2>3. /\ DOMAIN M \subseteq DOMAIN M' /\ Same(M'[i], config.model, config.endpoint)
        /\ \A j \in DOMAIN M : j # i => M'[j] = M[j]
        /\ Len(M') = Len(M) + 1 \/ Len(M') = Len(M)
    BY <2>1 DEF Registers
  <2> QED
    BY <1>1, <2>2, <2>3 DEF Follows, Same
<1>7. CASE UNCHANGED leaseVars
  BY <1>2, <1>7 DEF leaseVars, registryVars, modelVars, M
<1>8. CASE LeaseNext
  <2>1. CASE MinerCall
    <3>1. CASE RegisterEvm(Miner, Uid) \/ ResetEvmRegistration(Uid)
      BY <1>2, <3>1 DEF RegisterEvm, ResetEvmRegistration, modelVars, M
    <3>2. CASE \E i \in Indices : DeactivateModel(Miner, i)
      BY <1>3, <3>2, DeactivateArray
    <3>3. CASE \E v \in Addrs, i \in Indices : ReportOffline(v, Miner, i)
      BY <1>3, <3>3, ReportArray
    <3> QED
      BY <1>4, <1>6, <2>1, <3>1, <3>2, <3>3 DEF MinerCall
  <2>2. CASE Moves
    BY <1>5, <2>2 DEF Moves
  <2>3. CASE Tick \/ UNCHANGED registryVars
    BY <1>2, <2>3 DEF Tick, registryVars, modelVars, M
  <2> QED
    BY <1>8, <2>1, <2>2, <2>3, LeaseCalls
<1> QED
  BY <1>7, <1>8

\* An index of the process's own in s.
OwnIn(s, i) == i \in DOMAIN s /\ s[i].model = config.model /\ s[i].endpoint = config.endpoint

\* Such an index stays one, and one of an older list is one by now.
LEMMA OwnFollows ==
  ASSUME NEW l, NEW s, Follows(l, s), NEW i, OwnIn(l, i)
  PROVE  OwnIn(s, i)
BY DEF Follows, OwnIn

\* A list that followed the array follows it still.
LEMMA FollowsTrans ==
  ASSUME NEW l, NEW s, NEW t, Follows(l, s), Follows(s, t),
         Len(l) \in Nat, Len(s) \in Nat, Len(t) \in Nat
  PROVE  Follows(l, t)
BY DEF Follows

\* What a step has to show to keep the indices its own.
LEMMA OwnedCarry ==
  ASSUME IInv, IInv', ProcessOK, ProcessInv, Owned, Follows(M, M'), config' = config,
         list' \in {list, <<>>, Listed}, cache' \in {cache, None, Listed},
         match' \in {match, None} \/ OwnIn(M', match'),
         index' \in {index, None} \/ OwnIn(M', index'),
         pc' = "index" => OwnIn(M', EventIndex')
  PROVE  Owned'
<1>1. Len(M) \in Nat /\ Len(M') \in Nat /\ Len(list) \in Nat /\ Len(Listed) \in Nat
  <2>1. Len(M) \in Nat /\ Len(Listed) \in Nat /\ Len(list) \in Nat
    BY ArrayTypes, ListedType DEF ProcessOK
  <2>2. minerModels'[Miner] \in Seq(Entry)
    BY LeaseAssumption DEF IInv, TypeOK
  <2> QED
    BY <2>1, <2>2 DEF M
<1>2. Follows(M, M) /\ Follows(<<>>, M')
  BY <1>1 DEF Follows
<1>3. Follows(Listed, M)
  BY <1>2 DEF Owned, Listed, M
<1>4. \A l : l \in {list, <<>>, Listed} => Follows(l, M')
  BY <1>1, <1>2, <1>3, FollowsTrans DEF Owned
<1>5. cache # None => Follows(cache, M')
  <2>1. cache # None => Len(cache) \in Nat
    BY DEF ProcessInv
  <2> QED
    BY <1>1, <2>1, FollowsTrans DEF Owned
<1>6. Follows(list, M)' /\ (cache # None => Follows(cache, M))'
  BY <1>4, <1>5 DEF Follows
<1>7. \A i : OwnAt(i) => OwnIn(M', i)
  BY OwnFollows DEF OwnAt, OwnIn, Own, Same
<1>8. /\ match' # None => OwnIn(M', match')
      /\ index' # None => OwnIn(M', index')
  BY <1>7 DEF Owned
<1>9. (match # None => OwnAt(match))' /\ (index # None => OwnAt(index))'
  BY <1>8 DEF OwnIn, OwnAt, Own, Same
<1>10. (pc = "index" => OwnAt(EventIndex))'
  BY DEF OwnIn, OwnAt, Own, Same
<1> QED
  BY <1>6, <1>9, <1>10 DEF Owned

\* register_on_chain returns an index of its own, or none.
LEMMA ReturnedOwned ==
  ASSUME IInv, IInv', ProcessOK, ProcessInv, Owned, Follows(M, M'), config' = config,
         NEW i \in Indices \union {None}, Returned(i), i # None => OwnAt(i)
  PROVE  Owned'
<1>1. i # None => OwnIn(M', i)
  BY OwnFollows DEF OwnAt, OwnIn, Own, Same
<1>2. CASE Exits
  BY <1>2, OwnedCarry DEF Exits, LoopReset
<1>3. CASE ~Exits
  <2>1. /\ pc' = "heartbeat" /\ index' = i /\ list' = <<>> /\ match' = None
        /\ cache' \in {cache, Listed}
    BY <1>3, ReturnedFacts
  <2> QED
    BY <1>1, <2>1, OwnedCarry
<1> QED
  BY <1>2, <1>3

\* An attempt fails.
LEMMA FailedOwned ==
  ASSUME IInv, IInv', ProcessOK, ProcessInv, Owned, Follows(M, M'), config' = config,
         AttemptFailed
  PROVE  Owned'
<1>1. clock \in Nat
  BY ArrayTypes
<1>2. /\ pc' \in {"bind", "heartbeat", "down"} /\ list' = <<>> /\ match' = None
      /\ cache' \in {cache, None} /\ index' \in {index, None}
  BY <1>1, AttemptFacts
<1> QED
  BY <1>2, OwnedCarry

\* Every step of the process, and of the others while it is down.
LEMMA OwnedStep ==
  ASSUME Safe, Safe', ~disturbed => Owned, [LeaseNext]_leaseVars, ~disturbed'
  PROVE  Owned'
<1>1. IInv /\ IInv' /\ ProcessOK /\ ProcessInv /\ LeaseTypeOK /\ ProcessInv'
  BY SafeTypes DEF Safe
<1>2. CASE pc = "down" /\ (Start \/ CleanedUp \/ Unbound)
  <2>1. /\ list' = <<>> /\ cache' = None /\ match' = None /\ index' = None
        /\ pc' # "index"
    <3>1. list = <<>> /\ cache = None /\ match = None /\ index = None
      BY <1>1, <1>2 DEF ProcessInv
    <3> QED
      BY <1>2, <3>1
      DEF Start, CleanedUp, Unbound, processVars, registerVars, heartbeatVars
  <2>2. Len(M') \in Nat
    <3>1. minerModels'[Miner] \in Seq(Entry)
      BY <1>1, LeaseAssumption DEF IInv, TypeOK
    <3> QED
      BY <3>1 DEF M
  <2>3. Follows(list, M)'
    BY <2>1, <2>2 DEF Follows
  <2> QED
    BY <2>1, <2>3 DEF Owned
<1>3. CASE ~(Start \/ CleanedUp \/ Unbound)
  <2>1. disturbed' = disturbed /\ config' = config
    BY <1>3
    DEF LeaseNext, CacheExpires, Scanned, Index, Bind, Read, Scan, DropOlder, Move,
        Register, Renew, Crash, Pass, Reported, leaseVars, processVars
  <2>2. Owned /\ Follows(M, M')
    BY <1>1, <1>3, <2>1, ArrayFollows
  <2>3. \A i : OwnAt(i) => OwnIn(M', i)
    BY <2>2, OwnFollows DEF OwnAt, OwnIn, Own, Same
  <2>4. CASE CacheExpires \/ Reported \/ UNCHANGED leaseVars
    <3>1. /\ cache' \in {cache, None}
          /\ UNCHANGED <<pc, list, match, index, written>>
      BY <2>4
      DEF CacheExpires, Reported, leaseVars, processVars, registerVars, heartbeatVars
    <3>2. Len(M') = Len(M)
      <4>1. CASE Reported
        <5>1. PICK v \in Addrs, i \in Indices : ReportOffline(v, Miner, i)
          BY <4>1 DEF Reported
        <5> QED
          BY <1>1, <5>1, ReportArray DEF Deactivates
      <4>2. CASE ~Reported
        BY <2>4, <4>2 DEF CacheExpires, leaseVars, registryVars, modelVars, M
      <4> QED
        BY <4>1, <4>2
    <3>3. EventIndex' = EventIndex
      BY <3>1, <3>2 DEF EventIndex, M
    <3>4. pc' = "index" => OwnIn(M', EventIndex')
      BY <2>2, <2>3, <3>1, <3>3 DEF Owned
    <3> QED
      BY <1>1, <2>1, <2>2, <3>1, <3>4, OwnedCarry
  <2>5. CASE Scanned
    <3>1. CASE match # None
      <4>1. Returned(match) /\ OwnAt(match) /\ match \in Indices \union {None}
        BY <1>1, <2>2, <2>5, <3>1 DEF Scanned, Owned, ProcessOK
      <4> QED
        BY <1>1, <2>1, <2>2, <4>1, ReturnedOwned
    <3>2. CASE match = None
      <4>1. pc' = "register" /\ UNCHANGED <<list, match, index, cache>>
        BY <2>5, <3>2 DEF Scanned, registerVars, heartbeatVars
      <4> QED
        BY <1>1, <2>1, <2>2, <4>1, OwnedCarry
    <3> QED
      BY <3>1, <3>2
  <2>6. CASE Index
    <3>1. CASE Returned(EventIndex)
      <4>1. OwnAt(EventIndex)
        BY <2>2, <2>6 DEF Index, Owned
      <4>2. EventIndex \in Indices
        BY <1>1, <4>1, ArrayTypes DEF OwnAt
      <4> QED
        BY <1>1, <2>1, <2>2, <3>1, <4>1, <4>2, ReturnedOwned
    <3>2. CASE AttemptFailed
      BY <1>1, <2>1, <2>2, <3>2, FailedOwned
    <3>3. CASE Findable(Listed) # {} /\ Returned(Max(Findable(Listed)))
      <4>1. PICK i : i = Max(Findable(Listed))
        OBVIOUS
      <4>2. i \in Findable(Listed)
        <5>1. Len(Listed) \in Nat /\ Findable(Listed) \in SUBSET (1..Len(Listed))
          BY <1>1, ListedType DEF Findable
        <5> QED
          BY <3>3, <4>1, <5>1, LargestIndex
      <4>3. i \in Indices /\ OwnIn(Listed, i)
        BY <1>1, <4>2, ListedType DEF Findable, OwnIn, Own, Same
      <4>4. Follows(Listed, M)
        <5>1. Follows(M, M)
          BY <1>1, ArrayTypes DEF Follows
        <5> QED
          BY <2>2, <5>1 DEF Owned, Listed, M
      <4>5. OwnAt(i)
        BY <4>3, <4>4, OwnFollows DEF OwnAt, OwnIn, Own, Same
      <4> QED
        BY <1>1, <2>1, <2>2, <3>3, <4>1, <4>3, <4>5, ReturnedOwned
    <3> QED
      BY <2>6, <3>1, <3>2, <3>3 DEF Index
  <2>7. ASSUME NEW reached \in BOOLEAN, Bind(reached) \/ Read(reached)
        PROVE  Owned'
    <3>1. CASE AttemptFailed
      BY <1>1, <2>1, <2>2, <3>1, FailedOwned
    <3>2. CASE ~AttemptFailed
      <4>1. /\ pc' \in {"read", "scan"} /\ UNCHANGED <<match, index>>
            /\ list' \in {list, Listed} /\ cache' \in {cache, Listed}
        BY <2>7, <3>2 DEF Bind, Read, registerVars, heartbeatVars
      <4> QED
        BY <1>1, <2>1, <2>2, <4>1, OwnedCarry
    <3> QED
      BY <3>1, <3>2
  <2>8. ASSUME NEW reached \in BOOLEAN, Scan(reached) PROVE Owned'
    <3>1. /\ pc' \in {"scan", "register"} /\ UNCHANGED <<list, index, cache>>
          /\ match' = IF Reusable(list[at]) THEN at ELSE match
          /\ pc = "scan" /\ at <= Len(list)
      BY <2>8 DEF Scan, heartbeatVars
    <3>2. at \in DOMAIN list
      BY <1>1, <3>1 DEF ProcessOK
    <3>3. Reusable(list[at]) => OwnIn(list, at)
      BY <3>2 DEF Reusable, OwnIn, Own, Same
    <3>4. Reusable(list[at]) => OwnIn(M', at)
      BY <2>2, <3>3, OwnFollows DEF Owned
    <3> QED
      BY <1>1, <2>1, <2>2, <3>1, <3>4, OwnedCarry
  <2>9. ASSUME NEW reached \in BOOLEAN, DropOlder(reached) PROVE Owned'
    <3>1. pc' = "scan" /\ UNCHANGED <<list, index, cache>> /\ match' = None
      BY <2>9 DEF DropOlder, heartbeatVars
    <3> QED
      BY <1>1, <2>1, <2>2, <3>1, OwnedCarry
  <2>10. ASSUME NEW reached \in BOOLEAN, Move(reached) PROVE Owned'
    <3>1. /\ pc' = "scan" /\ UNCHANGED <<list, index, cache>>
          /\ pc = "scan" /\ at <= Len(list) /\ list[at].model = config.model
      BY <2>10 DEF Move, Movable, heartbeatVars
    <3>2. CASE UpdateEndpoint(Miner, at, config.endpoint) /\ match' \in {at, None}
      <4>1. at \in DOMAIN list /\ config.endpoint \in Endpoints /\ at \in Indices
        <5>1. at \in DOMAIN M /\ DOMAIN M \subseteq Indices
          BY <1>1, <3>2, ArrayTypes DEF UpdateEndpoint, M
        <5>2. at \in DOMAIN list /\ config.endpoint \in Endpoints
          BY <1>1, <3>1 DEF ProcessOK, Configs
        <5> QED
          BY <5>1, <5>2
      <4>2. /\ at \in DOMAIN M' /\ Same(M'[at], M[at].model, config.endpoint)
        BY <1>1, <3>2, <4>1, MoveArray
      <4>3. M[at].model = config.model
        BY <2>2, <3>1, <4>1 DEF Owned, Follows
      <4>4. OwnIn(M', at)
        BY <4>2, <4>3 DEF OwnIn, Same
      <4> QED
        BY <1>1, <2>1, <2>2, <3>1, <3>2, <4>4, OwnedCarry
    <3>3. CASE match' = match
      BY <1>1, <2>1, <2>2, <3>1, <3>3, OwnedCarry
    <3> QED
      BY <2>10, <3>2, <3>3 DEF Move
  <2>11. ASSUME NEW reached \in BOOLEAN, Register(reached) PROVE Owned'
    <3>1. CASE AttemptFailed
      BY <1>1, <2>1, <2>2, <3>1, FailedOwned
    <3>2. CASE Returned(None)
      BY <1>1, <2>1, <2>2, <3>2, ReturnedOwned
    <3>3. CASE ~AttemptFailed /\ ~Returned(None)
      <4> DEFINE found == Reactivatable(Miner, config.model, config.endpoint)
      <4>1. /\ RegisterModel(Miner, config.model, config.endpoint, config.ctx)
            /\ pc' = "index" /\ written' = IF found = {} THEN None ELSE Min(found)
            /\ UNCHANGED <<list, match, index, cache>>
        BY <2>11, <3>3 DEF Register, heartbeatVars
      <4>2. /\ config.model \in Models /\ config.endpoint \in Endpoints
            /\ config.ctx \in Contexts /\ found \subseteq DOMAIN M
        BY <1>1 DEF ProcessOK, Configs, Reactivatable, M
      <4>3. PICK i \in Indices :
              Registers(M, M', found, config.model, config.endpoint, i)
        BY <1>1, <4>1, <4>2, RegisterArray
      <4>4. EventIndex' = i
        BY <1>1, <4>1, <4>2, <4>3, EventIsWritten
      <4>5. OwnIn(M', i)
        BY <4>3 DEF Registers, OwnIn, Same
      <4> QED
        BY <1>1, <2>1, <2>2, <4>1, <4>4, <4>5, OwnedCarry
    <3> QED
      BY <3>1, <3>2, <3>3
  <2>12. ASSUME NEW reached \in BOOLEAN, Renew(reached) PROVE Owned'
    <3>1. UNCHANGED <<list, match, index, cache>> /\ pc' \in {"heartbeat", "bind"}
      BY <2>12 DEF Renew, registerVars, heartbeatVars
    <3> QED
      BY <1>1, <2>1, <2>2, <3>1, OwnedCarry
  <2>13. CASE Crash
    BY <1>1, <2>1, <2>2, <2>13, OwnedCarry DEF Crash, Exits, LoopReset
  <2>14. CASE Pass
    <3>1. /\ UNCHANGED <<list, match, index>> /\ cache' = None
          /\ pc' \in {"heartbeat", "down"}
      BY <2>14 DEF Pass, registerVars, heartbeatVars
    <3> QED
      BY <1>1, <2>1, <2>2, <3>1, OwnedCarry
  <2> QED
    BY <1>3, <2>4, <2>5, <2>6, <2>7, <2>8, <2>9, <2>10, <2>11, <2>12, <2>13, <2>14
    DEF LeaseNext
<1>4. CASE CleanedUp \/ Unbound
  <2>1. pc = "down"
    BY <1>4 DEF CleanedUp, Unbound
  <2> QED
    BY <1>2, <1>4, <2>1
<1>5. CASE Start
  BY <1>2, <1>5 DEF Start
<1> QED
  BY <1>3, <1>4, <1>5

\* The index the heartbeat renews is that of an entry of the model and endpoint
\* its process serves, for every number of entries, models, retries and crashes,
\* whatever --update-endpoint moves and whichever receipts are lost.
THEOREM HeartbeatRenewsItsOwn == LeaseSpec => []IndexIsOwn
<1> DEFINE Inv == Safe /\ (~disturbed => Owned)
<1>1. LeaseInit => Inv
  <2> SUFFICES ASSUME LeaseInit PROVE Inv
    OBVIOUS
  <2>1. Safe
    BY InitSafe
  <2>2. M = <<>> /\ list = <<>> /\ cache = None /\ match = None /\ index = None
        /\ pc = "down"
    BY LeaseAssumption DEF LeaseInit, Init, M
  <2>3. Follows(list, M)
    BY <2>2 DEF Follows
  <2> QED
    BY <2>1, <2>2, <2>3 DEF Owned
<1>2. Inv /\ [LeaseNext]_leaseVars => Inv'
  <2> SUFFICES ASSUME Inv, [LeaseNext]_leaseVars PROVE Inv'
    OBVIOUS
  <2>1. Safe'
    BY SafeStep
  <2>2. ~disturbed' => Owned'
    BY <2>1, OwnedStep
  <2> QED
    BY <2>1, <2>2
<1>3. Inv => IndexIsOwn
  BY DEF Owned, OwnAt, IndexIsOwn, M
<1> QED
  BY <1>1, <1>2, <1>3, PTL DEF LeaseSpec

-----------------------------------------------------------------------------
(***************************************************************************)
(* A neuron that sees its receipts, before an entry is moved                 *)
(***************************************************************************)

\* The inductive invariant of such a neuron.
Watched == Safe /\ (~disturbed /\ ~moved => Known)

\* Every step keeps it: one lemma above for each action.
LEMMA WatchedStep ==
  ASSUME Unseen = FALSE
  PROVE  Watched /\ [LeaseNext]_leaseVars => Watched'
<1> SUFFICES ASSUME Watched, [LeaseNext]_leaseVars PROVE Watched'
  OBVIOUS
<1>1. Safe'
  BY SafeStep DEF Watched
<1>2. ~moved' => ~moved
  <2>1. LeaseTypeOK /\ IInv
    BY SafeTypes DEF Watched, Safe
  <2> QED
    BY <2>1, LeaseCalls DEF leaseVars
<1>3. ~disturbed' /\ ~moved' => Known'
  BY <1>2, KnownStep DEF Watched, Safe
<1> QED
  BY <1>1, <1>3 DEF Watched

\* It holds in every behaviour.
LEMMA AlwaysWatched ==
  ASSUME Unseen = FALSE
  PROVE  LeaseSpec => []Watched
<1>1. LeaseInit => Watched
  BY InitSafe DEF Watched
<1>2. Watched /\ [LeaseNext]_leaseVars => Watched'
  BY WatchedStep
<1> QED
  BY <1>1, <1>2, PTL DEF LeaseSpec

\* If the receipts of registerModel are seen and --update-endpoint has moved
\* nothing, a process in its heartbeat has an index to renew unless a
\* deactivation was given up.
THEOREM HeartbeatHasIndex ==
  ASSUME Unseen = FALSE
  PROVE  LeaseSpec => [](~moved => HasIndex)
<1>1. Watched => (~moved => HasIndex)
  BY DEF Watched, Known, HeartbeatInv, HasIndex
<1> QED
  BY <1>1, AlwaysWatched, PTL

\* Under the same conditions, and unless a deactivation was given up, no other
\* model is active on the endpoint of a process in its heartbeat.
THEOREM EndpointServesOneModel ==
  ASSUME Unseen = FALSE
  PROVE  LeaseSpec => [](~moved => OneModelServed)
<1>1. Watched => (~moved => OneModelServed)
  <2> SUFFICES ASSUME Watched, ~moved, pc = "heartbeat", ~disturbed, ~gaveUp
               PROVE  ServedAlone(DOMAIN M)
    BY DEF OneModelServed, ServedAlone, M
  <2> QED
    BY DEF Watched, Known, ServedInv
<1> QED
  BY <1>1, AlwaysWatched, PTL

\* Under the same conditions the neuron's sleep ends before its lease does,
\* unless its calls are failing.
THEOREM NeuronWakesInTime ==
  ASSUME Unseen = FALSE
  PROVE  LeaseSpec => [](~moved => SleepsWithinLease)
<1>1. Watched => (~moved => SleepsWithinLease)
  <2> SUFFICES ASSUME Watched, ~moved, pc = "heartbeat", ~disturbed, ~failing,
                      due > clock
               PROVE  M[index].expiresAt > due
    BY DEF SleepsWithinLease, M
  <2>1. due \in Nat /\ clock \in Nat
    BY ArrayTypes DEF Watched, Safe, ProcessOK
  <2>2. index # None
    BY <2>1 DEF Watched, Known, HeartbeatInv
  <2> QED
    BY <2>2 DEF Watched, Known, HeartbeatInv
<1> QED
  BY <1>1, AlwaysWatched, PTL
=============================================================================
