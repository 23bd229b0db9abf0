--------------------------- MODULE GatewayProofs ----------------------------
(***************************************************************************)
(* Proofs about the models and credentials of the platform: the memory of  *)
(* resident models, the files of a model, the owner's provider keys, and   *)
(* the connection to a Google account.                                     *)
(***************************************************************************)
EXTENDS ModelResidency, ModelStore, ProviderKeys, GoogleConnection, Sequences, TLAPS

-----------------------------------------------------------------------------
(* ModelResidency: which models are in memory.                             *)

MemStates == {"NOT_LOADED", "LOADING", "READY", "DRAINING", "LOAD_ERROR", "RUNTIME_ERROR"}

(* A row of model_instances: its reservation and its reason to drain go with
   its state. *)
MemRow(i, m) ==
  /\ DOMAIN i = {"st", "drain", "res", "ep", "idle"}
  /\ i.st \in MemStates /\ i.drain \in {"none", "idle", "stopping", "manual"}
  /\ i.res = IF i.st \in RESIDENT THEN Peak[m] ELSE 0
  /\ (i.st = "DRAINING") <=> (i.drain # "none")

MemRows == DOMAIN minst = Models /\ \A m \in Models : MemRow(minst[m], m)

MemOneChat ==
  \A m, n \in Models \cap Generative : Resident(m) /\ Resident(n) => m = n

(* A request that is being served and a drain that can no longer be called
   off exclude each other. *)
MemUsers ==
  /\ DOMAIN use = Holders /\ \A h \in Holders : DOMAIN use[h] = {"pc", "m"}
  /\ \A m \in Models : minst[m].drain = "stopping" => ~InUse(m)

(* The one worker keeps the model it stops from leaving the drain. *)
MemWorker ==
  /\ DOMAIN worker = {"pc", "m", "kind"}
  /\ worker.pc \in {"unload", "stop"} => worker.m \in Models
  /\ worker.pc = "stop" => minst[worker.m].drain \in {"stopping", "manual"}

MemWeights == [Models -> Nat]

(* The settings are sizes and the models finitely many. *)
MemSizes ==
  IsFiniteSet(Models) /\ Peak \in MemWeights /\ Margin \in Nat /\ MaxServing \in Nat

(* The recursion Total adds up what is given to it.  The proofs in this module
   take this as given; MemAdds in PlatformProofs shows it for finite sets. *)
MemSums ==
  \A w \in MemWeights, s \in SUBSET Models :
    /\ Total(w, {}) = 0 /\ Total(w, s) \in Nat
    /\ \A m \in s : Total(w, s) = w[m] + Total(w, s \ {m})
    /\ \A r \in SUBSET s : (\A m \in s \ r : w[m] = 0) => Total(w, s) = Total(w, r)
    /\ \A v \in MemWeights : (\A m \in s : v[m] <= w[m]) => Total(v, s) <= Total(w, s)

MemGiven == MemSizes /\ MemSums

(* What is reserved together fits. *)
MemFits ==
  MemGiven => \/ ReservedBy(Models) = 0
              \/ ReservedBy(Models) + Margin <= MaxServing

MemInv == MemRows /\ MemFits /\ MemOneChat /\ LeasedIsNotUnloaded /\ MemUsers /\ MemWorker

(* What is reserved, as a sum. *)
LEMMA MemReservations ==
  ASSUME MemGiven, MemRows
  PROVE  /\ [m \in Models |-> minst[m].res] \in MemWeights
         /\ \A s : ReservedBy(s) = Total([m \in Models |-> minst[m].res], s)
<1>0. Peak \in MemWeights
  BY Zenon DEF MemGiven, MemSizes
<1>1. \A m \in Models : minst[m].res \in Nat
  <2>1. \A m \in Models : minst[m].res = Peak[m] \/ minst[m].res = 0
    BY Zenon DEF MemRows, MemRow
  <2>2. \A m \in Models : Peak[m] \in Nat
    BY Zenon, <1>0 DEF MemWeights
  <2>3. 0 \in Nat
    BY Zenon
  <2> QED BY Zenon, <2>1, <2>2, <2>3
<1> QED BY Zenon, <1>1 DEF MemWeights, ReservedBy, Total

(* A step after which no other models are resident. *)
LEMMA MemFewer ==
  ASSUME MemRows, MemRows', MemFits, \A m \in Models : Resident(m)' => Resident(m)
  PROVE  MemFits'
<1> SUFFICES ASSUME MemGiven
             PROVE  \/ ReservedBy(Models)' = 0
                    \/ ReservedBy(Models)' + Margin <= MaxServing
  BY Zenon DEF MemFits
<1>1. PICK w : w = [m \in Models |-> minst[m].res]
  BY Zenon
<1>2. PICK v : v = [m \in Models |-> minst[m].res]'
  BY Zenon
<1>3. /\ w \in MemWeights /\ v \in MemWeights
      /\ ReservedBy(Models) = Total(w, Models) /\ ReservedBy(Models)' = Total(v, Models)
  <2>1. w \in MemWeights /\ ReservedBy(Models) = Total(w, Models)
    BY Zenon, <1>1, MemReservations
  <2>3. v \in MemWeights /\ ReservedBy(Models)' = Total(v, Models)
    <3>1. \A m \in Models : minst'[m].res \in Nat
      BY DEF MemGiven, MemSizes, MemRows, MemRow, MemWeights
    <3> QED BY Zenon, <1>2, <3>1 DEF MemWeights, ReservedBy, Total
  <2> QED BY Zenon, <2>1, <2>3
<1>4. \A m \in Models : v[m] <= w[m]
  <2>1. \A m \in Models : minst'[m].res <= minst[m].res
    BY DEF MemGiven, MemSizes, MemRows, MemRow, MemWeights, Resident
  <2> QED BY Zenon, <1>1, <1>2, <2>1
<1>5. Total(v, Models) <= Total(w, Models)
  BY Zenon, <1>3, <1>4 DEF MemGiven, MemSums
<1>6. Total(v, Models) \in Nat /\ Total(w, Models) \in Nat
  BY Zenon, <1>3 DEF MemGiven, MemSums
<1>7. Total(w, Models) = 0 \/ Total(w, Models) + Margin <= MaxServing
  BY Zenon, <1>3 DEF MemFits
<1> QED BY <1>3, <1>5, <1>6, <1>7 DEF MemGiven, MemSizes

(* A step that makes a model resident that was admitted. *)
LEMMA MemAdmitted ==
  ASSUME MemRows, MemRows', NEW m \in Models, _admit(m),
         \A n \in Models \ {m} : Resident(n)' => Resident(n)
  PROVE  MemFits'
<1> DEFINE others == {o \in Models \ {m} : Resident(o)}
<1> SUFFICES ASSUME MemGiven
             PROVE  ReservedBy(Models)' + Margin <= MaxServing
  BY Zenon DEF MemFits
<1>1. PICK w : w = [n \in Models |-> minst[n].res]
  BY Zenon
<1>2. PICK v : v = [n \in Models |-> minst[n].res]'
  BY Zenon
<1>o. PICK o : o = others
  BY Zenon
<1>3. /\ w \in MemWeights /\ v \in MemWeights
      /\ ReservedBy(o) = Total(w, o) /\ ReservedBy(Models)' = Total(v, Models)
  <2>1. w \in MemWeights /\ ReservedBy(o) = Total(w, o)
    BY Zenon, <1>1, MemReservations
  <2>3. v \in MemWeights /\ ReservedBy(Models)' = Total(v, Models)
    <3>1. \A n \in Models : minst'[n].res \in Nat
      BY DEF MemGiven, MemSizes, MemRows, MemRow, MemWeights
    <3> QED BY <1>2, <3>1 DEF MemWeights, ReservedBy, Total
  <2> QED BY Zenon, <2>1, <2>3
<1>4. Total(w, o) + Peak[m] + Margin <= MaxServing
  BY Zenon, <1>3, <1>o DEF _admit
<1>5. v[m] <= Peak[m] /\ (\A n \in o : v[n] <= w[n]) /\ \A n \in (Models \ {m}) \ o : v[n] = 0
  <2>1. minst'[m].res <= Peak[m] /\ \A n \in Models : n # m => minst'[n].res <= minst[n].res
    BY DEF MemGiven, MemSizes, MemRows, MemRow, MemWeights, Resident
  <2>2. \A n \in (Models \ {m}) \ o : minst'[n].res = 0
    BY Zenon, <1>o DEF MemGiven, MemSizes, MemRows, MemRow, MemWeights, Resident
  <2> QED BY Zenon, <1>1, <1>2, <1>o, <2>1, <2>2
<1>6. o \in SUBSET (Models \ {m}) /\ Models \ {m} \in SUBSET Models /\ o \in SUBSET Models
  BY Zenon, <1>o
<1>7. Total(v, Models) = v[m] + Total(v, Models \ {m})
  BY Zenon, <1>3 DEF MemGiven, MemSums
<1>8. Total(v, Models \ {m}) = Total(v, o)
  BY Zenon, <1>3, <1>5, <1>6 DEF MemGiven, MemSums
<1>9. Total(v, o) <= Total(w, o)
  BY Zenon, <1>3, <1>5, <1>6 DEF MemGiven, MemSums
<1>10. Total(v, o) \in Nat /\ Total(w, o) \in Nat /\ v[m] \in Nat /\ Peak[m] \in Nat
  BY Zenon, <1>3, <1>6 DEF MemGiven, MemSizes, MemSums, MemWeights
<1> QED BY <1>3, <1>4, <1>5, <1>7, <1>8, <1>9, <1>10 DEF MemGiven, MemSizes

LEMMA MemStarts == ASSUME MemInit PROVE MemInv
<1> USE DEF MemInit
<1>1. \A m \in Models : /\ minst[m].st = "NOT_LOADED" /\ minst[m].drain = "none" /\ minst[m].res = 0
                        /\ DOMAIN minst[m] = {"st", "drain", "res", "ep", "idle"}
  BY Zenon
<1>2. MemRows
  BY Zenon, <1>1 DEF MemRows, MemRow, MemStates, RESIDENT
<1>3. MemOneChat
  BY Zenon, <1>1 DEF MemOneChat, Resident, RESIDENT
<1>4. LeasedIsNotUnloaded
  BY Zenon DEF LeasedIsNotUnloaded, Leased
<1>5. MemUsers
  BY Zenon, <1>1 DEF MemUsers
<1>6. MemWorker
  BY Zenon DEF MemWorker
<1>7. MemFits
  <2> SUFFICES ASSUME MemGiven PROVE ReservedBy(Models) = 0
    BY Zenon DEF MemFits
  <2>1. PICK w : w = [m \in Models |-> minst[m].res]
    BY Zenon
  <2>2. w \in MemWeights /\ ReservedBy(Models) = Total(w, Models) /\ \A m \in Models : w[m] = 0
    BY Zenon, <1>1, <1>2, <2>1, MemReservations
  <2>3. Total(w, Models) = Total(w, {}) /\ Total(w, {}) = 0
    BY <2>2 DEF MemGiven, MemSums
  <2> QED BY Zenon, <2>2, <2>3
<1> QED BY Zenon, <1>2, <1>3, <1>4, <1>5, <1>6, <1>7 DEF MemInv

(* A step that leaves the rows, the leases, the uses and the worker alone. *)
LEMMA MemElsewhere ==
  ASSUME MemInv, UNCHANGED <<minst, leases, use, worker>> PROVE MemInv'
<1>1. MemFits'
  BY Zenon DEF MemInv, MemFits, ReservedBy
<1> QED BY Zenon, <1>1 DEF MemInv, MemRows, MemRow, MemOneChat, Resident, LeasedIsNotUnloaded,
                   Leased, MemUsers, InUse, MemWorker

(* A step of the worker that does not touch a row. *)
LEMMA MemWorkerOnly ==
  ASSUME MemInv, UNCHANGED <<minst, leases, use>>, MemWorker' PROVE MemInv'
<1>1. MemFits'
  BY Zenon DEF MemInv, MemFits, ReservedBy
<1> QED BY Zenon, <1>1 DEF MemInv, MemRows, MemRow, MemOneChat, Resident, LeasedIsNotUnloaded,
                   Leased, MemUsers, InUse

(* A step that changes rows without making a model resident or unloading one. *)
LEMMA MemRowStep ==
  ASSUME MemInv, DOMAIN minst' = Models, UNCHANGED use, leases' \subseteq leases,
         \/ UNCHANGED worker
         \/ worker'.pc = "ok" /\ DOMAIN worker' = DOMAIN worker,
         \A m \in Models : /\ MemRow(minst'[m], m)
                           /\ minst'[m].st \in RESIDENT => minst[m].st \in RESIDENT
                           /\ minst'[m].st = "NOT_LOADED" => minst[m].st = "NOT_LOADED"
                           /\ minst'[m].drain = "stopping" => minst[m].drain = "stopping"
                           /\ minst[m].drain \in {"stopping", "manual"}
                                => minst'[m].drain \in {"stopping", "manual"}
  PROVE  MemInv'
<1>0. MemRows /\ MemFits /\ MemOneChat /\ LeasedIsNotUnloaded /\ MemUsers /\ MemWorker
  BY Zenon DEF MemInv
<1>1. MemRows'
  BY Zenon DEF MemRows
<1>2. MemOneChat'
  BY Zenon, <1>0 DEF MemOneChat, Resident
<1>3. LeasedIsNotUnloaded'
  BY Zenon, <1>0 DEF LeasedIsNotUnloaded, Leased
<1>4. MemUsers'
  BY Zenon, <1>0 DEF MemUsers, InUse
<1>5. MemWorker'
  BY Zenon, <1>0 DEF MemWorker
<1>6. MemFits'
  BY Zenon, <1>0, <1>1, MemFewer DEF Resident
<1> QED BY Zenon, <1>1, <1>2, <1>3, <1>4, <1>5, <1>6 DEF MemInv

(* A step of the holders that does not touch a row or a lease. *)
LEMMA MemUseOnly ==
  ASSUME MemInv, UNCHANGED <<minst, leases>>, MemWorker', DOMAIN use' = Holders,
         \A h \in Holders : /\ DOMAIN use'[h] = {"pc", "m"}
                            /\ use'[h].pc = "using" =>
                                 \/ use'[h] = use[h]
                                 \/ use'[h].m \in Models => minst[use'[h].m].drain # "stopping"
  PROVE  MemInv'
<1>0. MemRows /\ MemFits /\ MemOneChat /\ LeasedIsNotUnloaded /\ MemUsers /\ MemWorker
  BY Zenon DEF MemInv
<1>1. MemUsers'
  <2>1. ASSUME NEW m \in Models, minst[m].drain = "stopping", NEW h \in Holders,
               use'[h] = [pc |-> "using", m |-> m], <<m, h>> \in leases
        PROVE  FALSE
    <3>1. use'[h].pc = "using" /\ use'[h].m = m
      BY <2>1
    <3>2. use[h] = [pc |-> "using", m |-> m]
      BY Zenon, <2>1, <3>1
    <3> QED BY Zenon, <1>0, <2>1, <3>2 DEF MemUsers, InUse
  <2> QED BY ZenonT(30), <2>1 DEF MemUsers, InUse
<1>2. MemRows' /\ MemOneChat' /\ LeasedIsNotUnloaded'
  BY Zenon, <1>0 DEF MemRows, MemRow, MemOneChat, Resident, LeasedIsNotUnloaded, Leased
<1>3. MemFits'
  BY Zenon, <1>0 DEF MemFits, ReservedBy
<1> QED BY Zenon, <1>1, <1>2, <1>3 DEF MemInv

-----------------------------------------------------------------------------
(* A new lease: a model that was absent becomes resident when it is admitted,
   an idle drain is called off. *)
LEMMA MemAcquire ==
  ASSUME MemInv, NEW h \in Holders, NEW m \in Models, NEW pc \in {"waiting", "loaded"},
         use[h].pc = "idle", acquire(h, m),
         use' = [use EXCEPT ![h] = [pc |-> pc, m |-> m]], UNCHANGED worker
  PROVE  MemInv'
<1>0. MemRows /\ MemFits /\ MemOneChat /\ LeasedIsNotUnloaded /\ MemUsers /\ MemWorker
  BY Zenon DEF MemInv
<1>1. /\ leases' = leases \union {<<m, h>>}
      /\ minst' = [minst EXCEPT ![m] = acquire_row(m)]
      /\ minst[m].st \in Absent => _admit(m)
  BY Zenon DEF acquire
<1>2. /\ DOMAIN minst' = Models /\ \A n \in Models : n # m => minst'[n] = minst[n]
      /\ minst'[m] = acquire_row(m)
  BY Zenon, <1>0, <1>1 DEF MemRows
<1>3. DOMAIN minst[m] = {"st", "drain", "res", "ep", "idle"}
  BY Zenon, <1>0 DEF MemRows, MemRow
<1>4. /\ DOMAIN minst'[m] = {"st", "drain", "res", "ep", "idle"}
      /\ minst[m].st \in Absent =>
           minst'[m].st = "LOADING" /\ minst'[m].res = Peak[m] /\ minst'[m].drain = minst[m].drain
      /\ minst[m].st = "DRAINING" /\ minst[m].drain = "idle" =>
           minst'[m].st = "READY" /\ minst'[m].drain = "none" /\ minst'[m].res = minst[m].res
      /\ ~(minst[m].st \in Absent) /\ ~(minst[m].st = "DRAINING" /\ minst[m].drain = "idle") =>
           minst'[m].st = minst[m].st /\ minst'[m].drain = minst[m].drain /\ minst'[m].res = minst[m].res
  BY Zenon, <1>2, <1>3 DEF acquire_row, Absent
<1>5. MemRow(minst'[m], m) /\ minst'[m].st # "NOT_LOADED"
  BY Zenon, <1>0, <1>4 DEF MemRows, MemRow, MemStates, Absent, RESIDENT
<1>6. MemRows'
  BY Zenon, <1>0, <1>2, <1>5 DEF MemRows
<1>7. MemOneChat'
  <2>1. ASSUME minst[m].st \in Absent, m \in Generative, NEW n \in Models \cap Generative, n # m
        PROVE  ~(minst[n].st \in RESIDENT)
    BY Zenon, <1>1, <2>1 DEF _admit, Resident
  <2>2. minst[m].st \notin Absent => minst[m].st \in RESIDENT
    BY Zenon, <1>0 DEF MemRows, MemRow, MemStates, Absent, RESIDENT
  <2> QED BY Zenon, <1>0, <1>2, <2>1, <2>2 DEF MemOneChat, Resident
<1>8. LeasedIsNotUnloaded'
  BY Zenon, <1>0, <1>1, <1>2, <1>5 DEF LeasedIsNotUnloaded, Leased
<1>9. MemUsers'
  <2>1. /\ DOMAIN use' = Holders /\ use'[h] = [pc |-> pc, m |-> m]
        /\ \A g \in Holders : g # h => use'[g] = use[g]
    BY Zenon, <1>0 DEF MemUsers
  <2>2. ASSUME NEW n \in Models, minst'[n].drain = "stopping", NEW g \in Holders,
               use'[g] = [pc |-> "using", m |-> n], <<n, g>> \in leases'
        PROVE  FALSE
    <3>1. g # h
      BY Zenon, <2>1, <2>2
    <3>2. use[g] = [pc |-> "using", m |-> n] /\ <<n, g>> \in leases
      BY Zenon, <1>1, <2>1, <2>2, <3>1
    <3>3. minst[n].drain = "stopping"
      BY Zenon, <1>0, <1>2, <1>4, <2>2 DEF MemRows, MemRow, Absent
    <3> QED BY Zenon, <1>0, <3>2, <3>3 DEF MemUsers, InUse
  <2>3. \A g \in Holders : DOMAIN use'[g] = {"pc", "m"}
    BY Zenon, <1>0, <2>1 DEF MemUsers
  <2> QED BY ZenonT(30), <2>1, <2>2, <2>3 DEF MemUsers, InUse
<1>10. MemWorker'
  BY Zenon, <1>0, <1>2, <1>4 DEF MemWorker, MemRows, MemRow, Absent
<1>11. MemFits'
  <2>1. CASE minst[m].st \in Absent
    BY Zenon, <1>0, <1>1, <1>2, <1>6, <2>1, MemAdmitted DEF Resident
  <2>2. CASE minst[m].st \notin Absent
    <3>1. minst[m].st \in RESIDENT
      BY Zenon, <1>0, <2>2 DEF MemRows, MemRow, MemStates, Absent, RESIDENT
    <3> QED BY Zenon, <1>0, <1>2, <1>6, <3>1, MemFewer DEF Resident
  <2> QED BY Zenon, <2>1, <2>2
<1> QED BY Zenon, <1>6, <1>7, <1>8, <1>9, <1>10, <1>11 DEF MemInv

(* Leases go and the idle clock of some models starts. *)
LEMMA MemMarked ==
  ASSUME MemInv, NEW U, minst' = [m \in Models |-> _mark_idle_if_unused(m, U)],
         leases' \subseteq leases, UNCHANGED <<use, worker>>
  PROVE  MemInv'
<1>0. MemRows
  BY Zenon DEF MemInv
<1>1. ASSUME NEW m \in Models
      PROVE  /\ minst'[m].st = minst[m].st /\ minst'[m].drain = minst[m].drain /\ minst'[m].res = minst[m].res
             /\ DOMAIN minst'[m] = {"st", "drain", "res", "ep", "idle"}
  <2>1. DOMAIN minst[m] = {"st", "drain", "res", "ep", "idle"}
    BY Zenon, <1>0 DEF MemRows, MemRow
  <2>2. PICK b : minst'[m] = [minst[m] EXCEPT !.idle = b]
    BY Zenon DEF _mark_idle_if_unused
  <2> QED BY Zenon, <2>1, <2>2
<1>2. \A m \in Models : MemRow(minst'[m], m)
  BY <1>0, <1>1 DEF MemRows, MemRow
<1> QED BY Zenon, <1>1, <1>2, MemRowStep

(* The rest of what the holders and the owner do. *)
LEMMA MemHolder == ASSUME MemInv, HolderNext PROVE MemInv'
<1>0. MemRows /\ MemUsers /\ MemWorker
  BY Zenon DEF MemInv
<1>1. ASSUME NEW h \in Holders, NEW m \in Models, MemRequest(h, m) \/ manual_load(h, m)
      PROVE  MemInv'
  BY Zenon, <1>1, MemAcquire DEF MemRequest, manual_load
<1>2. ASSUME NEW h \in Holders, WaitReady(h)
      PROVE  MemInv'
  <2>1. UNCHANGED <<minst, leases, worker>> /\ MemWorker'
    BY Zenon, <1>0, <1>2 DEF WaitReady, MemWorker
  <2>2. CASE minst[use[h].m].st = "READY" /\ use' = [use EXCEPT ![h].pc = "using"]
    <3>1. /\ DOMAIN use' = Holders /\ \A g \in Holders : DOMAIN use'[g] = {"pc", "m"} /\ (g # h => use'[g] = use[g])
          /\ use'[h].m = use[h].m
      BY Zenon, <1>0, <2>2 DEF MemUsers
    <3>2. use[h].m \in Models => minst[use[h].m].drain # "stopping"
      BY Zenon, <1>0, <2>2 DEF MemRows, MemRow
    <3> QED BY Zenon, <2>1, <3>1, <3>2, MemUseOnly
  <2>3. CASE use' = [use EXCEPT ![h].pc = "done"]
    <3>1. DOMAIN use' = Holders /\ \A g \in Holders : DOMAIN use'[g] = {"pc", "m"} /\ (g # h => use'[g] = use[g])
      BY Zenon, <1>0, <2>3 DEF MemUsers
    <3>2. use'[h].pc = "done"
      BY Zenon, <1>0, <2>3 DEF MemUsers
    <3> QED BY Zenon, <2>1, <3>1, <3>2, MemUseOnly
  <2> QED BY Zenon, <1>2, <2>2, <2>3 DEF WaitReady
<1>3. ASSUME NEW h \in Holders, WaitTimesOut(h) \/ Served(h)
      PROVE  MemInv'
  <2>1. UNCHANGED <<minst, leases, worker>> /\ MemWorker' /\ use' = [use EXCEPT ![h].pc = "done"]
    BY Zenon, <1>0, <1>3 DEF WaitTimesOut, Served, MemWorker
  <2>2. /\ DOMAIN use' = Holders /\ \A g \in Holders : DOMAIN use'[g] = {"pc", "m"} /\ (g # h => use'[g] = use[g])
        /\ use'[h].pc = "done"
    BY Zenon, <1>0, <2>1 DEF MemUsers
  <2> QED BY Zenon, <2>1, <2>2, MemUseOnly
<1>4. ASSUME NEW h \in Holders, KeepLease(h) \/ ReleaseHolder(h)
      PROVE  MemInv'
  <2>1. UNCHANGED <<minst, leases, worker>> /\ MemWorker' /\ use' = [use EXCEPT ![h] = [pc |-> "idle", m |-> Nothing]]
    BY Zenon, <1>0, <1>4 DEF KeepLease, ReleaseHolder, MemWorker
  <2>2. /\ DOMAIN use' = Holders /\ \A g \in Holders : DOMAIN use'[g] = {"pc", "m"} /\ (g # h => use'[g] = use[g])
        /\ use'[h].pc = "idle"
    BY Zenon, <1>0, <2>1 DEF MemUsers
  <2> QED BY Zenon, <2>1, <2>2, MemUseOnly
<1>5. ASSUME NEW h \in Holders, CommitRelease(h)
      PROVE  MemInv'
  BY Zenon, <1>5, MemMarked DEF CommitRelease
<1>6. ASSUME NEW h \in RunHolders, RunEnds(h) \/ RunRetried(h)
      PROVE  MemInv'
  BY Zenon, <1>6, MemElsewhere DEF RunEnds, RunRetried
<1>7. ASSUME NEW m \in Models, NEW force \in BOOLEAN, unload(m, force)
      PROVE  MemInv'
  <2>1. /\ minst[m].st \in RESIDENT /\ UNCHANGED <<use, worker>> /\ leases' \subseteq leases
        /\ minst' = [minst EXCEPT ![m].st = "DRAINING", ![m].drain = "manual"]
    BY Zenon, <1>7 DEF unload, Resident
  <2>2. /\ DOMAIN minst' = Models /\ \A n \in Models : n # m => minst'[n] = minst[n]
        /\ minst'[m].st = "DRAINING" /\ minst'[m].drain = "manual" /\ minst'[m].res = minst[m].res
        /\ DOMAIN minst'[m] = {"st", "drain", "res", "ep", "idle"}
    BY Zenon, <1>0, <2>1 DEF MemRows, MemRow
  <2>3. MemRow(minst'[m], m)
    BY Zenon, <1>0, <2>1, <2>2 DEF MemRows, MemRow, MemStates, RESIDENT
  <2>4. \A n \in Models : MemRow(minst'[n], n)
    BY Zenon, <1>0, <2>2, <2>3 DEF MemRows
  <2> QED BY Zenon, <2>1, <2>2, <2>4, MemRowStep
<1> QED BY Zenon, <1>1, <1>2, <1>3, <1>4, <1>5, <1>6, <1>7 DEF HolderNext

-----------------------------------------------------------------------------
(* handle_unload: a drain that finds no lease can no longer be called off. *)
LEMMA MemUnloadBegins == ASSUME MemInv, UnloadBegins PROVE MemInv'
<1> DEFINE m == worker.m
<1>0. MemRows /\ MemFits /\ MemOneChat /\ LeasedIsNotUnloaded /\ MemUsers /\ MemWorker
  BY Zenon DEF MemInv
<1>1. worker.pc = "unload" /\ m \in Models /\ UNCHANGED <<leases, use>>
  BY Zenon, <1>0 DEF UnloadBegins, MemAt, MemWorker
<1>2. CASE minst[m].st # "DRAINING" /\ MemStep("ok") /\ UNCHANGED minst
  <2>1. MemWorker'
    BY Zenon, <1>0, <1>2 DEF MemWorker, MemStep
  <2> QED BY Zenon, <1>1, <1>2, <2>1, MemWorkerOnly
<1>3. CASE /\ minst[m].st = "DRAINING" /\ minst[m].drain = "idle" /\ MemStep("ok")
           /\ minst' = [minst EXCEPT ![m].st = "READY", ![m].drain = "none"]
  <2>1. /\ DOMAIN minst' = Models /\ \A n \in Models : n # m => minst'[n] = minst[n]
        /\ minst'[m].st = "READY" /\ minst'[m].drain = "none" /\ minst'[m].res = minst[m].res
        /\ DOMAIN minst'[m] = {"st", "drain", "res", "ep", "idle"}
    BY Zenon, <1>0, <1>1, <1>3 DEF MemRows, MemRow
  <2>2. MemRow(minst'[m], m) /\ minst[m].st \in RESIDENT
    BY Zenon, <1>0, <1>1, <1>3, <2>1 DEF MemRows, MemRow, MemStates, RESIDENT
  <2>3. \A n \in Models : MemRow(minst'[n], n)
    BY Zenon, <1>0, <2>1, <2>2 DEF MemRows
  <2>4. worker'.pc = "ok" /\ DOMAIN worker' = DOMAIN worker
    BY Zenon, <1>0, <1>3 DEF MemStep, MemWorker
  <2> QED BY Zenon, <1>1, <1>3, <2>1, <2>2, <2>3, <2>4, MemRowStep
<1>4. CASE /\ minst[m].st = "DRAINING" /\ ~(minst[m].drain = "idle" /\ Leased(m)) /\ MemStep("stop")
           /\ minst' = [minst EXCEPT ![m].drain = IF @ = "manual" THEN @ ELSE "stopping"]
  <2>1. /\ DOMAIN minst' = Models /\ \A n \in Models : n # m => minst'[n] = minst[n]
        /\ minst'[m].st = "DRAINING" /\ minst'[m].res = minst[m].res
        /\ minst'[m].drain = IF minst[m].drain = "manual" THEN "manual" ELSE "stopping"
        /\ DOMAIN minst'[m] = {"st", "drain", "res", "ep", "idle"}
    BY Zenon, <1>0, <1>1, <1>4 DEF MemRows, MemRow
  <2>2. MemRow(minst'[m], m)
    BY Zenon, <1>0, <1>1, <1>4, <2>1 DEF MemRows, MemRow, MemStates
  <2>3. MemRows'
    BY Zenon, <1>0, <2>1, <2>2 DEF MemRows
  <2>4. MemOneChat' /\ LeasedIsNotUnloaded'
    BY <1>0, <1>1, <1>4, <2>1 DEF MemOneChat, Resident, LeasedIsNotUnloaded, Leased
  <2>5. MemUsers'
    <3>1. ASSUME minst'[m].drain = "stopping" PROVE ~InUse(m)
      <4>1. minst[m].drain \in {"idle", "stopping"}
        BY Zenon, <1>0, <1>1, <1>4, <2>1, <3>1 DEF MemRows, MemRow
      <4> QED BY Zenon, <1>0, <1>1, <1>4, <4>1 DEF MemUsers, InUse, Leased
    <3> QED BY Zenon, <1>0, <1>1, <2>1, <3>1 DEF MemUsers, InUse
  <2>6. MemWorker'
    BY Zenon, <1>0, <1>1, <1>4, <2>1 DEF MemWorker, MemStep
  <2>7. MemFits'
    BY Zenon, <1>0, <1>1, <1>4, <2>1, <2>3, MemFewer DEF Resident
  <2> QED BY Zenon, <2>3, <2>4, <2>5, <2>6, <2>7 DEF MemInv
<1> QED BY Zenon, <1>2, <1>3, <1>4 DEF UnloadBegins

(* The end of an unload: a lease that came during the stop starts a reload. *)
LEMMA MemUnloadCommits == ASSUME MemInv, UnloadCommits PROVE MemInv'
<1> DEFINE m == worker.m
           i == [minst[m] EXCEPT !.drain = "none", !.ep = FALSE, !.idle = FALSE]
<1>0. MemRows /\ MemFits /\ MemOneChat /\ LeasedIsNotUnloaded /\ MemUsers /\ MemWorker
  BY Zenon DEF MemInv
<1>1. /\ worker'.pc = "ok" /\ DOMAIN worker' = DOMAIN worker /\ UNCHANGED <<leases, use>>
      /\ MemStep("ok")
  BY Zenon, <1>0 DEF UnloadCommits, MemStep, MemWorker
<1>2. MemWorker'
  BY Zenon, <1>0, <1>1 DEF MemWorker
<1>3. CASE UNCHANGED minst
  BY Zenon, <1>1, <1>2, <1>3, MemWorkerOnly
<1>4. CASE /\ minst[m].st = "DRAINING"
           /\ \/ minst' = [minst EXCEPT ![m] = [i EXCEPT !.st = "LOADING", !.res = Peak[m]]]
              \/ /\ ~(MemAt("removed") /\ Leased(m))
                 /\ minst' = [minst EXCEPT ![m] = [i EXCEPT !.res = 0, !.st = IF MemAt("removed") THEN "NOT_LOADED"
                                                                              ELSE "RUNTIME_ERROR"]]
  <2>1. DOMAIN minst' = Models /\ \A n \in Models : n # m => minst'[n] = minst[n]
    BY Zenon, <1>0, <1>4 DEF MemRows
  <2>2. ASSUME m \in Models
        PROVE  /\ DOMAIN minst'[m] = {"st", "drain", "res", "ep", "idle"} /\ minst'[m].drain = "none"
               /\ \/ minst'[m].st = "LOADING" /\ minst'[m].res = Peak[m]
                  \/ /\ minst'[m].res = 0 /\ minst'[m].st \in {"NOT_LOADED", "RUNTIME_ERROR"}
                     /\ minst'[m].st = "NOT_LOADED" => ~Leased(m)
    <3>1. DOMAIN i = {"st", "drain", "res", "ep", "idle"} /\ i.drain = "none"
      BY Zenon, <1>0, <2>2 DEF MemRows, MemRow
    <3>2. DOMAIN minst = Models
      BY Zenon, <1>0 DEF MemRows
    <3> HIDE DEF i
    <3>3. CASE minst' = [minst EXCEPT ![m] = [i EXCEPT !.st = "LOADING", !.res = Peak[m]]]
      BY Zenon, <2>2, <3>1, <3>2, <3>3
    <3>4. CASE /\ ~(MemAt("removed") /\ Leased(m))
               /\ minst' = [minst EXCEPT ![m] = [i EXCEPT !.res = 0, !.st = IF MemAt("removed") THEN "NOT_LOADED"
                                                                            ELSE "RUNTIME_ERROR"]]
      BY Zenon, <2>2, <3>1, <3>2, <3>4
    <3> QED BY Zenon, <1>4, <3>3, <3>4
  <2>3. m \in Models => MemRow(minst'[m], m)
    BY Zenon, <2>2 DEF MemRow, MemStates, RESIDENT
  <2>4. MemRows'
    BY Zenon, <1>0, <2>1, <2>3 DEF MemRows
  <2>5. MemOneChat'
    BY <1>0, <1>4, <2>1 DEF MemOneChat, Resident, RESIDENT
  <2>6. LeasedIsNotUnloaded'
    BY Zenon, <1>0, <1>1, <2>1, <2>2 DEF LeasedIsNotUnloaded, Leased
  <2>7. MemUsers'
    BY Zenon, <1>0, <1>1, <2>1, <2>2 DEF MemUsers, InUse
  <2>8. MemFits'
    <3>1. m \in Models => minst[m].st \in RESIDENT
      BY Zenon, <1>4 DEF RESIDENT
    <3> QED BY Zenon, <1>0, <2>1, <2>4, <3>1, MemFewer DEF Resident
  <2> QED BY Zenon, <1>2, <2>4, <2>5, <2>6, <2>7, <2>8 DEF MemInv
<1> QED BY Zenon, <1>3, <1>4 DEF UnloadCommits

(* A load ends, well or not. *)
LEMMA MemLoadEnds ==
  ASSUME MemInv, NEW x, NEW j, minst' = [minst EXCEPT ![x] = j], UNCHANGED <<leases, use>>,
         x \in Models => /\ DOMAIN j = {"st", "drain", "res", "ep", "idle"} /\ j.drain = minst[x].drain
                         /\ \/ j.st = minst[x].st /\ j.res = minst[x].res
                            \/ minst[x].st = "LOADING" /\ j.st = "READY" /\ j.res = minst[x].res
                            \/ minst[x].st \in {"LOADING", "READY"} /\ j.st \in {"LOAD_ERROR", "RUNTIME_ERROR"} /\ j.res = 0,
         \/ UNCHANGED worker
         \/ worker'.pc = "ok" /\ DOMAIN worker' = DOMAIN worker
  PROVE  MemInv'
<1>0. MemRows
  BY Zenon DEF MemInv
<1>1. /\ DOMAIN minst' = Models /\ \A n \in Models : n # x => minst'[n] = minst[n]
      /\ x \in Models => minst'[x] = j
  BY Zenon, <1>0 DEF MemRows
<1>2. x \in Models => MemRow(j, x)
  BY Zenon, <1>0 DEF MemRows, MemRow, MemStates, RESIDENT
<1>3. \A n \in Models : MemRow(minst'[n], n)
  BY Zenon, <1>0, <1>1, <1>2 DEF MemRows
<1>4. x \in Models => /\ j.st \in RESIDENT => minst[x].st \in RESIDENT
                      /\ j.st = "NOT_LOADED" => minst[x].st = "NOT_LOADED"
  BY Zenon DEF RESIDENT
<1> QED BY Zenon, <1>1, <1>3, <1>4, MemRowStep

LEMMA MemFailedLoad ==
  ASSUME NEW i, DOMAIN i = {"st", "drain", "res", "ep", "idle"}
  PROVE  LET j == FailedLoad(i)
         IN  /\ DOMAIN j = {"st", "drain", "res", "ep", "idle"} /\ j.drain = i.drain
             /\ \/ j.st = i.st /\ j.res = i.res
                \/ i.st = "LOADING" /\ j.st = "LOAD_ERROR" /\ j.res = 0
BY Zenon DEF FailedLoad

LEMMA MemWorkerNext == ASSUME MemInv, WorkerNext PROVE MemInv'
<1>0. MemRows /\ MemWorker
  BY Zenon DEF MemInv
<1>1. ASSUME NEW m \in Models, ClaimLoad(m) \/ ClaimUnload(m)
      PROVE  MemInv'
  <2>1. UNCHANGED <<minst, leases, use>> /\ MemWorker'
    BY <1>1 DEF ClaimLoad, ClaimUnload, MemWorker
  <2> QED BY Zenon, <2>1, MemWorkerOnly
<1>2. CASE LoadBegins \/ LoadPrepares \/ LoadStarts \/ LoadPolls \/ LoadFailStops
  <2>1. /\ UNCHANGED <<minst, leases, use>>
        /\ \E pc \in {"prepare", "ok", "start", "fail_stop", "poll", "ready", "failed"} : MemStep(pc)
    BY Zenon, <1>2 DEF LoadBegins, LoadPrepares, LoadStarts, LoadPolls,
                LoadFailStops
  <2>2. MemWorker'
    BY Zenon, <1>0, <2>1 DEF MemWorker, MemStep
  <2> QED BY Zenon, <2>1, <2>2, MemWorkerOnly
<1>3. CASE UnloadStops \/ MemReport
  <2>1. /\ UNCHANGED <<minst, leases, use>>
        /\ \/ \E pc \in {"removed", "present", "err"} : MemStep(pc)
           \/ worker' = [pc |-> "free", m |-> Nothing, kind |-> "load"]
    BY Zenon, <1>3 DEF UnloadStops, MemReport
  <2>2. MemWorker'
    BY <1>0, <2>1 DEF MemWorker, MemStep
  <2> QED BY Zenon, <2>1, <2>2, MemWorkerOnly
<1>4. CASE LoadCommits
  <2> DEFINE m == worker.m
             j == IF minst[m].st = "LOADING"
                  THEN [minst[m] EXCEPT !.st = "READY", !.ep = TRUE, !.idle = ~Leased(m)] ELSE minst[m]
  <2>1. /\ minst' = [minst EXCEPT ![m] = j] /\ UNCHANGED <<leases, use>>
        /\ worker'.pc = "ok" /\ DOMAIN worker' = DOMAIN worker
    BY Zenon, <1>0, <1>4 DEF LoadCommits, MemStep, MemWorker
  <2>2. m \in Models => /\ DOMAIN j = {"st", "drain", "res", "ep", "idle"} /\ j.drain = minst[m].drain
                        /\ \/ j.st = minst[m].st /\ j.res = minst[m].res
                           \/ minst[m].st = "LOADING" /\ j.st = "READY" /\ j.res = minst[m].res
    <3>1. PICK b : j = IF minst[m].st = "LOADING" THEN [minst[m] EXCEPT !.st = "READY", !.ep = TRUE, !.idle = b] ELSE minst[m]
      BY Zenon
    <3> HIDE DEF j
    <3> QED BY Zenon, <1>0, <3>1 DEF MemRows, MemRow
  <2> HIDE DEF j
  <2> QED BY ZenonT(30), <2>1, <2>2, MemLoadEnds
<1>5. CASE LoadFailCommits
  <2> DEFINE m == worker.m
             j == FailedLoad(minst[m])
  <2>1. /\ minst' = [minst EXCEPT ![m] = j] /\ UNCHANGED <<leases, use>>
        /\ worker'.pc = "ok" /\ DOMAIN worker' = DOMAIN worker
    BY Zenon, <1>0, <1>5 DEF LoadFailCommits, MemStep, MemWorker
  <2> QED BY ZenonT(30), <1>0, <2>1, MemFailedLoad, MemLoadEnds DEF MemRows, MemRow
<1>6. CASE UnloadBegins
  BY Zenon, <1>6, MemUnloadBegins
<1>7. CASE UnloadCommits
  BY Zenon, <1>7, MemUnloadCommits
<1> QED BY Zenon, <1>1, <1>2, <1>3, <1>4, <1>5, <1>6, <1>7 DEF WorkerNext

LEMMA MemDrainIdle == ASSUME MemInv, DrainIdle PROVE MemInv'
<1>0. MemRows
  BY Zenon DEF MemInv
<1>1. PICK S \in SUBSET {m \in Models : minst[m].st = "READY" /\ ~Leased(m)} :
      \E D \in SUBSET {m \in S : minst[m].idle} :
        minst' = [m \in Models |->
                   IF m \in D THEN [minst[m] EXCEPT !.st = "DRAINING", !.drain = "idle"]
                   ELSE IF m \in S THEN [minst[m] EXCEPT !.idle = TRUE] ELSE minst[m]]
  BY ZenonT(30) DEF DrainIdle
<1>2. PICK D \in SUBSET {m \in S : minst[m].idle} :
        minst' = [m \in Models |->
                   IF m \in D THEN [minst[m] EXCEPT !.st = "DRAINING", !.drain = "idle"]
                   ELSE IF m \in S THEN [minst[m] EXCEPT !.idle = TRUE] ELSE minst[m]]
  BY ZenonT(30), <1>1
<1>3. \A m \in Models : m \in S \/ m \in D => minst[m].st = "READY"
  BY ZenonT(30), <1>1, <1>2
<1>4. ASSUME NEW m \in Models
      PROVE  /\ DOMAIN minst'[m] = {"st", "drain", "res", "ep", "idle"} /\ minst'[m].res = minst[m].res
             /\ \/ minst'[m].st = minst[m].st /\ minst'[m].drain = minst[m].drain
                \/ minst[m].st = "READY" /\ minst'[m].st = "DRAINING" /\ minst'[m].drain = "idle"
  BY ZenonT(30), <1>0, <1>2, <1>3 DEF MemRows, MemRow
<1>5. \A m \in Models : /\ MemRow(minst'[m], m)
                        /\ minst'[m].st \in RESIDENT => minst[m].st \in RESIDENT
                        /\ minst'[m].st = "NOT_LOADED" => minst[m].st = "NOT_LOADED"
                        /\ minst'[m].drain = "stopping" => minst[m].drain = "stopping"
                        /\ minst[m].drain \in {"stopping", "manual"} => minst'[m].drain \in {"stopping", "manual"}
  BY <1>0, <1>4 DEF MemRows, MemRow, MemStates, RESIDENT
<1>6. UNCHANGED <<leases, use, worker>> /\ DOMAIN minst' = Models
  BY Zenon, <1>2 DEF DrainIdle
<1> QED BY Zenon, <1>5, <1>6, MemRowStep

LEMMA MemLeaderNext == ASSUME MemInv, LeaderNext PROVE MemInv'
<1>0. MemRows
  BY Zenon DEF MemInv
<1>1. CASE \/ reap_jobs \/ FindEndedRuns \/ RunsReleased \/ StopCrashed \/ Probed
           \/ RecoverFailStops \/ Recovered \/ StopOrphan \/ Reaped \/ LeaderError
           \/ \E h \in Holders : ReleaseEndedRun(h)
           \/ \E m \in Models : \/ ProbeReady(m) \/ RecoverLoad(m) \/ RecoverUnload(m)
                                \/ FindOrphan(m)
  <2>1. UNCHANGED <<minst, leases, use, worker>>
    BY Zenon, <1>1 DEF reap_jobs, FindEndedRuns, RunsReleased, StopCrashed,
                Probed,
         RecoverFailStops, Recovered, StopOrphan, Reaped, LeaderError,
         ReleaseEndedRun, ProbeReady, RecoverLoad, RecoverUnload, FindOrphan
  <2> QED BY SMTT(30), <2>1, MemElsewhere
<1>2. CASE ExpireLeases
  <2>1. PICK E \in SUBSET {l \in leases : ~Releasing(l[2])} :
          LET left == leases \ E
              unused == {m \in Models : /\ \E l \in E : l[1] = m
                                        /\ \A l \in left : l[1] # m}
          IN  /\ leases' = left
              /\ minst' = [m \in Models |-> _mark_idle_if_unused(m, unused)]
    BY Zenon, <1>2 DEF ExpireLeases
  <2>2. UNCHANGED <<use, worker>> /\ leases' \subseteq leases
    BY Zenon, <1>2, <2>1 DEF ExpireLeases
  <2> QED BY Zenon, <2>1, <2>2, MemMarked
<1>3. CASE DrainIdle
  BY Zenon, <1>3, MemDrainIdle
<1>4. CASE MarkCrashed
  <2> DEFINE m == leader.m
             j == [minst[m] EXCEPT !.st = "RUNTIME_ERROR", !.res = 0, !.ep = FALSE]
  <2>1. CASE UNCHANGED minst
    BY Zenon, <1>4, <2>1, MemElsewhere DEF MarkCrashed
  <2>2. CASE minst[m].st = "READY" /\ minst' = [minst EXCEPT ![m] = j]
    <3>1. UNCHANGED <<leases, use, worker>>
      BY Zenon, <1>4 DEF MarkCrashed
    <3>2. m \in Models => /\ DOMAIN j = {"st", "drain", "res", "ep", "idle"} /\ j.drain = minst[m].drain
                          /\ j.st = "RUNTIME_ERROR" /\ j.res = 0
      BY Zenon, <1>0 DEF MemRows, MemRow
    <3> HIDE DEF j
    <3> QED BY Zenon, <2>2, <3>1, <3>2, MemLoadEnds
  <2> QED BY Zenon, <1>4, <2>1, <2>2 DEF MarkCrashed
<1>5. CASE AdoptLoad
  <2> DEFINE m == leader.m
             j == IF minst[m].st = "LOADING" THEN [minst[m] EXCEPT !.st = "READY", !.ep = TRUE] ELSE minst[m]
  <2>1. minst' = [minst EXCEPT ![m] = j] /\ UNCHANGED <<leases, use, worker>>
    BY Zenon, <1>5 DEF AdoptLoad
  <2>2. m \in Models => /\ DOMAIN j = {"st", "drain", "res", "ep", "idle"} /\ j.drain = minst[m].drain
                        /\ \/ j.st = minst[m].st /\ j.res = minst[m].res
                           \/ minst[m].st = "LOADING" /\ j.st = "READY" /\ j.res = minst[m].res
    BY Zenon, <1>0 DEF MemRows, MemRow
  <2> HIDE DEF j
  <2> QED BY Zenon, <2>1, <2>2, MemLoadEnds
<1>6. CASE RecoverFailCommits
  <2> DEFINE m == leader.m
             j == FailedLoad(minst[m])
  <2>1. minst' = [minst EXCEPT ![m] = j] /\ UNCHANGED <<leases, use, worker>>
    BY Zenon, <1>6 DEF RecoverFailCommits
  <2> QED BY ZenonT(30), <1>0, <2>1, MemFailedLoad, MemLoadEnds DEF MemRows, MemRow
<1> QED BY Zenon, <1>1, <1>2, <1>3, <1>4, <1>5, <1>6 DEF LeaderNext

LEMMA MemSteps == ASSUME MemInv, [MemNext]_memVars PROVE MemInv'
<1>1. CASE HolderNext
  BY Zenon, <1>1, MemHolder
<1>2. CASE WorkerNext
  BY Zenon, <1>2, MemWorkerNext
<1>3. CASE LeaderNext
  BY Zenon, <1>3, MemLeaderNext
<1>4. CASE MemCrash
  <2>1. UNCHANGED <<minst, leases>> /\ MemWorker'
    BY SMTT(30), <1>4 DEF MemCrash, MemWorker
  <2>2. /\ DOMAIN use' = Holders
        /\ \A h \in Holders : DOMAIN use'[h] = {"pc", "m"} /\ use'[h].pc # "using"
    BY Zenon, <1>4 DEF MemCrash
  <2> QED BY SMTT(30), <2>1, <2>2, MemUseOnly
<1>5. CASE \E m \in Models : ServerExits(m) \/ LateStart(m)
  BY Zenon, <1>5, MemElsewhere DEF ServerExits, LateStart
<1>6. CASE UNCHANGED memVars
  BY Zenon, <1>6, MemElsewhere DEF memVars
<1> QED BY Zenon, <1>1, <1>2, <1>3, <1>4, <1>5, <1>6 DEF MemNext

(* The inductive invariant of the residency of models. *)
THEOREM MemInvariant == MemSpec => []MemInv
<1>1. MemInit => MemInv
  BY Zenon, MemStarts
<1>2. MemInv /\ [MemNext]_memVars => MemInv'
  BY Zenon, MemSteps
<1> QED BY <1>1, <1>2, PTL DEF MemSpec

(* With sums that add up, the invariant says that the memory is enough. *)
LEMMA MemEnough == ASSUME MemGiven, Generative \subseteq Models, MemInv PROVE MemoryFits
<1>1. ReservedWhileResident
  BY Zenon DEF MemInv, MemRows, MemRow, ReservedWhileResident, Resident
<1>2. OneChatModel
  BY Zenon DEF MemInv, MemOneChat, OneChatModel
<1> QED BY Zenon, <1>1, <1>2 DEF MemInv, MemFits, MemoryFits

(* What it takes for a drain to be safe: it has a reason, no lease is left on a model that was
   quietly unloaded, and the unload job never stops a server under a request that holds its lease,
   unless the owner said so. *)
DrainsAreSafe ==
  DrainHasReason /\ LeasedIsNotUnloaded /\ UnloadSparesUsers

(* No model is unloaded under a user, for any models, holders, runs, faults and numbers of crashes,
   although jobs are executed twice and the leader recovers what dead workers left. *)
THEOREM MemDrains == MemSpec => []DrainsAreSafe
<1>1. MemInv => DrainHasReason
  BY Zenon DEF MemInv, MemRows, MemRow, DrainHasReason
<1>2. MemInv => LeasedIsNotUnloaded
  BY Zenon DEF MemInv
<1>3. MemInv => UnloadSparesUsers
  BY Zenon DEF MemInv, MemUsers, MemWorker, UnloadSparesUsers
<1> QED BY <1>1, <1>2, <1>3, MemInvariant, PTL DEF DrainsAreSafe

-----------------------------------------------------------------------------
(* ModelStore: what the daemon reports as installed is all there.          *)

(* The requests for one model come one after the other, a cancellation waits
   for the thread, and no restart falls into a deletion. *)
StoreOrderly == StoreFaults \cap {"overlap", "slow_join", "torn"} = {}

StoreInv ==
  /\ DOMAIN thread = {"pc", "held"} /\ target \in {"none", "complete", "only_manifest", "no_manifest"}
  /\ staging \in {"none", "partial", "complete"}
  /\ can \in {"none", "join", "clear", "clear_state"} /\ del \in {"none", "mark", "target", "target_rest", "staging", "finish"}
  /\ can \in {"clear", "clear_state"} => thread = StoreIdle
  /\ del # "none" => thread = StoreIdle /\ can = "none"
  /\ thread.pc \in {"fetch", "progress"} => staging # "none"
  /\ thread.pc \in {"last", "manifest", "rename"} => staging = "complete"
  /\ del \in {"target", "target_rest", "staging", "finish"} => storeFile = "DELETING"
  /\ del # "target_rest" => target \in {"none", "complete"}

LEMMA StoreSteps == ASSUME StoreOrderly, StoreInv, [StoreNext]_storeVars PROVE StoreInv'
<1> USE DEF StoreAt, Go, StoreIdle
<1>i. thread = StoreIdle => thread.pc = "none"
  OBVIOUS
<1>1. CASE start_install \/ CancelInstall \/ DeleteFiles
  BY Zenon, <1>1 DEF StoreOrderly, StoreInv, start_install, CancelInstall, DeleteFiles
<1>2. CASE Download
  <2>0. del = "none" /\ can \in {"none", "join"}
    BY <1>2 DEF StoreInv, Download, Plan, Fetch, Progress, StoreVerify,
                WriteManifest,
                StorePublish, WriteInstalled, WriteError, ThreadEnds
  <2>1. CASE Plan \/ Fetch \/ Progress
    BY <2>0, <2>1 DEF StoreInv, Plan, Fetch, Progress
  <2>2. CASE StoreVerify \/ WriteManifest \/ StorePublish
    BY Zenon, <2>0, <2>2 DEF StoreInv, StoreVerify, WriteManifest, StorePublish
  <2>3. CASE WriteInstalled \/ WriteError \/ ThreadEnds
    BY SMTT(30), <2>0, <2>3 DEF StoreInv, WriteInstalled, WriteError, ThreadEnds
  <2> QED BY Zenon, <1>2, <2>1, <2>2, <2>3 DEF Download
<1>3. CASE Cancelling
  BY <1>3 DEF StoreOrderly, StoreInv, Cancelling, Joined, ClearStaging, ClearState
<1>4. CASE Deleting
  BY <1>4 DEF StoreInv, Deleting, MarkDeleting, RemoveSome, RemoveRest,
              RemoveStaging, Deleted
<1>5. CASE Mirroring \/ Loading
  BY SMTT(30), <1>5 DEF StoreInv, Mirroring, ReadState, refresh_installation, Loading,
              Lease,
              StartChecked, ContainerCreated, Unloaded
<1>6. CASE StoreRestart
  BY Zenon, <1>6 DEF StoreOrderly, StoreInv, StoreRestart
<1>7. CASE UNCHANGED storeVars
  BY Zenon, <1>7 DEF StoreInv, storeVars
<1> QED BY Zenon, <1>1, <1>2, <1>3, <1>4, <1>5, <1>6, <1>7 DEF StoreNext

(* A model the daemon reports as installed has all its files, through failed,
   cancelled, resumed and interrupted downloads and through deletions. *)
THEOREM StoreComplete == ASSUME StoreOrderly PROVE StoreSpec => []InstalledIsComplete
<1>1. StoreInit => StoreInv
  BY DEF StoreInit, StoreInv, StoreIdle
<1>2. StoreInv /\ [StoreNext]_storeVars => StoreInv'
  BY Zenon, StoreSteps
<1>3. StoreInv => InstalledIsComplete
  BY Zenon DEF StoreInv, InstalledIsComplete, state, HasManifest
<1> QED BY <1>1, <1>2, <1>3, PTL DEF StoreSpec

-----------------------------------------------------------------------------
(* ProviderKeys: a deleted key is out of use, and what is shown is routed. *)

CloudParameters == Window \in Nat /\ \E n \in Nat : Profiles \subseteq 0..n

CloudRows ==
  /\ now \in Nat /\ DOMAIN keyRow = Profiles /\ DOMAIN enabled = Profiles /\ DOMAIN deleted = Profiles /\ DOMAIN cache = Profiles
  /\ DOMAIN keyUser = KeyUsers /\ DOMAIN test = Tests
  /\ \A p \in Profiles : keyRow[p] \in {"absent", "UNTESTED", "CONNECTED", "ERROR"} /\ enabled[p] \in BOOLEAN

(* A key is cached for a window that counts from before it was read, so from
   before the profile was deleted. *)
CloudKey(p) ==
  /\ deleted[p] \in Int /\ cache[p] \in Int /\ cache[p] <= now + Window
  /\ deleted[p] # -1 => /\ keyRow[p] = "absent" /\ deleted[p] <= now /\ deleted[p] \in Nat
                        /\ cache[p] <= deleted[p] + Window

(* A read that is under way, of a run's request or of a test. *)
CloudRead(c) ==
  /\ {"pc", "p", "at"} \subseteq DOMAIN c /\ c.at \in Nat /\ c.at <= now
  /\ c.pc # "idle" => c.p \in Profiles
  /\ c.pc = "loaded" /\ deleted[c.p] # -1 => c.at <= deleted[c.p]

CloudInv ==
  /\ CloudRows
  /\ \A p \in Profiles : CloudKey(p)
  /\ \A u \in KeyUsers : CloudRead(keyUser[u])
  /\ \A t \in Tests : CloudRead(test[t])

LEMMA CloudStarts == ASSUME CloudParameters, CloudInit PROVE CloudInv
<1>1. CloudRows
  BY Zenon DEF CloudInit, CloudRows
<1>2. \A p \in Profiles : CloudKey(p)
  BY SMTT(30) DEF CloudInit, CloudKey, CloudParameters
<1>3. (\A u \in KeyUsers : CloudRead(keyUser[u])) /\ (\A t \in Tests : CloudRead(test[t]))
  BY DEF CloudInit, CloudRead
<1> QED BY Zenon, <1>1, <1>2, <1>3 DEF CloudInv

(* What is stored counts from before the profile was deleted, and a copy may be
   dropped at any time. *)
LEMMA CloudCached ==
  ASSUME CloudParameters, CloudInv, UNCHANGED <<deleted, keyRow, now>>, NEW q \in Profiles,
         \/ cache' \in {cache, [cache EXCEPT ![q] = -1]}
         \/ \E at \in Nat : /\ at <= now /\ (deleted[q] # -1 => at <= deleted[q])
                            /\ cache' = Stored(q, at)
  PROVE  DOMAIN cache' = Profiles /\ \A p \in Profiles : CloudKey(p)'
<1>1. CloudRows /\ (\A p \in Profiles : CloudKey(p)) /\ Window \in Nat /\ now \in Nat
  BY Zenon DEF CloudInv, CloudParameters, CloudRows
<1>2. CASE cache' \in {cache, [cache EXCEPT ![q] = -1]}
  <2>1. DOMAIN cache' = Profiles /\ \A p \in Profiles : cache'[p] = cache[p] \/ cache'[p] = -1
    BY Zenon, <1>1, <1>2 DEF CloudRows
  <2> QED BY <1>1, <2>1 DEF CloudKey
<1>3. ASSUME NEW at \in Nat, at <= now, deleted[q] # -1 => at <= deleted[q], cache' = Stored(q, at)
      PROVE  DOMAIN cache' = Profiles /\ \A p \in Profiles : CloudKey(p)'
  <2>1. DOMAIN cache' = Profiles /\ \A p \in Profiles : cache'[p] = IF p = q THEN at + Window ELSE cache[p]
    BY Zenon, <1>1, <1>3 DEF CloudRows, Stored
  <2> QED BY <1>1, <1>3, <2>1 DEF CloudKey
<1> QED BY Zenon, <1>2, <1>3

LEMMA CloudUser ==
  ASSUME CloudParameters, CloudInv, NEW u \in KeyUsers,
         ChooseProfile(u) \/ api_key(u) \/ LoadKey(u) \/ CacheKey(u) \/ UseKey(u)
  PROVE  CloudInv'
<1>0. CloudRows /\ CloudRead(keyUser[u]) /\ \A p \in Profiles : CloudKey(p)
  BY Zenon DEF CloudInv
<1>1. UNCHANGED <<keyRow, enabled, deleted, test, now>>
  BY Zenon DEF ChooseProfile, api_key, LoadKey, CacheKey, UseKey
<1>2. DOMAIN keyUser' = KeyUsers /\ \A v \in KeyUsers : v # u => keyUser'[v] = keyUser[v]
  BY Zenon, <1>0 DEF CloudRows, ChooseProfile, api_key, LoadKey, CacheKey, UseKey
<1>3. CloudRead(keyUser[u])' /\ DOMAIN cache' = Profiles /\ \A p \in Profiles : CloudKey(p)'
  <2>1. CASE ChooseProfile(u)
    <3>1. PICK p \in profile : keyUser'[u] = [pc |-> "key", p |-> p, at |-> 0]
      BY ZenonT(30), <1>0, <2>1 DEF ChooseProfile, CloudRows
    <3>2. p \in Profiles
      BY ZenonT(30), <3>1 DEF profile
    <3>3. CloudRead(keyUser[u])'
      BY <1>0, <1>1, <3>1, <3>2 DEF CloudRead, CloudRows
    <3> QED BY ZenonT(30), <1>0, <1>1, <2>1, <3>3 DEF ChooseProfile, CloudKey, CloudRows
  <2>2. CASE api_key(u)
    <3>1. /\ keyUser'[u].pc \in {"use", "load"} /\ keyUser'[u].at \in {keyUser[u].at, now} /\ keyUser'[u].p = keyUser[u].p
          /\ DOMAIN keyUser'[u] = DOMAIN keyUser[u] /\ keyUser[u].pc = "key" /\ UNCHANGED cache
      BY SMTT(30), <1>0, <2>2 DEF api_key, CloudRows, CloudRead
    <3>2. CloudRead(keyUser[u])'
      BY <1>0, <1>1, <3>1 DEF CloudRead, CloudRows
    <3> QED BY Zenon, <1>0, <1>1, <3>1, <3>2 DEF CloudKey, CloudRows
  <2>3. CASE LoadKey(u)
    <3>0. keyUser[u].pc = "load" /\ keyUser[u].p \in Profiles
      BY Zenon, <1>0, <2>3 DEF LoadKey, CloudRead
    <3>1. /\ keyUser'[u].pc \in {"loaded", "idle"} /\ keyUser'[u].at = keyUser[u].at /\ keyUser'[u].p = keyUser[u].p
          /\ DOMAIN keyUser'[u] = DOMAIN keyUser[u] /\ (keyUser'[u].pc = "loaded" => keyRow[keyUser[u].p] # "absent")
          /\ cache' = [cache EXCEPT ![keyUser[u].p] = -1] \/ cache' = cache
      BY <1>0, <2>3 DEF LoadKey, CloudRows, CloudRead
    <3>2. keyUser'[u].pc = "loaded" => deleted[keyUser[u].p] = -1
      BY ZenonT(30), <1>0, <3>0, <3>1 DEF CloudKey
    <3>3. CloudRead(keyUser[u])'
      BY ZenonT(30), <1>0, <1>1, <3>0, <3>1, <3>2 DEF CloudRead, CloudRows
    <3> QED BY ZenonT(30), <1>1, <3>0, <3>1, <3>3, CloudCached
  <2>4. CASE CacheKey(u)
    <3>0. keyUser[u].pc = "loaded" /\ keyUser[u].p \in Profiles
      BY Zenon, <1>0, <2>4 DEF CacheKey, CloudRead
    <3>1. /\ keyUser'[u].pc = "use" /\ keyUser'[u].at = keyUser[u].at /\ keyUser'[u].p = keyUser[u].p
          /\ DOMAIN keyUser'[u] = DOMAIN keyUser[u] /\ cache' = Stored(keyUser[u].p, keyUser[u].at)
      BY Zenon, <1>0, <2>4 DEF CacheKey, CloudRows, CloudRead
    <3>3. CloudRead(keyUser[u])'
      BY ZenonT(30), <1>0, <1>1, <3>0, <3>1 DEF CloudRead, CloudRows
    <3>4. keyUser[u].at \in Nat /\ keyUser[u].at <= now /\ (deleted[keyUser[u].p] # -1 => keyUser[u].at <= deleted[keyUser[u].p])
      BY Zenon, <1>0, <3>0 DEF CloudRead
    <3> QED BY ZenonT(30), <1>1, <3>0, <3>1, <3>3, <3>4, CloudCached
  <2>5. CASE UseKey(u)
    <3>1. /\ keyUser'[u].pc = "idle" /\ keyUser'[u].at = keyUser[u].at /\ keyUser'[u].p = keyUser[u].p
          /\ DOMAIN keyUser'[u] = DOMAIN keyUser[u] /\ UNCHANGED cache
      BY SMTT(30), <1>0, <2>5 DEF UseKey, CloudRows, CloudRead
    <3>2. CloudRead(keyUser[u])'
      BY Zenon, <1>0, <1>1, <3>1 DEF CloudRead, CloudRows
    <3> QED BY ZenonT(30), <1>0, <1>1, <3>1, <3>2 DEF CloudKey, CloudRows
  <2> QED BY Zenon, <2>1, <2>2, <2>3, <2>4, <2>5
<1>4. (\A v \in KeyUsers : CloudRead(keyUser[v])') /\ (\A t \in Tests : CloudRead(test[t])')
  BY ZenonT(30), <1>1, <1>2, <1>3 DEF CloudInv, CloudRead
<1>5. CloudRows'
  BY ZenonT(30), <1>0, <1>1, <1>2, <1>3 DEF CloudRows
<1> QED BY ZenonT(30), <1>3, <1>4, <1>5 DEF CloudInv

LEMMA CloudTest ==
  ASSUME CloudParameters, CloudInv, NEW t \in Tests,
         TestReads(t) \/ TestLoads(t) \/ TestCaches(t) \/ Verify(t)
  PROVE  CloudInv'
<1>0. CloudRows /\ CloudRead(test[t]) /\ \A p \in Profiles : CloudKey(p)
  BY Zenon DEF CloudInv
<1>1. UNCHANGED <<keyRow, enabled, deleted, keyUser, now>>
  BY Zenon DEF TestReads, TestLoads, TestCaches, Verify
<1>2. DOMAIN test' = Tests /\ \A v \in Tests : v # t => test'[v] = test[v]
  BY Zenon, <1>0 DEF CloudRows, TestReads, TestLoads, TestCaches, Verify
<1>3. CloudRead(test[t])' /\ DOMAIN cache' = Profiles /\ \A p \in Profiles : CloudKey(p)'
  <2>1. CASE TestReads(t)
    <3>1. PICK p \in Profiles : test'[t] = [pc |-> "load", p |-> p, was |-> keyRow[p], out |-> "none", at |-> now]
      BY ZenonT(30), <1>0, <2>1 DEF TestReads, CloudRows
    <3>2. CloudRead(test[t])'
      BY <1>0, <1>1, <3>1 DEF CloudRead, CloudRows
    <3> QED BY ZenonT(30), <1>0, <1>1, <2>1, <3>2 DEF TestReads, CloudKey, CloudRows
  <2>2. CASE TestLoads(t)
    <3>0. test[t].pc = "load" /\ test[t].p \in Profiles
      BY Zenon, <1>0, <2>2 DEF TestLoads, CloudRead
    <3>1. /\ test'[t].pc \in {"loaded", "store"} /\ test'[t].at = test[t].at /\ test'[t].p = test[t].p
          /\ DOMAIN test'[t] = DOMAIN test[t] /\ (test'[t].pc = "loaded" => keyRow[test[t].p] # "absent")
          /\ cache' \in {cache, [cache EXCEPT ![test[t].p] = -1]}
      BY <1>0, <2>2 DEF TestLoads, CloudRows, CloudRead
    <3>2. test'[t].pc = "loaded" => deleted[test[t].p] = -1
      BY ZenonT(30), <1>0, <3>0, <3>1 DEF CloudKey
    <3>3. CloudRead(test[t])'
      BY ZenonT(30), <1>0, <1>1, <3>0, <3>1, <3>2 DEF CloudRead, CloudRows
    <3> QED BY ZenonT(30), <1>1, <3>0, <3>1, <3>3, CloudCached
  <2>3. CASE TestCaches(t)
    <3>0. test[t].pc = "loaded" /\ test[t].p \in Profiles
      BY Zenon, <1>0, <2>3 DEF TestCaches, CloudRead
    <3>1. /\ test'[t].pc = "verify" /\ test'[t].at = test[t].at /\ test'[t].p = test[t].p
          /\ DOMAIN test'[t] = DOMAIN test[t] /\ cache' = Stored(test[t].p, test[t].at)
      BY Zenon, <1>0, <2>3 DEF TestCaches, CloudRows, CloudRead
    <3>3. CloudRead(test[t])'
      BY Zenon, <1>0, <1>1, <3>0, <3>1 DEF CloudRead, CloudRows
    <3>4. test[t].at \in Nat /\ test[t].at <= now /\ (deleted[test[t].p] # -1 => test[t].at <= deleted[test[t].p])
      BY Zenon, <1>0, <3>0 DEF CloudRead
    <3> QED BY ZenonT(30), <1>1, <3>0, <3>1, <3>3, <3>4, CloudCached
  <2>4. CASE Verify(t)
    <3>0. test[t].pc = "verify" /\ test[t].p \in Profiles
      BY Zenon, <1>0, <2>4 DEF Verify, CloudRead
    <3>1. /\ test'[t].pc = "store" /\ test'[t].at = test[t].at /\ test'[t].p = test[t].p
          /\ DOMAIN test'[t] = DOMAIN test[t] /\ cache' = [cache EXCEPT ![test[t].p] = -1]
      BY <1>0, <2>4 DEF Verify, CloudRows, CloudRead
    <3>2. CloudRead(test[t])'
      BY ZenonT(30), <1>0, <1>1, <3>0, <3>1 DEF CloudRead, CloudRows
    <3> QED BY ZenonT(30), <1>1, <3>0, <3>1, <3>2, CloudCached
  <2> QED BY Zenon, <2>1, <2>2, <2>3, <2>4
<1>4. (\A v \in Tests : CloudRead(test[v])') /\ (\A u \in KeyUsers : CloudRead(keyUser[u])')
  BY ZenonT(30), <1>1, <1>2, <1>3 DEF CloudInv, CloudRead
<1>5. CloudRows'
  BY Zenon, <1>0, <1>1, <1>2, <1>3 DEF CloudRows
<1> QED BY ZenonT(30), <1>3, <1>4, <1>5 DEF CloudInv

(* The broker's transactions and the clock. *)
LEMMA CloudBroker ==
  ASSUME CloudParameters, CloudInv,
         \/ \E p \in Profiles : create_profile(p) \/ delete_profile(p)
         \/ \E t \in Tests : TestStores(t)
         \/ Tick
  PROVE  CloudInv'
<1>0. CloudRows /\ (\A p \in Profiles : CloudKey(p)) /\ Window \in Nat
      /\ (\A u \in KeyUsers : CloudRead(keyUser[u])) /\ (\A t \in Tests : CloudRead(test[t]))
  BY Zenon DEF CloudInv, CloudParameters
<1>1. ASSUME NEW p \in Profiles, create_profile(p) PROVE CloudInv'
  <2>1. /\ DOMAIN keyRow' = Profiles /\ DOMAIN enabled' = Profiles /\ UNCHANGED <<deleted, cache, test, keyUser, now>>
        /\ \A q \in Profiles : q # p => keyRow'[q] = keyRow[q] /\ enabled'[q] = enabled[q]
        /\ keyRow'[p] = "UNTESTED" /\ enabled'[p] \in BOOLEAN /\ deleted[p] = -1
    BY ZenonT(30), <1>0, <1>1 DEF create_profile, CloudRows
  <2>2. CloudRows'
    BY Zenon, <1>0, <2>1 DEF CloudRows
  <2>3. \A q \in Profiles : CloudKey(q)'
    BY ZenonT(30), <1>0, <2>1 DEF CloudKey
  <2>4. (\A u \in KeyUsers : CloudRead(keyUser[u])') /\ (\A t \in Tests : CloudRead(test[t])')
    BY Zenon, <1>0, <2>1 DEF CloudRead
  <2> QED BY ZenonT(30), <2>2, <2>3, <2>4 DEF CloudInv
<1>2. ASSUME NEW p \in Profiles, delete_profile(p) PROVE CloudInv'
  <2>1. /\ DOMAIN keyRow' = Profiles /\ DOMAIN deleted' = Profiles /\ UNCHANGED <<enabled, cache, test, keyUser, now>>
        /\ \A q \in Profiles : q # p => keyRow'[q] = keyRow[q] /\ deleted'[q] = deleted[q]
        /\ keyRow'[p] = "absent" /\ deleted'[p] = now /\ keyRow[p] # "absent"
    BY ZenonT(30), <1>0, <1>2 DEF delete_profile, CloudRows
  <2>2. CloudRows'
    BY ZenonT(30), <1>0, <2>1 DEF CloudRows
  <2>3. \A q \in Profiles : CloudKey(q)'
    BY SMTT(30), <1>0, <2>1 DEF CloudKey, CloudRows
  <2>4. (\A u \in KeyUsers : CloudRead(keyUser[u])') /\ (\A t \in Tests : CloudRead(test[t])')
    BY Zenon, <1>0, <2>1 DEF CloudRead
  <2> QED BY Zenon, <2>2, <2>3, <2>4 DEF CloudInv
<1>3. ASSUME NEW t \in Tests, TestStores(t) PROVE CloudInv'
  <2>1. /\ UNCHANGED <<enabled, deleted, cache, keyUser, now>> /\ DOMAIN test' = Tests
        /\ \A v \in Tests : v # t => test'[v] = test[v]
        /\ test'[t].pc = "idle" /\ test'[t].at = test[t].at /\ DOMAIN test'[t] = DOMAIN test[t]
    BY Zenon, <1>0, <1>3 DEF TestStores, CloudRows, CloudRead
  <2>2. /\ DOMAIN keyRow' = Profiles
        /\ \A p \in Profiles : keyRow'[p] = keyRow[p] \/ (keyRow[p] # "absent" /\ keyRow'[p] \in {"CONNECTED", "ERROR"})
    BY Zenon, <1>0, <1>3 DEF TestStores, CloudRows, StoredStatus
  <2>3. CloudRows'
    BY ZenonT(30), <1>0, <2>1, <2>2 DEF CloudRows
  <2>4. \A p \in Profiles : CloudKey(p)'
    BY Zenon, <1>0, <2>1, <2>2 DEF CloudKey
  <2>5. (\A u \in KeyUsers : CloudRead(keyUser[u])') /\ (\A v \in Tests : CloudRead(test[v])')
    BY ZenonT(30), <1>0, <2>1 DEF CloudRead
  <2> QED BY Zenon, <2>3, <2>4, <2>5 DEF CloudInv
<1>4. CASE Tick
  <2>1. now' = now + 1 /\ now \in Nat /\ UNCHANGED <<keyRow, enabled, deleted, cache, test, keyUser>>
    BY Zenon, <1>0, <1>4 DEF Tick, CloudRows
  <2>2. CloudRows'
    BY SMTT(30), <1>0, <2>1 DEF CloudRows
  <2>3. \A p \in Profiles : CloudKey(p)'
    BY SMTT(30), <1>0, <2>1 DEF CloudKey
  <2>4. (\A u \in KeyUsers : CloudRead(keyUser[u])') /\ (\A t \in Tests : CloudRead(test[t])')
    BY <1>0, <2>1 DEF CloudRead
  <2> QED BY ZenonT(30), <2>2, <2>3, <2>4 DEF CloudInv
<1> QED BY Zenon, <1>1, <1>2, <1>3, <1>4

LEMMA CloudSteps == ASSUME CloudParameters, CloudInv, [CloudNext]_cloudVars PROVE CloudInv'
<1>1. CASE UNCHANGED cloudVars
  BY Zenon, <1>1 DEF CloudInv, CloudRows, CloudKey, CloudRead, cloudVars
<1>2. CASE CloudNext
  BY Zenon, <1>2, CloudUser, CloudTest, CloudBroker DEF CloudNext
<1> QED BY SMTT(30), <1>1, <1>2

(* The invariant of the keys, the cache and the tests of keys. *)
THEOREM CloudInvariant == ASSUME CloudParameters PROVE CloudSpec => []CloudInv
<1>1. CloudInit => CloudInv
  BY Zenon, CloudStarts
<1>2. CloudInv /\ [CloudNext]_cloudVars => CloudInv'
  BY Zenon, CloudSteps
<1> QED BY <1>1, <1>2, PTL DEF CloudSpec

(* A key that was deleted is used from the cache no longer than the window
   the settings promise, whatever reads and tests were under way. *)
THEOREM CloudKeyExpires == ASSUME CloudParameters PROVE CloudSpec => []DeletedKeyExpires
<1>1. CloudInv => DeletedKeyExpires
  <2> SUFFICES ASSUME CloudInv, NEW p \in Profiles, deleted[p] # -1, now >= deleted[p] + Window
               PROVE  ~Hit(p)
    BY Zenon DEF DeletedKeyExpires
  <2>1. now \in Nat /\ cache[p] \in Int /\ deleted[p] \in Nat /\ Window \in Nat
    BY Zenon DEF CloudInv, CloudRows, CloudKey, CloudParameters
  <2>2. cache[p] <= deleted[p] + Window
    BY Zenon DEF CloudInv, CloudKey
  <2> QED BY <2>1, <2>2 DEF Hit
<1> QED BY <1>1, CloudInvariant, PTL

(* Finitely many numbers have a greatest; Greatest in PlatformProofs shows it. *)
CloudGreatest == \A n \in Nat : \A T \in SUBSET (0..n) : T # {} => \E x \in T : \A y \in T : y <= x

(* With that, the invariant says that what is shown can be routed. *)
LEMMA CloudRouted == ASSUME CloudParameters, CloudGreatest, CloudInv PROVE ShownIsRouted
<1> DEFINE live == {p \in Profiles : keyRow[p] \in {"UNTESTED", "CONNECTED"} /\ enabled[p]}
           best == IF \E p \in live : keyRow[p] = "CONNECTED" THEN {p \in live : keyRow[p] = "CONNECTED"} ELSE live
<1>1. (list_connections = "CONNECTED") <=> (live # {})
  BY Zenon DEF CloudInv, CloudRows, list_connections
<1>2. best # {} <=> live # {}
  BY Zenon
<1>3. \E n \in Nat : best \subseteq 0..n
  BY Zenon DEF CloudParameters
<1>4. profile = {p \in best : \A q \in best : q <= p}
  BY Zenon DEF profile
<1> HIDE DEF best
<1>5. best # {} => profile # {}
  BY ZenonT(30), <1>3, <1>4 DEF CloudGreatest
<1> QED BY SMTT(30), <1>1, <1>2, <1>4, <1>5 DEF ShownIsRouted

-----------------------------------------------------------------------------
(* GoogleConnection: the rows, the tokens and the calls that use them.     *)

GoogleBusy == {"lock", "load", "token", "touch", "expire", "api", "again"}

GoogleTypes ==
  /\ DOMAIN login = Logins /\ DOMAIN seen = Logins /\ DOMAIN conn = Logins /\ DOMAIN grant = Logins
  /\ minted \in [Logins -> Nat] /\ access \in [Logins -> Nat]
  /\ DOMAIN user = Users /\ DOMAIN owner = Owners
  /\ \A u \in Users : DOMAIN user[u] = {"pc", "c", "tok", "stale", "tries"} /\ user[u].tok \in Nat
  /\ \A o \in Owners : DOMAIN owner[o] = {"pc", "c"}

(* A token that is cached was issued for its own connection. *)
GoogleTokens ==
  \A c \in Logins : /\ access[c] <= minted[c]
                    /\ login[c] \in {"exchange", "commit"} => minted[c] >= 1

(* What a call carries was issued too, and so was the token it was refused
   with: a refresh brings a later one. *)
GoogleCarries(u) ==
  /\ user[u].pc \in GoogleBusy => user[u].c \in Logins /\ user[u].tok <= minted[user[u].c]
  /\ user[u].tries = 1 =>
       \E c \in Logins : \E n \in Nat : user[u].stale = <<c, n>> /\ n <= minted[c]
  /\ user[u].pc \in {"api", "touch"} /\ user[u].tries = 1 => <<user[u].c, user[u].tok>> # user[u].stale
  /\ user[u].pc = "expire" => grant[user[u].c] = "revoked"

GoogleCalls == \A u \in Users : GoogleCarries(u)

(* A row is made at the end of its consent, and a disconnect knows only rows. *)
GoogleMade ==
  /\ \A c \in Logins : login[c] \in {"new", "pending"} =>
       conn[c] = "none" /\ grant[c] = "none" /\ minted[c] = 0
  /\ \A o \in Owners : owner[o].pc \in {"revoke", "delete"} =>
       owner[o].c \in Logins /\ login[owner[o].c] \notin {"new", "pending"}

GoogleInv == GoogleTypes /\ GoogleTokens /\ GoogleCalls /\ GoogleMade /\ AttentionIsEarned

LEMMA GoogleStarts == ASSUME GoogleInit PROVE GoogleInv
<1> USE DEF GoogleInit, NoCall
<1>1. GoogleTypes
  BY Zenon DEF GoogleTypes
<1>2. GoogleTokens /\ GoogleCalls
  BY DEF GoogleTokens, GoogleCalls, GoogleCarries, GoogleBusy
<1>3. GoogleMade /\ AttentionIsEarned
  BY SMTT(30) DEF GoogleMade, AttentionIsEarned
<1> QED BY SMTT(30), <1>1, <1>2, <1>3 DEF GoogleInv

(* What the other calls know stays true: tokens are only added, and a grant
   that is revoked stays revoked. *)
LEMMA GoogleOthers ==
  ASSUME GoogleTypes, GoogleCalls, minted' \in [Logins -> Nat],
         \A v \in Users : user'[v] = user[v] \/ GoogleCarries(v)',
         \A c \in Logins : minted[c] <= minted'[c],
         \A c \in Logins : grant[c] = "revoked" => grant'[c] = "revoked"
  PROVE  GoogleCalls'
<1> SUFFICES ASSUME NEW v \in Users, user'[v] = user[v]
             PROVE  GoogleCarries(v)'
  BY ZenonT(30) DEF GoogleCalls
<1>1. GoogleCarries(v) /\ user[v].tok \in Nat
  BY ZenonT(30) DEF GoogleCalls, GoogleTypes
<1>2. user[v].pc \in GoogleBusy => user[v].c \in Logins /\ user[v].tok <= minted'[user[v].c]
  BY SMTT(30), <1>1 DEF GoogleCarries, GoogleTypes
<1>3. ASSUME user[v].tries = 1
      PROVE  \E c \in Logins : \E n \in Nat : user[v].stale = <<c, n>> /\ n <= minted'[c]
  <2>1. PICK c \in Logins : \E n \in Nat : user[v].stale = <<c, n>> /\ n <= minted[c]
    BY Zenon, <1>1, <1>3 DEF GoogleCarries
  <2>2. PICK n \in Nat : user[v].stale = <<c, n>> /\ n <= minted[c]
    BY Zenon, <2>1
  <2>3. n <= minted'[c]
    BY SMTT(30), <2>2 DEF GoogleTypes
  <2> QED BY Zenon, <2>2, <2>3
<1>4. user[v].pc = "expire" => grant'[user[v].c] = "revoked"
  BY SMTT(30), <1>1 DEF GoogleCarries, GoogleBusy
<1> QED BY Zenon, <1>1, <1>2, <1>3, <1>4 DEF GoogleCarries

(* The consent: a grant and its first token, then the row. *)
LEMMA GoogleConsent ==
  ASSUME GoogleInv, NEW c \in Logins,
         start(c) \/ callback(c) \/ CallbackReads(c) \/ CallbackCommits(c)
  PROVE  GoogleInv'
<1>0. GoogleTypes /\ GoogleTokens /\ GoogleCalls /\ GoogleMade /\ AttentionIsEarned
  BY SMTT(30) DEF GoogleInv
<1>1. PICK to : login' = [login EXCEPT ![c] = to]
  BY Zenon DEF start, callback, CallbackReads, CallbackCommits
<1>2. DOMAIN login' = Logins /\ login'[c] = to /\ \A x \in Logins : x # c => login'[x] = login[x]
  BY ZenonT(30), <1>0, <1>1 DEF GoogleTypes
<1>3. /\ UNCHANGED <<user, owner>> /\ DOMAIN seen' = Logins /\ DOMAIN conn' = Logins
      /\ (login[c] \notin {"new", "pending"} => to \notin {"new", "pending"})
  BY Zenon, <1>0, <1>2 DEF start, callback, CallbackReads, CallbackCommits, GoogleTypes
<1>4. CASE UNCHANGED <<conn, grant, minted, access>>
  <2>1. to \in {"exchange", "commit"} => login[c] \in {"exchange", "commit"}
    BY Zenon, <1>0, <1>2, <1>4 DEF start, callback, CallbackReads, CallbackCommits,
                            GoogleTypes, GoogleTokens, GoogleMade
  <2>2. to \in {"new", "pending"} => login[c] \in {"new", "pending"}
    BY ZenonT(30), <1>3
  <2>3. GoogleTypes'
    BY ZenonT(30), <1>0, <1>2, <1>3, <1>4 DEF GoogleTypes
  <2>4. GoogleTokens'
    BY ZenonT(30), <1>0, <1>2, <1>4, <2>1 DEF GoogleTokens
  <2>5. GoogleCalls'
    BY Zenon, <1>0, <1>3, <1>4 DEF GoogleCalls, GoogleCarries
  <2>6. GoogleMade'
    BY ZenonT(30), <1>0, <1>2, <1>3, <1>4, <2>2 DEF GoogleMade
  <2>7. AttentionIsEarned'
    BY ZenonT(30), <1>0, <1>4 DEF AttentionIsEarned
  <2> QED BY SMTT(30), <2>3, <2>4, <2>5, <2>6, <2>7 DEF GoogleInv
<1>5. CASE login[c] = "pending" /\ to = "exchange" /\ grant' = [grant EXCEPT ![c] = "valid"]
           /\ minted' = [minted EXCEPT ![c] = 1] /\ UNCHANGED <<conn, access>>
  <2>1. /\ DOMAIN grant' = Logins /\ grant'[c] = "valid" /\ \A x \in Logins : x # c => grant'[x] = grant[x]
        /\ minted' \in [Logins -> Nat] /\ minted'[c] = 1 /\ \A x \in Logins : x # c => minted'[x] = minted[x]
    BY ZenonT(30), <1>0, <1>5 DEF GoogleTypes
  <2>2. conn[c] = "none" /\ grant[c] = "none" /\ minted[c] = 0
    BY Zenon, <1>0, <1>5 DEF GoogleMade
  <2>3. GoogleTypes'
    BY ZenonT(30), <1>0, <1>2, <1>3, <1>5, <2>1 DEF GoogleTypes
  <2>4. GoogleTokens'
    BY <1>0, <1>2, <1>5, <2>1, <2>2 DEF GoogleTokens, GoogleTypes
  <2>5. GoogleCalls'
    <3>1. \A x \in Logins : minted[x] <= minted'[x]
      BY <1>0, <2>1, <2>2 DEF GoogleTypes
    <3>2. \A x \in Logins : grant[x] = "revoked" => grant'[x] = "revoked"
      BY Zenon, <2>1, <2>2
    <3> QED BY Zenon, <1>0, <1>3, <2>1, <3>1, <3>2, GoogleOthers
  <2>6. GoogleMade'
    BY ZenonT(30), <1>0, <1>2, <1>3, <1>5, <2>1 DEF GoogleMade
  <2>7. AttentionIsEarned'
    BY Zenon, <1>0, <1>5, <2>1, <2>2 DEF AttentionIsEarned
  <2> QED BY Zenon, <2>3, <2>4, <2>5, <2>6, <2>7 DEF GoogleInv
<1>6. CASE /\ login[c] = "exchange" /\ to = "commit" /\ UNCHANGED <<conn, grant, minted>>
           /\ access' = [x \in Logins |-> IF x \in GoogleRows THEN 0 ELSE access[x]]
  <2>1. access' \in [Logins -> Nat] /\ \A x \in Logins : access'[x] = 0 \/ access'[x] = access[x]
    BY Zenon, <1>0, <1>6 DEF GoogleTypes
  <2>2. GoogleTypes'
    BY ZenonT(30), <1>0, <1>2, <1>3, <1>6, <2>1 DEF GoogleTypes
  <2>3. GoogleTokens'
    BY <1>0, <1>2, <1>6, <2>1 DEF GoogleTokens, GoogleTypes
  <2>4. GoogleCalls'
    BY Zenon, <1>0, <1>3, <1>6 DEF GoogleCalls, GoogleCarries
  <2>5. GoogleMade' /\ AttentionIsEarned'
    BY ZenonT(30), <1>0, <1>2, <1>3, <1>6 DEF GoogleMade, AttentionIsEarned
  <2> QED BY Zenon, <2>2, <2>3, <2>4, <2>5 DEF GoogleInv
<1>7. CASE /\ login[c] = "commit" /\ to = "done" /\ UNCHANGED <<grant, minted>>
           /\ conn' = [x \in Logins |-> IF x = c THEN "CONNECTED" ELSE IF x \in seen[c] THEN "none" ELSE conn[x]]
           /\ access' = [access EXCEPT ![c] = 1]
  <2>1. /\ access' \in [Logins -> Nat] /\ access'[c] = 1 /\ \A x \in Logins : x # c => access'[x] = access[x]
        /\ conn'[c] = "CONNECTED" /\ \A x \in Logins : x # c => conn'[x] = "none" \/ conn'[x] = conn[x]
    BY SMTT(30), <1>0, <1>7 DEF GoogleTypes
  <2>2. GoogleTypes'
    BY Zenon, <1>0, <1>2, <1>3, <1>7, <2>1 DEF GoogleTypes
  <2>3. GoogleTokens'
    BY ZenonT(30), <1>0, <1>2, <1>7, <2>1 DEF GoogleTokens, GoogleTypes
  <2>4. GoogleCalls'
    BY ZenonT(30), <1>0, <1>3, <1>7 DEF GoogleCalls, GoogleCarries
  <2>5. GoogleMade' /\ AttentionIsEarned'
    BY SMTT(30), <1>0, <1>2, <1>3, <1>7, <2>1 DEF GoogleMade, AttentionIsEarned
  <2> QED BY Zenon, <2>2, <2>3, <2>4, <2>5 DEF GoogleInv
<1>8. to = login'[c]
  BY Zenon, <1>2
<1> QED BY Zenon, <1>0, <1>1, <1>4, <1>5, <1>6, <1>7, <1>8
      DEF start, callback, CallbackReads, CallbackCommits, GoogleTypes

(* A call changes its own place; tokens and grants as GoogleOthers wants them. *)
LEMMA GoogleUserStep ==
  ASSUME GoogleInv, NEW u \in Users, DOMAIN user' = Users, \A v \in Users : v # u => user'[v] = user[v],
         DOMAIN user'[u] = {"pc", "c", "tok", "stale", "tries"}, user'[u].tok \in Nat, GoogleCarries(u)',
         UNCHANGED <<login, seen, grant, owner>>,
         minted' \in [Logins -> Nat], \A c \in Logins : minted[c] <= minted'[c],
         \A c \in Logins : minted'[c] = minted[c] \/ grant[c] = "valid",
         access' \in [Logins -> Nat], \A c \in Logins : access'[c] <= minted'[c],
         DOMAIN conn' = Logins,
         \A c \in Logins : conn'[c] = conn[c] \/ (conn[c] # "none" /\ grant[c] = "revoked")
  PROVE  GoogleInv'
<1>0. GoogleTypes /\ GoogleTokens /\ GoogleCalls /\ GoogleMade /\ AttentionIsEarned
  BY ZenonT(30) DEF GoogleInv
<1>1. GoogleTypes'
  BY ZenonT(30), <1>0 DEF GoogleTypes
<1>2. GoogleTokens'
  BY <1>0 DEF GoogleTokens, GoogleTypes
<1>3. GoogleCalls'
  <2>1. \A v \in Users : user'[v] = user[v] \/ GoogleCarries(v)'
    BY Zenon
  <2>2. \A c \in Logins : grant[c] = "revoked" => grant'[c] = "revoked"
    BY ZenonT(30)
  <2> QED BY Zenon, <1>0, <2>1, <2>2, GoogleOthers
<1>4. GoogleMade'
  BY <1>0 DEF GoogleMade
<1>5. AttentionIsEarned'
  BY Zenon, <1>0 DEF AttentionIsEarned
<1> QED BY ZenonT(30), <1>1, <1>2, <1>3, <1>4, <1>5 DEF GoogleInv

LEMMA GoogleGotoKeeps ==
  ASSUME GoogleInv, NEW u \in Users, NEW to, GoogleGoto(u, to), UNCHANGED <<grant, minted>>,
         to \in GoogleBusy => user[u].pc \in GoogleBusy,
         to \in {"api", "touch"} => user[u].pc \in {"api", "touch"},
         to = "expire" => grant[user[u].c] = "revoked"
  PROVE  /\ DOMAIN user' = Users /\ \A v \in Users : v # u => user'[v] = user[v]
         /\ DOMAIN user'[u] = {"pc", "c", "tok", "stale", "tries"} /\ user'[u].tok \in Nat
         /\ GoogleCarries(u)'
<1>0. GoogleTypes /\ GoogleCarries(u)
  BY Zenon DEF GoogleInv, GoogleCalls
<1>1. /\ DOMAIN user' = Users /\ \A v \in Users : v # u => user'[v] = user[v]
      /\ DOMAIN user'[u] = {"pc", "c", "tok", "stale", "tries"} /\ user'[u].pc = to
      /\ user'[u].c = user[u].c /\ user'[u].tok = user[u].tok
      /\ user'[u].stale = user[u].stale /\ user'[u].tries = user[u].tries
  BY SMTT(30), <1>0 DEF GoogleTypes, GoogleGoto
<1>2. user'[u].tok \in Nat
  BY Zenon, <1>0, <1>1 DEF GoogleTypes
<1> QED BY ZenonT(30), <1>0, <1>1, <1>2 DEF GoogleCarries

(* The cached token was issued, and is another than the refused one. *)
LEMMA GoogleCached ==
  ASSUME GoogleInv, NEW c \in Logins, NEW stale, NEW t \in _cached(c, stale)
  PROVE  t \in Nat /\ t <= minted[c] /\ (t # 0 => <<c, t>> # stale)
<1>1. access[c] \in Nat /\ minted[c] \in Nat /\ access[c] <= minted[c]
  BY Zenon DEF GoogleInv, GoogleTypes, GoogleTokens
<1> QED BY SMTT(30), <1>1 DEF _cached

LEMMA GoogleAccess ==
  ASSUME GoogleInv, NEW u \in Users, AccessToken(u) \/ TakeLock(u)
  PROVE  GoogleInv'
<1>0. GoogleTypes /\ GoogleTokens /\ GoogleCarries(u)
  BY Zenon DEF GoogleInv, GoogleCalls
<1>1. /\ UNCHANGED <<login, seen, conn, grant, minted, owner>> /\ DOMAIN conn = Logins
      /\ minted \in [Logins -> Nat] /\ access \in [Logins -> Nat] /\ \A c \in Logins : access[c] <= minted[c]
  BY Zenon, <1>0 DEF AccessToken, TakeLock, GoogleTypes, GoogleTokens
<1>2. access' \in [Logins -> Nat] /\ \A c \in Logins : access'[c] <= minted[c]
  <2>1. access' = access \/ \E c \in Logins : access' = [access EXCEPT ![c] = 0]
    BY ZenonT(30) DEF AccessToken, TakeLock, GoogleRows
  <2> QED BY <1>1, <2>1
<1>3. ASSUME NEW c \in Logins, NEW t \in Nat, NEW to \in {"api", "lock", "load"},
             t <= minted[c], to = "api" => <<c, t>> # user[u].stale,
             DOMAIN user' = Users, \A v \in Users : v # u => user'[v] = user[v],
             DOMAIN user'[u] = {"pc", "c", "tok", "stale", "tries"},
             user'[u].pc = to, user'[u].c = c, user'[u].tok = t,
             user'[u].stale = user[u].stale, user'[u].tries = user[u].tries
      PROVE  GoogleInv'
  <2>1. GoogleCarries(u)'
    BY Zenon, <1>0, <1>1, <1>3 DEF GoogleCarries, GoogleBusy
  <2>2. \A c2 \in Logins : minted[c2] <= minted'[c2]
    BY <1>1
  <2>3. user'[u].tok \in Nat
    BY Zenon, <1>3
  <2> QED BY SMTT(30), <1>1, <1>2, <1>3, <2>1, <2>2, <2>3, GoogleUserStep
<1>4. ASSUME NEW to, GoogleGoto(u, to), to = "failed" \/ (to = "load" /\ user[u].pc = "lock")
      PROVE  GoogleInv'
  <2>1. /\ to \in GoogleBusy => user[u].pc \in GoogleBusy
        /\ to \notin {"api", "touch", "expire"}
    BY Zenon, <1>4 DEF GoogleBusy
  <2>2. \A c2 \in Logins : minted[c2] <= minted'[c2]
    BY SMTT(30), <1>1
  <2>3. /\ DOMAIN user' = Users /\ \A v \in Users : v # u => user'[v] = user[v]
        /\ DOMAIN user'[u] = {"pc", "c", "tok", "stale", "tries"} /\ user'[u].tok \in Nat
        /\ GoogleCarries(u)'
    BY Zenon, <1>1, <1>4, <2>1, GoogleGotoKeeps
  <2> QED BY ZenonT(30), <1>1, <1>2, <2>2, <2>3, GoogleUserStep
<1>5. CASE AccessToken(u)
  <2>1. CASE GoogleGoto(u, "failed")
    BY ZenonT(30), <1>4, <2>1
  <2>2. CASE ~GoogleGoto(u, "failed")
    <3>1. PICK c \in GoogleRows :
            \E t \in IF Op[u] = "test" /\ GoogleAt(u, "idle") THEN {0} ELSE _cached(c, user[u].stale) :
              user' = [user EXCEPT ![u] = [[user[u] EXCEPT !.c = c, !.tok = 0]
                         EXCEPT !.tok = t, !.pc = IF t # 0 THEN "api" ELSE "lock"]]
      BY <1>5, <2>2, Zenon DEF AccessToken
    <3>2. c \in Logins
      BY Zenon DEF GoogleRows
    <3>3. PICK t \in {0} \cup _cached(c, user[u].stale) :
            user' = [user EXCEPT ![u] = [[user[u] EXCEPT !.c = c, !.tok = 0]
                       EXCEPT !.tok = t, !.pc = IF t # 0 THEN "api" ELSE "lock"]]
      BY <3>1, ZenonT(30)
    <3>4. t \in Nat /\ t <= minted[c] /\ (t # 0 => <<c, t>> # user[u].stale)
      <4>1. CASE t = 0
        BY <1>1, <3>2, <4>1
      <4>2. CASE t \in _cached(c, user[u].stale)
        BY Zenon, <3>2, <4>2, GoogleCached
      <4> QED BY ZenonT(30), <4>1, <4>2
    <3>5. PICK to \in {"api", "lock", "load"} : to = IF t # 0 THEN "api" ELSE "lock"
      BY Zenon
    <3>6. /\ DOMAIN user' = Users /\ \A v \in Users : v # u => user'[v] = user[v]
          /\ DOMAIN user'[u] = {"pc", "c", "tok", "stale", "tries"}
          /\ user'[u].pc = to /\ user'[u].c = c /\ user'[u].tok = t
          /\ user'[u].stale = user[u].stale /\ user'[u].tries = user[u].tries
      BY Zenon, <1>0, <3>3, <3>5 DEF GoogleTypes
    <3> QED BY Zenon, <1>3, <3>2, <3>4, <3>5, <3>6
  <2> QED BY SMTT(30), <2>1, <2>2
<1>6. CASE TakeLock(u)
  <2>1. user[u].pc = "lock" /\ user[u].c \in Logins
    BY Zenon, <1>0, <1>6 DEF TakeLock, GoogleAt, GoogleCarries, GoogleBusy
  <2>2. PICK t \in _cached(user[u].c, user[u].stale) :
          IF t # 0 THEN user' = [user EXCEPT ![u].tok = t, ![u].pc = "api"] ELSE GoogleGoto(u, "load")
    BY Zenon, <1>6 DEF TakeLock
  <2>3. t \in Nat /\ t <= minted[user[u].c] /\ (t # 0 => <<user[u].c, t>> # user[u].stale)
    BY Zenon, <2>1, GoogleCached
  <2>4. CASE t # 0
    <3>1. user' = [user EXCEPT ![u].tok = t, ![u].pc = "api"]
      BY Zenon, <2>2, <2>4
    <3>2. /\ DOMAIN user' = Users /\ \A v \in Users : v # u => user'[v] = user[v]
          /\ DOMAIN user'[u] = {"pc", "c", "tok", "stale", "tries"}
          /\ user'[u].pc = "api" /\ user'[u].c = user[u].c /\ user'[u].tok = t
          /\ user'[u].stale = user[u].stale /\ user'[u].tries = user[u].tries
      BY Zenon, <1>0, <3>1 DEF GoogleTypes
    <3> QED BY Zenon, <1>3, <2>1, <2>3, <2>4, <3>2
  <2>5. CASE t = 0
    BY Zenon, <1>4, <2>1, <2>2, <2>5
  <2> QED BY Zenon, <2>4, <2>5
<1> QED BY Zenon, <1>5, <1>6

(* A refresh: the token it brings is later than any issued before. *)
LEMMA GoogleRefresh ==
  ASSUME GoogleInv, NEW u \in Users,
         \/ RefreshLoads(u) \/ RefreshUnavailable(u) \/ RefreshAnswered(u)
         \/ RefreshTouches(u) \/ RefreshRefused(u) \/ MarkExpired(u)
  PROVE  GoogleInv'
<1>0. GoogleTypes /\ GoogleTokens /\ GoogleCarries(u)
  BY Zenon DEF GoogleInv, GoogleCalls
<1>1. /\ UNCHANGED <<login, seen, grant, owner>> /\ DOMAIN conn = Logins
      /\ minted \in [Logins -> Nat] /\ access \in [Logins -> Nat] /\ \A c \in Logins : access[c] <= minted[c]
      /\ user[u].pc \in GoogleBusy /\ user[u].c \in Logins
  BY Zenon, <1>0 DEF RefreshLoads, RefreshUnavailable, RefreshAnswered, RefreshTouches,
              RefreshRefused, MarkExpired, GoogleAt, GoogleTypes, GoogleTokens, GoogleCarries, GoogleBusy
<1>2. CASE RefreshAnswered(u)
  <2> DEFINE c == user[u].c
  <2>1. /\ grant[c] = "valid" /\ UNCHANGED conn
        /\ minted' = [minted EXCEPT ![c] = minted[c] + 1]
        /\ access' = [access EXCEPT ![c] = minted[c] + 1]
        /\ user' = [user EXCEPT ![u].tok = minted[c] + 1, ![u].pc = "touch"]
    BY SMTT(30), <1>2 DEF RefreshAnswered
  <2>2. c \in Logins /\ minted[c] \in Nat
    BY Zenon, <1>1
  <2>3. /\ DOMAIN user' = Users /\ \A v \in Users : v # u => user'[v] = user[v]
        /\ DOMAIN user'[u] = {"pc", "c", "tok", "stale", "tries"}
        /\ user'[u].pc = "touch" /\ user'[u].c = c /\ user'[u].tok = minted[c] + 1
        /\ user'[u].stale = user[u].stale /\ user'[u].tries = user[u].tries
    BY Zenon, <1>0, <2>1 DEF GoogleTypes
  <2>4. /\ minted' \in [Logins -> Nat] /\ minted'[c] = minted[c] + 1
        /\ \A x \in Logins : x # c => minted'[x] = minted[x]
        /\ access' \in [Logins -> Nat] /\ access'[c] = minted[c] + 1
        /\ \A x \in Logins : x # c => access'[x] = access[x]
    BY SMTT(30), <1>1, <2>1, <2>2
  <2> HIDE DEF c
  <2>5. \A x \in Logins : minted[x] <= minted'[x] /\ access'[x] <= minted'[x]
    BY <1>1, <2>2, <2>4
  <2>6. GoogleCarries(u)'
    <3>1. ASSUME user[u].tries = 1
          PROVE  /\ \E x \in Logins : \E n \in Nat : user[u].stale = <<x, n>> /\ n <= minted'[x]
                 /\ <<c, minted[c] + 1>> # user[u].stale
      <4>1. PICK x \in Logins : \E n \in Nat : user[u].stale = <<x, n>> /\ n <= minted[x]
        BY ZenonT(30), <1>0, <3>1 DEF GoogleCarries
      <4>2. PICK n \in Nat : user[u].stale = <<x, n>> /\ n <= minted[x]
        BY ZenonT(30), <4>1
      <4>3. n <= minted'[x]
        BY SMTT(30), <1>1, <2>4, <2>5, <4>2
      <4>4. x # c \/ n # minted[c] + 1
        BY SMTT(30), <2>2, <4>2
      <4> QED BY <4>2, <4>3, <4>4
    <3>2. minted[c] + 1 <= minted'[c]
      BY SMTT(30), <2>2, <2>4
    <3> QED BY ZenonT(30), <2>2, <2>3, <3>1, <3>2 DEF GoogleCarries
  <2>7. user'[u].tok \in Nat
    BY <2>2, <2>3
  <2>8. \A x \in Logins : minted'[x] = minted[x] \/ grant[x] = "valid"
    BY Zenon, <2>1, <2>4 DEF c
  <2> QED BY Zenon, <1>1, <2>1, <2>3, <2>4, <2>5, <2>6, <2>7, <2>8, GoogleUserStep
<1>3. CASE ~RefreshAnswered(u)
  <2>1. PICK to \in {"token", "failed", "api", "expire"} :
          /\ GoogleGoto(u, to)
          /\ to = "api" => user[u].pc = "touch"
          /\ to = "expire" => grant[user[u].c] = "revoked"
    BY ZenonT(30), <1>3 DEF RefreshLoads, RefreshUnavailable, RefreshTouches,
                RefreshRefused,
                MarkExpired, GoogleAt
  <2>2. /\ UNCHANGED minted /\ access' \in [Logins -> Nat] /\ \A x \in Logins : access'[x] <= minted[x]
    <3>1. UNCHANGED minted /\ (UNCHANGED access \/ access' = [access EXCEPT ![user[u].c] = 0])
      BY Zenon, <1>3 DEF RefreshLoads, RefreshUnavailable, RefreshTouches,
                  RefreshRefused,
                  MarkExpired
    <3> QED BY <1>1, <3>1
  <2>3. /\ DOMAIN conn' = Logins
        /\ \A x \in Logins : conn'[x] = conn[x] \/ (conn[x] # "none" /\ grant[x] = "revoked")
    <3>1. CASE UNCHANGED conn
      BY ZenonT(30), <1>1, <3>1
    <3>2. CASE MarkExpired(u)
      <4>1. conn' = [conn EXCEPT ![user[u].c] = IF @ = "none" THEN "none" ELSE "NEEDS_ATTENTION"]
        BY Zenon, <3>2 DEF MarkExpired
      <4>2. grant[user[u].c] = "revoked"
        BY ZenonT(30), <1>0, <3>2 DEF MarkExpired, GoogleAt, GoogleCarries
      <4> QED BY Zenon, <1>1, <4>1, <4>2
    <3> QED BY ZenonT(30), <1>3, <3>1, <3>2 DEF RefreshLoads, RefreshUnavailable, RefreshTouches,
                                    RefreshRefused
  <2>4. /\ DOMAIN user' = Users /\ \A v \in Users : v # u => user'[v] = user[v]
        /\ DOMAIN user'[u] = {"pc", "c", "tok", "stale", "tries"} /\ user'[u].tok \in Nat
        /\ GoogleCarries(u)'
    BY ZenonT(30), <1>1, <2>1, <2>2, GoogleGotoKeeps
  <2>5. \A x \in Logins : minted[x] <= minted'[x]
    BY <1>1, <2>2
  <2> QED BY Zenon, <1>1, <2>2, <2>3, <2>4, <2>5, GoogleUserStep
<1> QED BY Zenon, <1>2, <1>3

(* A request that is refused as expired remembers the token it carried. *)
LEMMA GoogleApi == ASSUME GoogleInv, NEW u \in Users, GoogleCall(u) PROVE GoogleInv'
<1>0. GoogleTypes /\ GoogleTokens /\ GoogleCarries(u)
  BY Zenon DEF GoogleInv, GoogleCalls
<1>1. /\ UNCHANGED <<login, seen, conn, grant, minted, access, owner>> /\ DOMAIN conn = Logins
      /\ minted \in [Logins -> Nat] /\ access \in [Logins -> Nat] /\ \A c \in Logins : access[c] <= minted[c]
      /\ user[u].pc = "api" /\ user[u].c \in Logins /\ user[u].tok \in Nat /\ user[u].tok <= minted[user[u].c]
  BY SMTT(30), <1>0 DEF GoogleCall, GoogleAt, GoogleTypes, GoogleTokens, GoogleCarries, GoogleBusy
<1>2. \A c \in Logins : minted[c] <= minted'[c]
  BY <1>1
<1>3. PICK r \in {"done", "failed", "expired"} :
        user' = [user EXCEPT ![u] =
                   IF r # "expired" THEN [@ EXCEPT !.pc = r]
                   ELSE IF @.tries = 0
                        THEN [@ EXCEPT !.pc = "again", !.stale = <<user[u].c, user[u].tok>>, !.tries = 1]
                   ELSE [@ EXCEPT !.pc = "failed"]]
  BY ZenonT(30) DEF GoogleCall, _api
<1>4. CASE r = "expired" /\ user[u].tries = 0
  <2>1. /\ DOMAIN user' = Users /\ \A v \in Users : v # u => user'[v] = user[v]
        /\ DOMAIN user'[u] = {"pc", "c", "tok", "stale", "tries"} /\ user'[u].pc = "again"
        /\ user'[u].c = user[u].c /\ user'[u].tok = user[u].tok
        /\ user'[u].stale = <<user[u].c, user[u].tok>> /\ user'[u].tries = 1
    BY Zenon, <1>0, <1>3, <1>4 DEF GoogleTypes
  <2>2. user'[u].tok \in Nat
    BY ZenonT(30), <1>1, <2>1
  <2>3. GoogleCarries(u)'
    BY ZenonT(30), <1>1, <2>1 DEF GoogleCarries
  <2> QED BY Zenon, <1>1, <1>2, <2>1, <2>2, <2>3, GoogleUserStep
<1>5. CASE ~(r = "expired" /\ user[u].tries = 0)
  <2>1. PICK to \in {"done", "failed"} : GoogleGoto(u, to)
    <3>1. user' = [user EXCEPT ![u] = [@ EXCEPT !.pc = IF r = "expired" THEN "failed" ELSE r]]
      BY Zenon, <1>3, <1>5
    <3> QED BY Zenon, <3>1 DEF GoogleGoto
  <2>2. to \notin GoogleBusy
    BY Zenon DEF GoogleBusy
  <2>3. /\ DOMAIN user' = Users /\ \A v \in Users : v # u => user'[v] = user[v]
        /\ DOMAIN user'[u] = {"pc", "c", "tok", "stale", "tries"} /\ user'[u].tok \in Nat
        /\ GoogleCarries(u)'
    BY Zenon, <1>1, <2>1, <2>2, GoogleGotoKeeps
  <2> QED BY Zenon, <1>1, <1>2, <2>3, GoogleUserStep
<1> QED BY Zenon, <1>4, <1>5

(* The owner's disconnects, and Google on its own. *)
LEMMA GoogleElsewhere ==
  ASSUME GoogleInv,
         \/ \E o \in Owners : disconnect(o) \/ Revoke(o) \/ DeleteConn(o)
         \/ \E c \in Logins : Withdrawn(c) \/ TokenExpires(c)
  PROVE  GoogleInv'
<1>0. GoogleTypes /\ GoogleTokens /\ GoogleCalls /\ GoogleMade /\ AttentionIsEarned
  BY Zenon DEF GoogleInv
<1>1. UNCHANGED <<login, seen, minted, user>> /\ minted \in [Logins -> Nat] /\ \A c \in Logins : minted[c] <= minted'[c]
  BY <1>0 DEF disconnect, Revoke, DeleteConn, Withdrawn, TokenExpires,
              GoogleTypes
<1>2. /\ DOMAIN grant' = Logins
      /\ \A c \in Logins : grant'[c] = grant[c] \/ (grant'[c] = "revoked" /\ login[c] \notin {"new", "pending"})
  <2>1. CASE UNCHANGED grant
    BY ZenonT(30), <1>0, <2>1 DEF GoogleTypes
  <2>2. ASSUME NEW o \in Owners, Revoke(o), ~UNCHANGED grant
        PROVE  <1>2!:
    <3>1. owner[o].c \in Logins /\ login[owner[o].c] \notin {"new", "pending"}
      BY Zenon, <1>0, <2>2 DEF Revoke, GoogleMade
    <3>2. grant' = [grant EXCEPT ![owner[o].c] = "revoked"]
      BY SMTT(30), <2>2 DEF Revoke
    <3> QED BY Zenon, <1>0, <3>1, <3>2 DEF GoogleTypes
  <2>3. ASSUME NEW c \in Logins, Withdrawn(c)
        PROVE  <1>2!:
    <3>1. login[c] \notin {"new", "pending"} /\ grant' = [grant EXCEPT ![c] = "revoked"]
      BY Zenon, <1>0, <2>3 DEF Withdrawn, GoogleMade
    <3> QED BY SMTT(30), <1>0, <3>1 DEF GoogleTypes
  <2> QED BY Zenon, <2>1, <2>2, <2>3 DEF disconnect, DeleteConn, TokenExpires
<1>3. /\ DOMAIN conn' = Logins /\ \A c \in Logins : conn'[c] = conn[c] \/ conn'[c] = "none"
      /\ access' \in [Logins -> Nat] /\ \A c \in Logins : access'[c] = access[c] \/ access'[c] = 0
  <2>1. CASE UNCHANGED <<conn, access>>
    BY Zenon, <1>0, <2>1 DEF GoogleTypes
  <2>2. ASSUME NEW c \in Logins, conn' = [conn EXCEPT ![c] = "none"], access' = [access EXCEPT ![c] = 0]
        PROVE  <1>3!:
    BY Zenon, <1>0, <2>2 DEF GoogleTypes
  <2> QED BY SMTT(30), <2>1, <2>2 DEF disconnect, Revoke, DeleteConn, Withdrawn,
                            TokenExpires, GoogleRows
<1>4. /\ DOMAIN owner' = Owners /\ \A o \in Owners : DOMAIN owner'[o] = {"pc", "c"}
      /\ \A o \in Owners : owner'[o].pc \in {"revoke", "delete"} =>
           owner'[o].c \in Logins /\ login[owner'[o].c] \notin {"new", "pending"}
  <2>1. CASE UNCHANGED owner
    BY ZenonT(30), <1>0, <2>1 DEF GoogleTypes, GoogleMade
  <2>2. ASSUME NEW o \in Owners, NEW c \in GoogleRows, owner' = [owner EXCEPT ![o] = [pc |-> "revoke", c |-> c]]
        PROVE  <1>4!:
    <3>1. c \in Logins /\ login[c] \notin {"new", "pending"}
      BY Zenon, <1>0 DEF GoogleRows, GoogleMade
    <3> QED BY ZenonT(30), <1>0, <2>2, <3>1 DEF GoogleTypes, GoogleMade
  <2>3. ASSUME NEW o \in Owners, NEW to, owner' = [owner EXCEPT ![o].pc = to],
               to = "done" \/ owner[o].pc = "revoke"
        PROVE  <1>4!:
    BY <1>0, <2>3 DEF GoogleTypes, GoogleMade
  <2> QED BY Zenon, <2>1, <2>2, <2>3 DEF disconnect, Revoke, DeleteConn, Withdrawn,
                                  TokenExpires
<1>5. GoogleTypes'
  BY ZenonT(30), <1>0, <1>1, <1>2, <1>3, <1>4 DEF GoogleTypes
<1>6. GoogleTokens'
  BY <1>0, <1>1, <1>3 DEF GoogleTokens, GoogleTypes
<1>7. GoogleCalls'
  <2>1. \A c \in Logins : grant[c] = "revoked" => grant'[c] = "revoked"
    BY Zenon, <1>2
  <2>2. \A v \in Users : user'[v] = user[v] \/ GoogleCarries(v)'
    BY Zenon, <1>1
  <2> QED BY ZenonT(30), <1>0, <1>1, <2>1, <2>2, GoogleOthers
<1>8. GoogleMade' /\ AttentionIsEarned'
  BY Zenon, <1>0, <1>1, <1>2, <1>3, <1>4 DEF GoogleMade, AttentionIsEarned
<1> QED BY Zenon, <1>5, <1>6, <1>7, <1>8 DEF GoogleInv

LEMMA GoogleSteps == ASSUME GoogleInv, [GoogleNext]_googleVars PROVE GoogleInv'
<1>1. CASE UNCHANGED googleVars
  BY Zenon, <1>1 DEF googleVars, GoogleInv, GoogleTypes, GoogleTokens, GoogleCalls, GoogleCarries, GoogleMade,
              AttentionIsEarned
<1> QED BY Zenon, <1>1, GoogleConsent, GoogleAccess, GoogleRefresh, GoogleApi, GoogleElsewhere
      DEF GoogleNext, UserStep

(* The inductive invariant of the Google connection. *)
THEOREM GoogleInvariant == GoogleSpec => []GoogleInv
<1>1. GoogleInit => GoogleInv
  BY Zenon, GoogleStarts
<1>2. GoogleInv /\ [GoogleNext]_googleVars => GoogleInv'
  BY Zenon, GoogleSteps
<1> QED BY <1>1, <1>2, PTL DEF GoogleSpec

(* For every number of consents, calls and disconnects: a call that Google
   refused as expired repeats the request with another token, and a connection
   is marked NEEDS_ATTENTION only because its own grant was revoked. *)
THEOREM GoogleHonest == GoogleSpec => [](StaleNotReused /\ AttentionIsEarned)
<1>1. GoogleInv => StaleNotReused /\ AttentionIsEarned
  BY Zenon DEF GoogleInv, GoogleCalls, GoogleCarries, StaleNotReused, GoogleAt
<1> QED BY <1>1, GoogleInvariant, PTL

(* A row goes only when a disconnect that read it, or a callback that read it
   and replaces it, commits: a disconnect that waited for Google spares the
   connection the owner made meanwhile. *)
THEOREM GoogleDisconnects == GoogleSpec => [][DisconnectSparesNew]_googleVars
<1>1. ASSUME GoogleInv, [GoogleNext]_googleVars
      PROVE  [DisconnectSparesNew]_googleVars
  <2> SUFFICES ASSUME NEW c \in Logins, conn[c] # "none", conn'[c] = "none"
               PROVE  \/ \E o \in Owners : owner[o].c = c /\ owner[o].pc = "delete"
                      \/ \E x \in Logins : login[x] = "commit" /\ c \in seen[x]
    BY ZenonT(30) DEF DisconnectSparesNew
  <2>1. DOMAIN conn = Logins
    BY Zenon, <1>1 DEF GoogleInv, GoogleTypes
  <2>2. CASE \E x \in Logins : CallbackCommits(x)
    BY SMTT(30), <2>1, <2>2 DEF CallbackCommits
  <2>3. CASE \E u \in Users : MarkExpired(u)
    BY Zenon, <2>1, <2>3 DEF MarkExpired
  <2>4. CASE \E o \in Owners : DeleteConn(o)
    BY Zenon, <2>1, <2>4 DEF DeleteConn
  <2>5. conn' # conn
    BY Zenon
  <2> QED BY ZenonT(30), <1>1, <2>2, <2>3, <2>4, <2>5
        DEF GoogleNext, googleVars, start, callback, CallbackReads, Withdrawn,
            TokenExpires, UserStep, AccessToken, TakeLock, RefreshLoads,
            RefreshUnavailable, RefreshAnswered, RefreshTouches, RefreshRefused,
            GoogleCall, disconnect, Revoke
<1> QED BY <1>1, GoogleInvariant, PTL DEF GoogleSpec
=============================================================================
