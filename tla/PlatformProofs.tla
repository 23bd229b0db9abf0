--------------------------- MODULE PlatformProofs ---------------------------
(***************************************************************************)
(* What the platform promises, for every value of its constants.  The      *)
(* modules of proofs it extends show the inductive invariants of the       *)
(* components; here are the facts about numbers and finite sets that they  *)
(* take as given, the promises of several components together, and the     *)
(* theorems that state them without further conditions.                    *)
(***************************************************************************)
EXTENDS ControlProofs, GatewayProofs, StorageProofs, LlmGatewayProofs

-----------------------------------------------------------------------------
(* Numbers and finite sets.                                                *)

LEMMA Greatest ==
  ASSUME NEW N \in Nat, NEW T, T \subseteq 0..N, T # {} PROVE \E x \in T : \A y \in T : y <= x
<1> DEFINE U == {N - t : t \in T}
<1>1. U \subseteq Nat /\ U # {}
  <2>1. PICK t \in T : TRUE
    BY Zenon
  <2>2. N - t \in U
    OBVIOUS
  <2> QED BY <2>2
<1>2. PICK u \in U : \A y \in U : u <= y
  BY ZenonT(30), <1>1, Least
<1>3. PICK t \in T : u = N - t
  OBVIOUS
<1>4. \A y \in T : N - t <= N - y
  BY <1>2, <1>3
<1> QED BY <1>4

(* What the two components that add up mean by it is the same. *)
LEMMA MemTotal == \A u, s : Total(u, s) = Sum(u, s)
  BY DEF Total, Sum

LEMMA MemAdds == ASSUME MemSizes PROVE MemGiven
<1> SUFFICES ASSUME NEW u \in MemWeights, NEW s \in SUBSET Models
             PROVE  /\ Sum(u, {}) = 0 /\ Sum(u, s) \in Nat
                    /\ \A m \in s : Sum(u, s) = u[m] + Sum(u, s \ {m})
                    /\ \A r \in SUBSET s : (\A m \in s \ r : u[m] = 0) => Sum(u, s) = Sum(u, r)
                    /\ \A v \in MemWeights : (\A m \in s : v[m] <= u[m]) => Sum(v, s) <= Sum(u, s)
  BY ZenonT(30), MemTotal DEF MemGiven, MemSums
<1>0. IsFiniteSet(Models) /\ \A v : v \in MemWeights => v \in Weights(Models)
  BY Zenon DEF MemSizes, MemWeights, Weights
<1>1. Sum(u, {}) = 0
  <2>1. {} \in SUBSET Models
    OBVIOUS
  <2> QED BY ZenonT(30), <1>0, <2>1, TotalIs
<1>2. Sum(u, s) \in Nat
  BY ZenonT(30), <1>0, TotalType
<1>3. ASSUME NEW m \in s PROVE Sum(u, s) = u[m] + Sum(u, s \ {m})
  BY <1>0, TotalAny
<1>4. ASSUME NEW r \in SUBSET s, \A m \in s \ r : u[m] = 0 PROVE Sum(u, s) = Sum(u, r)
  BY <1>0, <1>4, TotalOnly
<1>5. ASSUME NEW v \in MemWeights, \A m \in s : v[m] <= u[m] PROVE Sum(v, s) <= Sum(u, s)
  BY <1>0, <1>5, TotalLess
<1> QED BY ZenonT(30), <1>1, <1>2, <1>3, <1>4, <1>5

LEMMA CloudPicks == CloudGreatest
  BY ZenonT(30), Greatest DEF CloudGreatest

LEMMA BackupCounts == ASSUME BackupParameters PROVE BackupGiven
<1>1. \A n \in Nat : \A T \in SUBSET (0..n) : T # {} => \E x \in T : \A y \in T : y <= x
  BY ZenonT(30), Greatest
<1>2. IsFiniteSet(Names)
  BY FS_Interval DEF Names, BackupParameters
<1>3. ASSUME NEW S \in SUBSET Names
      PROVE  Cardinality(S) \in Nat /\ \A T \in SUBSET S : Cardinality(T) <= Cardinality(S)
  <2>1. IsFiniteSet(S)
    BY ZenonT(30), <1>2, FS_Subset
  <2> QED BY <2>1, FS_Subset, FS_CardinalityType
<1> QED BY ZenonT(30), <1>1, <1>3 DEF BackupGiven, BackupSizes

LEMMA ChainCounts == ASSUME ChainParameters PROVE ChainGiven
<1>1. \A T \in SUBSET Nat : T # {} => \E x \in T : \A y \in T : x <= y
  BY ZenonT(30), Least
<1>2. ASSUME NEW n \in Nat, NEW S \in SUBSET (1..n)
      PROVE  Cardinality(S) \in Nat /\ \A x \in Nat \ S : Cardinality(S \cup {x}) = Cardinality(S) + 1
  <2>1. IsFiniteSet(1..n)
    BY FS_Interval
  <2>2. IsFiniteSet(S)
    BY ZenonT(30), <2>1, FS_Subset
  <2> QED BY <2>2, FS_AddElement, FS_CardinalityType
<1>3. Cardinality({}) = 0 /\ \A x \in Nat : Cardinality({x}) = 1
  BY ZenonT(30), FS_EmptySet, FS_Singleton
<1> QED BY ZenonT(30), <1>1, <1>2, <1>3 DEF ChainGiven, ChainSizes

-----------------------------------------------------------------------------
(* The control API.                                                        *)

(* Repeating a request under its Idempotency-Key never does it again, at the same time, later or
   after an error, and whoever is told of success is told so of the request they made. *)
KeyedOnce == DoneOnce /\ AnswerFitsRequest

(* An enabled chat has the lease of its model however enabling and disabling race, and a chat that
   answers only from knowledge never lets the model answer without a citation. *)
ChatKept == EnabledHasLease /\ GroundedOrNotFound

(* A run has exactly the permissions its version requests and the owner approved, whatever was
   imported, upgraded and approved meanwhile; agents that start each other stay within the chain:
   no agent twice, no deeper than the limit, no more starts than a run may make; and a start key of
   an agent names one run for good, whatever was lost, resent or called again. *)
StartsAsApproved ==
  RunsAsApproved /\ NoAgentTwice /\ DepthBounded /\ StartsBounded /\ KeyNamesOneRun

(* For any requests, keys and routes whose digest covers the whole body, as long as no call to
   another service is cut off from its commit: the row that begin inserts, and the next request with
   the key waits for, keeps KeyedOnce. *)
THEOREM RequestsDoneOnce ==
  ASSUME HttpKeys, HttpReliable, HttpHashed PROVE HttpSpec => []KeyedOnce
<1>1. HttpSpec => []DoneOnce
  BY HttpDoneOnce
<1>2. HttpSpec => []AnswerFitsRequest
  BY HttpAnswerFits
<1> QED BY <1>1, <1>2, PTL DEF KeyedOnce

(* For any number of requests that enable, disable and send, while the gateway answers and the
   control API does not die: the row lock of a session keeps ChatKept. *)
THEOREM ChatsKept == ASSUME ChatCalm PROVE ChatSpec => []ChatKept
<1>1. ChatSpec => []EnabledHasLease
  BY ChatEnabledHasLease
<1> QED BY <1>1, ChatGrounded, PTL DEF ChatKept

(* For any versions, permissions, agents, keys and limits: the approval check of create_run and the
   walk over the ancestors under the lock of start_agent_run keep StartsAsApproved. *)
THEOREM StartsApproved ==
  ASSUME ChainParameters PROVE InstallSpec /\ ChainSpec => []StartsAsApproved
<1>1. ChainGiven
  BY ZenonT(30), ChainCounts
<1>2. ChainSpec => []ChainInv
  BY <1>1, ChainInvariant
<1>3. ChainInv => NoAgentTwice /\ DepthBounded /\ StartsBounded /\ KeyNamesOneRun
  BY ZenonT(30), ChainKept DEF ChainInv
<1> QED BY <1>2, <1>3, PermissionsAreApproved, PTL DEF StartsAsApproved

-----------------------------------------------------------------------------
(* Models and their gateway.                                               *)

(* What the owner is shown as usable is: an installed model has all its files, verified (ModelStore);
   the profiles shown are those requests are routed to; and a deleted provider key is out of use
   when the window of the cache has passed (ProviderKeys). *)
ShownIsUsable == InstalledIsComplete /\ DeletedKeyExpires /\ ShownIsRouted

(* What the gateway admits fits in the run's and the day's limit, a reservation belongs to a request
   in flight, and one request of a key works at a time, however retries, cancellations and a
   restart interleave. *)
GatewayWithin == AdmittedFit /\ ReservedIsInFlight /\ OneWorksPerKey

(* For finitely many models of any sizes, however admissions, late starts and unverified unloads
   overlap: the sum that _admit compares under the admission lock covers whatever is in memory. *)
THEOREM MemoryIsEnough ==
  ASSUME MemSizes, Generative \subseteq Models PROVE MemSpec => []MemoryFits
<1>1. MemGiven
  BY ZenonT(30), MemAdds
<1>2. MemInv => MemoryFits
  BY ZenonT(30), <1>1, MemEnough
<1> QED BY <1>2, MemInvariant, PTL

(* While requests for one model come one after the other (StoreOrderly), for any profiles, tests
   and users: the order of verification, publication and row keeps ShownIsUsable, and so do the
   clock that api_key reads before it decrypts a key and the profiles that profile leaves out. *)
THEOREM UsableIsShown ==
  ASSUME StoreOrderly, CloudParameters PROVE StoreSpec /\ CloudSpec => []ShownIsUsable
<1>1. CloudInv => ShownIsRouted
  BY ZenonT(30), CloudPicks, CloudRouted
<1>2. CloudSpec => []CloudInv
  BY CloudInvariant
<1>3. CloudSpec => []DeletedKeyExpires
  BY CloudKeyExpires
<1>4. StoreSpec => []InstalledIsComplete
  BY StoreComplete
<1> QED BY <1>1, <1>2, <1>3, <1>4, PTL DEF ShownIsUsable

(* For any requests, holders, providers and limits, as long as no stream is abandoned between its
   answer and its first chunk: reserving before _check_budgets awaits, and taking the key before the
   first await of IdempotencyStore.run, keep GatewayWithin. *)
THEOREM GatewayStaysWithin ==
  ASSUME LlmParameters, "abandon" \notin LlmFaults PROVE LlmSpec => []GatewayWithin
<1>1. LlmSpec => []AdmittedFit
  BY LlmAdmitted
<1>2. LlmSpec => []ReservedIsInFlight
  BY LlmReserved
<1>3. LlmSpec => []OneWorksPerKey
  BY ZenonT(30), LlmOneWorks
<1> QED BY <1>1, <1>2, <1>3, PTL DEF GatewayWithin

-----------------------------------------------------------------------------
(* What the platform stores, and the account it is connected to.           *)

(* What is offered is whole: a document that is ready has its chunks and a document row its bytes;
   an archive has one consistent snapshot and its manifest; after a restore the rows, documents and
   schema are the archive's and connections that cannot be decrypted say so. *)
ShownWhole ==
  /\ ServedWhole /\ RowHasBytes
  /\ OneSnapshot /\ ManifestForEach
  /\ RestoredWhole /\ ConnectionsHonest

(* A Google call that was answered "unauthorized" is not repeated with the token that failed, and a
   connection is only said to need attention when Google has revoked its grant. *)
ConnectionTold == StaleNotReused /\ AttentionIsEarned

(* No step takes away what it should leave alone: pruning keeps the newest archives and the listing
   shows what there is; a disconnection or a new consent spares connections it has not read; an
   import changes no stored version; a message is only stored in a chat that is enabled. *)
KeepsTheRest ==
  /\ [][KeepsNewest /\ ShownAsIs]_backupVars
  /\ [][DisconnectSparesNew]_googleVars
  /\ [][VersionsImmutable]_installVars
  /\ [][StoredWhileEnabled]_chatVars

(* For any documents, names and archives, whatever crashes, lapses or is interrupted: the order in
   which rows, bytes, chunks, dumps, manifests and keys are written keeps ShownWhole. *)
THEOREM WholeIsShown ==
  ASSUME KB \notin Docs, BackupParameters
  PROVE  KnowSpec /\ BackupSpec /\ RestoreSpec => []ShownWhole
<1>1. KnowSpec => [](ServedWhole /\ RowHasBytes)
  BY KnowServed
<1>2. BackupGiven
  BY ZenonT(30), BackupCounts
<1>3. BackupSpec => []BackupInv
  BY <1>2, BackupInvariant
<1>4. BackupInv => OneSnapshot /\ ManifestForEach
  BY ZenonT(30), BackupKept
<1> QED BY <1>1, <1>3, <1>4, RestoredHonest, PTL DEF ShownWhole

(* For any consents, calls and owners: the refused token that _cached is told of and the connection whose
   refresh token _refresh sent keep ConnectionTold. *)
THEOREM ConnectionsTold == GoogleSpec => []ConnectionTold
  BY GoogleHonest, PTL DEF ConnectionTold

(* KeepsTheRest is kept for any documents and archives, consents and owners, importers and versions,
   messages and toggles. *)
THEOREM TheRestIsKept ==
  ASSUME BackupParameters
  PROVE  BackupSpec /\ GoogleSpec /\ InstallSpec /\ ChatSpec => KeepsTheRest
<1>1. BackupGiven
  BY Zenon, BackupCounts
<1>2. BackupSpec => [][KeepsNewest]_backupVars /\ [][ShownAsIs]_backupVars
  BY <1>1, BackupInvariant
<1> QED BY <1>2, GoogleDisconnects, VersionsStay, ChatStored, PTL DEF KeepsTheRest
=============================================================================
