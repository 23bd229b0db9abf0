----------------------------- MODULE ProviderKeys -----------------------------
(***************************************************************************)
(* Keys of cloud providers: rows the broker writes, the gateway's choice   *)
(* of a row, its cache of decrypted keys, and the test of a key.  One      *)
(* provider; every profile has its own secret, so a profile's name stands  *)
(* for its secret too.  Time is counted, because the cache promises a      *)
(* window.                                                                 *)
(***************************************************************************)
EXTENDS Integers, FiniteSets

CONSTANTS Profiles,   \* Nat subset: a later number was created later
          Tests,      \* tests the owner starts
          KeyUsers,   \* cloud requests of runs
          Window,     \* credential_cache_seconds
          MaxTime,    \* bound on the clock
          None

VARIABLES keyRow,   \* provider_profiles: absent, UNTESTED, CONNECTED, ERROR
          enabled,
          deleted,  \* when the row and its secret were deleted
          cache,    \* the gateway's cached keys: expiry, or -1
          test, keyUser,
          verdict,  \* the last definite answer about a key: none, good, bad
          now

cloudVars == <<keyRow, enabled, deleted, cache, test, keyUser, verdict, now>>

CloudInit ==
  /\ keyRow = [p \in Profiles |-> "absent"]
  /\ enabled = [p \in Profiles |-> FALSE]
  /\ deleted = [p \in Profiles |-> -1]
  /\ cache = [p \in Profiles |-> -1]
  /\ test = [t \in Tests |-> [pc |-> "idle", p |-> None, was |-> "absent", out |-> "none", at |-> 0]]
  /\ keyUser = [u \in KeyUsers |-> [pc |-> "idle", p |-> None, at |-> 0]]
  /\ verdict = [p \in Profiles |-> "none"]
  /\ now = 0

-----------------------------------------------------------------------------
(* The broker: a key is stored with its profile in one transaction, and so deleted. *)

create_profile(p) ==
  /\ keyRow[p] = "absent" /\ deleted[p] = -1
  /\ \A q \in Profiles : q > p => keyRow[q] = "absent" /\ deleted[q] = -1
  /\ keyRow' = [keyRow EXCEPT ![p] = "UNTESTED"]
  /\ \E e \in BOOLEAN : enabled' = [enabled EXCEPT ![p] = e]
  /\ UNCHANGED <<deleted, cache, test, keyUser, verdict, now>>

delete_profile(p) ==
  /\ keyRow[p] # "absent"
  /\ keyRow' = [keyRow EXCEPT ![p] = "absent"]
  /\ deleted' = [deleted EXCEPT ![p] = now]
  /\ UNCHANGED <<enabled, cache, test, keyUser, verdict, now>>

(* What the owner is shown for the provider. *)
list_connections ==
  LET mine   == {p \in Profiles : keyRow[p] # "absent"}
      usable == {p \in mine : enabled[p] /\ keyRow[p] # "ERROR"}
  IN  IF usable # {} THEN "CONNECTED"
      ELSE IF mine = {} THEN "NOT_CONNECTED"
      ELSE IF \A p \in mine : ~enabled[p] THEN "DISABLED"
      ELSE "NEEDS_ATTENTION"

profile_NewestOnly ==
  LET live == {p \in Profiles : keyRow[p] # "absent"}
      new  == {p \in live : \A q \in live : q <= p}
  IN  {p \in new : enabled[p] /\ keyRow[p] # "ERROR"}

(* The profile the gateway uses: enabled, not in error, tested before untested,
   then the newest. *)
profile ==
  LET live == {p \in Profiles : keyRow[p] \in {"UNTESTED", "CONNECTED"} /\ enabled[p]}
      best == IF \E p \in live : keyRow[p] = "CONNECTED" THEN {p \in live : keyRow[p] = "CONNECTED"}
              ELSE live
  IN  {p \in best : \A q \in best : q <= p}

-----------------------------------------------------------------------------
(* The gateway, for a run's request: choose the profile, check budgets, then
   ask for the key: from the cache, or decrypt and cache it. *)

ChooseProfile(u) ==
  /\ keyUser[u].pc = "idle"
  /\ \E p \in profile : keyUser' = [keyUser EXCEPT ![u] = [pc |-> "key", p |-> p, at |-> 0]]
  /\ UNCHANGED <<keyRow, enabled, deleted, cache, test, verdict, now>>

Hit(p) == cache[p] > now

api_key(u) ==
  LET p == keyUser[u].p IN
  /\ keyUser[u].pc = "key"
  /\ keyUser' = [keyUser EXCEPT ![u] = IF Hit(p) THEN [@ EXCEPT !.pc = "use"]
                                 ELSE [@ EXCEPT !.pc = "load", !.at = now]]
  /\ UNCHANGED <<keyRow, enabled, deleted, cache, test, verdict, now>>

Stored_LaterClock(p, at) == [cache EXCEPT ![p] = now + Window]

Stored(p, at) == [cache EXCEPT ![p] = at + Window]

(* The transaction that reads the secret takes its time; the expiry counts
   from before it. *)
LoadKey(u) ==
  LET p == keyUser[u].p IN
  /\ keyUser[u].pc = "load"
  /\ IF keyRow[p] # "absent"
     THEN keyUser' = [keyUser EXCEPT ![u].pc = "loaded"] /\ UNCHANGED cache
     ELSE keyUser' = [keyUser EXCEPT ![u].pc = "idle"] /\ cache' = [cache EXCEPT ![p] = -1]
  /\ UNCHANGED <<keyRow, enabled, deleted, test, verdict, now>>

CacheKey(u) ==
  /\ keyUser[u].pc = "loaded"
  /\ cache' = Stored(keyUser[u].p, keyUser[u].at)
  /\ keyUser' = [keyUser EXCEPT ![u].pc = "use"]
  /\ UNCHANGED <<keyRow, enabled, deleted, test, verdict, now>>

UseKey(u) ==
  /\ keyUser[u].pc = "use" /\ keyUser' = [keyUser EXCEPT ![u].pc = "idle"]
  /\ UNCHANGED <<keyRow, enabled, deleted, cache, test, verdict, now>>

-----------------------------------------------------------------------------
(* test_provider_profile. *)

TestReads(t) ==
  /\ test[t].pc = "idle"
  /\ \E p \in Profiles : keyRow[p] # "absent"
       /\ test' = [test EXCEPT ![t] = [pc |-> "load", p |-> p, was |-> keyRow[p], out |-> "none", at |-> now]]
  /\ UNCHANGED <<keyRow, enabled, deleted, cache, keyUser, verdict, now>>

(* The key is read past the cache, but cached; a key that is gone is a rejection. *)
TestLoads(t) ==
  LET p == test[t].p IN
  /\ test[t].pc = "load"
  /\ IF keyRow[p] # "absent"
     THEN test' = [test EXCEPT ![t].pc = "loaded"] /\ UNCHANGED <<cache, verdict>>
     ELSE /\ test' = [test EXCEPT ![t].pc = "store", ![t].out = "bad"]
          /\ verdict' = [verdict EXCEPT ![p] = "bad"]
          /\ cache' = [cache EXCEPT ![p] = -1]
  /\ UNCHANGED <<keyRow, enabled, deleted, keyUser, now>>

TestCaches(t) ==
  /\ test[t].pc = "loaded" /\ test' = [test EXCEPT ![t].pc = "verify"]
  /\ cache' = Stored(test[t].p, test[t].at)
  /\ UNCHANGED <<keyRow, enabled, deleted, keyUser, verdict, now>>

(* The provider answers, or something on the way fails; the cached copy is dropped. *)
Verify(t) ==
  LET p == test[t].p IN
  /\ test[t].pc = "verify"
  /\ \E out \in {"good", "bad", "transient"} :
       /\ test' = [test EXCEPT ![t].pc = "store", ![t].out = out]
       /\ verdict' = [verdict EXCEPT ![p] = IF out = "transient" THEN @ ELSE out]
  /\ cache' = [cache EXCEPT ![p] = -1]
  /\ UNCHANGED <<keyRow, enabled, deleted, keyUser, now>>

(* A transient failure keeps the status read before the test. *)
StoredStatus(was, out) ==
  IF out = "good" THEN "CONNECTED"
  ELSE IF out = "transient" /\ was = "CONNECTED" THEN was
  ELSE "ERROR"

TestStores(t) ==
  LET p == test[t].p IN
  /\ test[t].pc = "store" /\ test' = [test EXCEPT ![t].pc = "idle", ![t].p = None]
  /\ keyRow' = IF keyRow[p] = "absent" THEN keyRow
            ELSE [keyRow EXCEPT ![p] = StoredStatus(test[t].was, test[t].out)]
  /\ UNCHANGED <<enabled, deleted, cache, keyUser, verdict, now>>

Tick == now < MaxTime /\ now' = now + 1
        /\ UNCHANGED <<keyRow, enabled, deleted, cache, test, keyUser, verdict>>

CloudNext ==
  \/ \E p \in Profiles : create_profile(p) \/ delete_profile(p)
  \/ \E u \in KeyUsers : ChooseProfile(u) \/ api_key(u) \/ LoadKey(u) \/ CacheKey(u) \/ UseKey(u)
  \/ \E t \in Tests : TestReads(t) \/ TestLoads(t) \/ TestCaches(t) \/ Verify(t) \/ TestStores(t)
  \/ Tick

CloudSpec == CloudInit /\ [][CloudNext]_cloudVars

-----------------------------------------------------------------------------

(* "a key replaced or deleted in Connections stops being used within that
   window": no cached key of a deleted profile is accepted when the window
   has passed, whatever loads were under way when it was deleted. *)
DeletedKeyExpires ==
  \A p \in Profiles : deleted[p] # -1 /\ now >= deleted[p] + Window => ~Hit(p)

(* The broker's list tells the owner the truth about the gateway's routing: a
   provider is shown CONNECTED exactly when the gateway has a profile to use. *)
ShownIsRouted == (list_connections = "CONNECTED") <=> (profile # {})

=============================================================================
