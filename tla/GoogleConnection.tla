--------------------------- MODULE GoogleConnection ---------------------------
(***************************************************************************)
(* The capability broker's Google connector: consent, the row in           *)
(* oauth_connections, the access token in memory, its refresh under a lock *)
(* per connection, disconnecting, and the calls of agents that use it.     *)
(* A consent attempt, the connection it makes and the refresh token it     *)
(* brings share one name.  Google is external: a grant may be revoked and  *)
(* an access token may stop working at any time.                           *)
(***************************************************************************)
EXTENDS Integers, FiniteSets

CONSTANTS Logins,      \* consent attempts
          Account,     \* the Google account a consent is given for, NoAccount without Gmail
          NoAccount,
          Scopes,      \* what a consent grants
          Users,       \* Gmail and Sheets calls, and tests of the connection
          Op,          \* the operation a call makes
          Owners,      \* disconnect requests
          MaxTokens,   \* bound: access tokens per connection
          Nobody

VARIABLES login,   \* new, pending, exchange, commit, done
          seen,    \* the old rows a callback has read and will delete
          conn,    \* oauth_connections: none, CONNECTED, NEEDS_ATTENTION
          grant,   \* at Google: none, valid, revoked
          minted,  \* access tokens issued for a connection so far
          dead,    \* access tokens Google no longer takes
          access,  \* _access: the cached token, 0 if none
          lock,    \* _refresh_locks
          user,    \* where a call is
          owner    \* where a disconnect is

googleVars == <<login, seen, conn, grant, minted, dead, access, lock, user, owner>>

NoCall == [pc |-> "idle", c |-> Nobody, tok |-> 0, stale |-> <<Nobody, 0>>, tries |-> 0]

GoogleInit ==
  /\ login = [c \in Logins |-> "new"]
  /\ seen = [c \in Logins |-> {}]
  /\ conn = [c \in Logins |-> "none"]
  /\ grant = [c \in Logins |-> "none"]
  /\ minted = [c \in Logins |-> 0]
  /\ dead = {}
  /\ access = [c \in Logins |-> 0]
  /\ lock = [c \in Logins |-> Nobody]
  /\ user = [u \in Users |-> NoCall]
  /\ owner = [o \in Owners |-> [pc |-> "idle", c |-> Nobody]]

GoogleRows == {c \in Logins : conn[c] # "none"}

-----------------------------------------------------------------------------
(* Consent. *)

start(c) ==
  /\ login[c] = "new" /\ login' = [login EXCEPT ![c] = "pending"]
  /\ UNCHANGED <<seen, conn, grant, minted, dead, access, lock, user, owner>>

(* callback takes the state out of _pending; a state that expired, a wrong
   binding or a refusal ends here, otherwise Google exchanges the code. *)
callback(c) ==
  /\ login[c] = "pending"
  /\ \/ login' = [login EXCEPT ![c] = "done"] /\ UNCHANGED <<grant, minted>>
     \/ /\ login' = [login EXCEPT ![c] = "exchange"]
        /\ grant' = [grant EXCEPT ![c] = "valid"]
        /\ minted' = [minted EXCEPT ![c] = 1]
  /\ UNCHANGED <<seen, conn, dead, access, lock, user, owner>>

(* A token without offline access or a Gmail profile that cannot be read ends the
   callback.  Otherwise the transaction reads the old rows, drops their tokens ... *)
CallbackReads(c) ==
  /\ login[c] = "exchange"
  /\ \/ /\ login' = [login EXCEPT ![c] = "commit"]
        /\ seen' = [seen EXCEPT ![c] = GoogleRows]
        /\ access' = [x \in Logins |-> IF x \in GoogleRows THEN 0 ELSE access[x]]
     \/ login' = [login EXCEPT ![c] = "done"] /\ UNCHANGED <<seen, access>>
  /\ UNCHANGED <<conn, grant, minted, dead, lock, user, owner>>

(* ... and replaces them.  It fails when an old row has gone meanwhile, or when
   the account has a row already. *)
CallbackCommits(c) ==
  /\ login[c] = "commit" /\ login' = [login EXCEPT ![c] = "done"]
  /\ IF /\ seen[c] \subseteq GoogleRows
        /\ \A x \in GoogleRows \ seen[c] : Account[x] = NoAccount \/ Account[x] # Account[c]
     THEN /\ conn' = [x \in Logins |-> IF x = c THEN "CONNECTED"
                                       ELSE IF x \in seen[c] THEN "none" ELSE conn[x]]
          /\ access' = [access EXCEPT ![c] = 1]
     ELSE UNCHANGED <<conn, access>>
  /\ UNCHANGED <<seen, grant, minted, dead, lock, user, owner>>

-----------------------------------------------------------------------------
(* Calls. *)

GoogleAt(u, pc) == user[u].pc = pc
GoogleGoto(u, pc) == user' = [user EXCEPT ![u].pc = pc]

ScopeOf ==
  [gmail_list |-> "gmail.readonly", gmail_get |-> "gmail.readonly", sheets_read |-> "spreadsheets",
   sheets_append |-> "spreadsheets", sheets_update |-> "spreadsheets"]

_cached_AnyToken(c, stale) == IF access[c] # 0 THEN {access[c], 0} ELSE {0}

(* The cached token is used unless Google has just refused it; it may also
   have come too close to its expiry. *)
_cached(c, stale) == IF access[c] # 0 /\ <<c, access[c]>> # stale THEN {access[c], 0} ELSE {0}

(* _access_token up to the lock.  A test drops the cached token first; a
   first attempt also looks at the scopes. *)
AccessToken(u) ==
  /\ user[u].pc \in {"idle", "again"}
  /\ IF GoogleRows = {} THEN GoogleGoto(u, "failed") /\ UNCHANGED access
     ELSE \E c \in GoogleRows :
            LET drops == Op[u] = "test" /\ GoogleAt(u, "idle")
                start0 == [user[u] EXCEPT !.c = c, !.tok = 0]
            IN  /\ access' = IF drops THEN [access EXCEPT ![c] = 0] ELSE access
                /\ IF conn[c] # "CONNECTED" THEN GoogleGoto(u, "failed")
                   ELSE \E t \in IF drops THEN {0} ELSE _cached(c, user[u].stale) :
                          user' = [user EXCEPT ![u] =
                                     [start0 EXCEPT !.tok = t, !.pc = IF t # 0 THEN "api" ELSE "lock"]]
  /\ UNCHANGED <<login, seen, conn, grant, minted, dead, lock, owner>>

TakeLock(u) ==
  /\ GoogleAt(u, "lock") /\ lock[user[u].c] = Nobody
  /\ \E t \in _cached(user[u].c, user[u].stale) :
       IF t # 0
       THEN user' = [user EXCEPT ![u].tok = t, ![u].pc = "api"] /\ UNCHANGED lock
       ELSE GoogleGoto(u, "load") /\ lock' = [lock EXCEPT ![user[u].c] = u]
  /\ UNCHANGED <<login, seen, conn, grant, minted, dead, access, owner>>

Release(u) == lock' = [lock EXCEPT ![user[u].c] = Nobody]

(* _refresh reads the row again. *)
RefreshLoads(u) ==
  /\ GoogleAt(u, "load")
  /\ \/ conn[user[u].c] # "none" /\ GoogleGoto(u, "token") /\ UNCHANGED lock
     \/ GoogleGoto(u, "failed") /\ Release(u) \* gone, or it cannot be decrypted
  /\ UNCHANGED <<login, seen, conn, grant, minted, dead, access, owner>>

RefreshUnavailable_KeepsLock(u) ==
  /\ GoogleAt(u, "token") /\ GoogleGoto(u, "failed") /\ UNCHANGED lock
  /\ UNCHANGED <<login, seen, conn, grant, minted, dead, access, owner>>

RefreshUnavailable(u) ==
  /\ GoogleAt(u, "token") /\ GoogleGoto(u, "failed") /\ Release(u)
  /\ UNCHANGED <<login, seen, conn, grant, minted, dead, access, owner>>

RefreshAnswered(u) ==
  LET c == user[u].c IN
  /\ GoogleAt(u, "token") /\ grant[c] = "valid" /\ minted[c] < MaxTokens
  /\ minted' = [minted EXCEPT ![c] = @ + 1]
  /\ access' = [access EXCEPT ![c] = minted[c] + 1]
  /\ user' = [user EXCEPT ![u].tok = minted[c] + 1, ![u].pc = "touch"]
  /\ UNCHANGED <<login, seen, conn, grant, dead, lock, owner>>

(* last_checked_at is written if the row still exists. *)
RefreshTouches(u) ==
  /\ GoogleAt(u, "touch") /\ GoogleGoto(u, "api") /\ Release(u)
  /\ UNCHANGED <<login, seen, conn, grant, minted, dead, access, owner>>

RefreshRefused(u) ==
  LET c == user[u].c IN
  /\ GoogleAt(u, "token") /\ grant[c] = "revoked"
  /\ access' = [access EXCEPT ![c] = 0] /\ GoogleGoto(u, "expire")
  /\ UNCHANGED <<login, seen, conn, grant, minted, dead, lock, owner>>

MarkExpired_CurrentRow(u) ==
  /\ GoogleAt(u, "expire") /\ GoogleGoto(u, "failed") /\ Release(u)
  /\ conn' = [x \in Logins |-> IF conn[x] # "none" THEN "NEEDS_ATTENTION" ELSE "none"]
  /\ UNCHANGED <<login, seen, grant, minted, dead, access, owner>>

MarkExpired(u) ==
  LET c == user[u].c IN
  /\ GoogleAt(u, "expire") /\ GoogleGoto(u, "failed") /\ Release(u)
  /\ conn' = [conn EXCEPT ![c] = IF @ = "none" THEN "none" ELSE "NEEDS_ATTENTION"]
  /\ UNCHANGED <<login, seen, grant, minted, dead, access, owner>>

(* The answer to one request: a token may be refused, anything else may fail too. *)
_api(c, tok) ==
  {"failed", IF grant[c] = "valid" /\ <<c, tok>> \notin dead THEN "done" ELSE "expired"}

(* _call: the scope is checked before the first request only; a request that
   is refused as expired is made once more with another token. *)
GoogleCall(u) ==
  LET c == user[u].c IN
  /\ GoogleAt(u, "api")
  /\ \E r \in IF Op[u] = "test" THEN {"done"}
              ELSE IF user[u].tries = 0 /\ ScopeOf[Op[u]] \notin Scopes[c] THEN {"failed"}
              ELSE _api(c, user[u].tok) :
       user' = [user EXCEPT ![u] =
                  IF r # "expired" THEN [@ EXCEPT !.pc = r]
                  ELSE IF @.tries = 0
                       THEN [@ EXCEPT !.pc = "again", !.stale = <<c, user[u].tok>>, !.tries = 1]
                  ELSE [@ EXCEPT !.pc = "failed"]]
  /\ UNCHANGED <<login, seen, conn, grant, minted, dead, access, lock, owner>>

-----------------------------------------------------------------------------
(* Disconnecting: read, revoke at Google, delete what was read. *)

disconnect(o) ==
  /\ owner[o].pc = "idle"
  /\ \/ GoogleRows = {} /\ owner' = [owner EXCEPT ![o].pc = "done"]
     \/ \E c \in GoogleRows : owner' = [owner EXCEPT ![o] = [pc |-> "revoke", c |-> c]]
  /\ UNCHANGED <<login, seen, conn, grant, minted, dead, access, lock, user>>

Revoke(o) ==
  /\ owner[o].pc = "revoke" /\ owner' = [owner EXCEPT ![o].pc = "delete"]
  /\ \/ grant' = [grant EXCEPT ![owner[o].c] = "revoked"]
     \/ UNCHANGED grant                \* unreachable, or not decrypted
  /\ UNCHANGED <<login, seen, conn, minted, dead, access, lock, user>>

DeleteConn_Current(o) ==
  /\ owner[o].pc = "delete" /\ owner' = [owner EXCEPT ![o].pc = "done"]
  /\ \/ /\ GoogleRows = {} /\ UNCHANGED <<conn, access>>
     \/ \E c \in GoogleRows : /\ conn' = [conn EXCEPT ![c] = "none"]
                              /\ access' = [access EXCEPT ![c] = 0]
  /\ UNCHANGED <<login, seen, grant, minted, dead, lock, user>>

DeleteConn(o) ==
  LET c == owner[o].c IN
  /\ owner[o].pc = "delete" /\ owner' = [owner EXCEPT ![o].pc = "done"]
  /\ IF c \in GoogleRows
     THEN conn' = [conn EXCEPT ![c] = "none"] /\ access' = [access EXCEPT ![c] = 0]
     ELSE UNCHANGED <<conn, access>>
  /\ UNCHANGED <<login, seen, grant, minted, dead, lock, user>>

(* Google: the user withdraws the grant; an access token expires. *)
Withdrawn(c) ==
  /\ grant[c] = "valid" /\ conn[c] # "none" /\ grant' = [grant EXCEPT ![c] = "revoked"]
  /\ UNCHANGED <<login, seen, conn, minted, dead, access, lock, user, owner>>

TokenExpires(c) ==
  /\ \E n \in 1 .. minted[c] : <<c, n>> \notin dead /\ dead' = dead \cup {<<c, n>>}
  /\ UNCHANGED <<login, seen, conn, grant, minted, access, lock, user, owner>>

UserStep(u) ==
  \/ AccessToken(u) \/ TakeLock(u) \/ RefreshLoads(u) \/ RefreshUnavailable(u)
  \/ RefreshAnswered(u) \/ RefreshTouches(u) \/ RefreshRefused(u) \/ MarkExpired(u) \/ GoogleCall(u)

GoogleNext ==
  \/ \E c \in Logins : \/ start(c) \/ callback(c) \/ CallbackReads(c) \/ CallbackCommits(c)
                       \/ Withdrawn(c) \/ TokenExpires(c)
  \/ \E u \in Users : UserStep(u)
  \/ \E o \in Owners : disconnect(o) \/ Revoke(o) \/ DeleteConn(o)

GoogleSpec == GoogleInit /\ [][GoogleNext]_googleVars

-----------------------------------------------------------------------------

(* A connection is marked NEEDS_ATTENTION only because Google refused its own
   refresh token: the refusal of one that was replaced meanwhile does not
   touch its successor. *)
AttentionIsEarned == \A c \in Logins : conn[c] = "NEEDS_ATTENTION" => grant[c] = "revoked"

(* After a refusal the call asks for a token that is "not stale, which Google just refused":
   the second request never carries the same token. *)
StaleNotReused ==
  \A u \in Users : GoogleAt(u, "api") /\ user[u].tries = 1 => <<user[u].c, user[u].tok>> # user[u].stale

(* A disconnect that waited for Google deletes the connection it revoked, never one
   the owner made in the meantime: a row goes only when a disconnect that
   read it, or a callback that replaces it, commits. *)
DisconnectSparesNew ==
  \A c \in Logins : conn[c] # "none" /\ conn'[c] = "none" =>
    \/ \E o \in Owners : owner[o].c = c /\ owner[o].pc = "delete"
    \/ \E x \in Logins : login[x] = "commit" /\ c \in seen[x]

(* A call that has begun.  Refreshes are "single-flight per connection" and the lock is given
   back on every path: each call comes back. *)
Begun(u) == user[u].pc \notin {"idle", "done", "failed"}
=============================================================================
