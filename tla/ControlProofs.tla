--------------------------- MODULE ControlProofs ----------------------------
(***************************************************************************)
(* Proofs about components of the control API: requests under an           *)
(* Idempotency-Key, chat sessions, installations, and agents that start    *)
(* agents.                                                                 *)
(***************************************************************************)
EXTENDS HttpIdempotency, ChatSessions, Installations, Chaining, Integers, TLAPS

-----------------------------------------------------------------------------
(* HttpIdempotency: requests under an Idempotency-Key.                     *)

(* The header's values are not the model's mark for a request without one. *)
HttpKeys == HttpNoKey \notin RequestKeys

(* A route whose effect is another service's is not interrupted between the
   effect and the commit; for the other routes any fault is allowed. *)
HttpReliable == \A n \in Named : Routes[n].remote => HttpFaults \cap {"crash", "lost"} = {}

HttpHashed == \A n \in Named : Routes[n].hashed = Routes[n].fields

HttpPlaces == {"new", "begun", "worked", "ok", "KEY_REUSED", "IN_PROGRESS", "refused",
               "unavailable", "no answer"}

HttpRequest(B) == [pc : HttpPlaces, key : RequestKeys \cup {HttpNoKey}, body : B, answer : Nat]

HttpTypes ==
  /\ \E n \in Named : route = Routes[n]
  /\ DOMAIN record = RequestKeys
  /\ httpReq \in [HttpRequests -> HttpRequest(Bodies(route))]
  /\ effects \in [RequestKeys \cup {HttpNoKey} -> Seq(Bodies(route))]

HttpHash(hashed, body) == [f \in {"path"} \cup hashed |-> body[f]]

(* Whoever is past the insert is alone with its key and finds no record;
   a record holds what was done; what a request was told, or will be told when
   its transaction commits, is an entry of the log of effects. *)
HttpAlone ==
  \A r, q \in HttpRequests :
    Inserted(r) /\ Inserted(q) /\ httpReq[r].key = httpReq[q].key /\ httpReq[r].key \in RequestKeys => r = q

HttpRecords ==
  \A k \in RequestKeys :
    record[k] # NoRecord =>
      /\ record[k].status = "ok" /\ record[k].answer = 1 /\ Len(effects[k]) = 1
      /\ record[k].digest = HttpHash(route.hashed, effects[k][1])
      /\ \A r \in HttpRequests : httpReq[r].key = k => ~Inserted(r)

HttpUnrecorded ==
  \A k \in RequestKeys :
    record[k] = NoRecord =>
      IF \E r \in HttpRequests : httpReq[r].key = k /\ Pending(r, "worked") /\ route.remote
      THEN Len(effects[k]) = 1 ELSE Len(effects[k]) = 0

HttpLogged ==
  \A r \in HttpRequests :
    Pending(r, "ok") \/ (Pending(r, "worked") /\ route.remote) =>
      /\ httpReq[r].answer \in 1 .. Len(effects[httpReq[r].key])
      /\ (route.hashed = route.fields \/ Pending(r, "worked"))
           => effects[httpReq[r].key][httpReq[r].answer] = httpReq[r].body

HttpInv ==
  /\ HttpTypes /\ HttpAlone /\ HttpRecords /\ HttpUnrecorded /\ HttpLogged
  /\ \A r \in HttpRequests : ~Pending(r, "IN_PROGRESS")

(* Two bodies of a route with one digest are one body, when the whole body is
   hashed. *)
LEMMA HttpDigest ==
  ASSUME route.hashed = route.fields,
         NEW b \in Bodies(route), NEW c \in Bodies(route),
         digest(b) = digest(c)
  PROVE  b = c
<1> DEFINE F == {"path"} \cup route.fields
<1>1. /\ b = [f \in F |-> b[f]]
      /\ c = [f \in F |-> c[f]]
  BY Zenon DEF Bodies, Fields
<1>2. \A f \in F : b[f] = c[f]
  <2> TAKE f \in F
  <2>1. digest(b)[f] = b[f] /\ digest(c)[f] = c[f]
    BY Zenon DEF digest
  <2> QED BY Zenon, <2>1
<1> QED BY Zenon, <1>1, <1>2

LEMMA HttpStarts == ASSUME HttpKeys, HttpInit PROVE HttpInv
<1> USE DEF HttpInit
<1>1. HttpTypes
  <2> DEFINE B == Bodies(route)
             N == {[pc |-> "new", key |-> k, body |-> b, answer |-> 0]
                     : k \in RequestKeys \cup {HttpNoKey}, b \in B}
  <2>1. N \subseteq HttpRequest(B)
    <3> SUFFICES ASSUME NEW x \in N PROVE x \in HttpRequest(B)
      OBVIOUS
    <3> PICK k \in RequestKeys \cup {HttpNoKey}, b \in B :
               x = [pc |-> "new", key |-> k, body |-> b, answer |-> 0]
      OBVIOUS
    <3> QED BY DEF HttpRequest, HttpPlaces
  <2>2. httpReq \in [HttpRequests -> N]
    OBVIOUS
  <2>3. httpReq \in [HttpRequests -> HttpRequest(B)]
    <3> HIDE DEF N
    <3> QED BY Zenon, <2>1, <2>2
  <2>4. effects \in [RequestKeys \cup {HttpNoKey} -> Seq(B)]
    OBVIOUS
  <2> QED BY <2>3, <2>4 DEF HttpTypes
<1>2. \A r \in HttpRequests : httpReq[r].pc = "new"
  BY DEF HttpInit
<1>3. \A k \in RequestKeys : record[k] = NoRecord /\ Len(effects[k]) = 0
  BY Zenon DEF HttpInit
<1> QED BY Zenon, <1>1, <1>2, <1>3 DEF HttpInv, HttpAlone, HttpRecords, HttpUnrecorded, HttpLogged,
           Inserted, Pending

(* What answering a request does to the requests. *)
LEMMA HttpAnswerKeeps ==
  ASSUME HttpTypes, NEW r \in HttpRequests, NEW to \in HttpPlaces, NEW n \in Nat,
         HttpAnswer(r, to, n), UNCHANGED route
  PROVE  /\ httpReq' \in [HttpRequests -> HttpRequest(Bodies(route'))]
         /\ \A q \in HttpRequests :
              /\ httpReq'[q].key = httpReq[q].key /\ httpReq'[q].body = httpReq[q].body
              /\ q # r => httpReq'[q] = httpReq[q]
         /\ httpReq'[r].pc = to /\ httpReq'[r].answer = n
<1>1. Bodies(route') = Bodies(route)
  BY Zenon
<1>2. httpReq \in [HttpRequests -> HttpRequest(Bodies(route))]
  BY Zenon DEF HttpTypes
<1> QED BY Zenon, <1>1, <1>2 DEF HttpAnswer, HttpRequest

(* A request is refused, or has done its own work, and nobody can see it yet. *)
LEMMA HttpQuiet ==
  ASSUME HttpInv, NEW r \in HttpRequests, NEW to \in HttpPlaces, HttpAnswer(r, to, 0),
         \/ to \in {"KEY_REUSED", "refused"} /\ httpReq[r].pc \in {"new", "begun"}
         \/ to = "worked" /\ httpReq[r].pc = "begun" /\ ~route.remote,
         UNCHANGED <<route, record, effects>>
  PROVE  HttpInv'
<1> USE DEF Pending, Inserted
<1>0. HttpTypes /\ HttpAlone /\ HttpRecords /\ HttpUnrecorded /\ HttpLogged
  BY Zenon DEF HttpInv
<1>1. /\ httpReq' \in [HttpRequests -> HttpRequest(Bodies(route'))]
      /\ \A q \in HttpRequests :
           /\ httpReq'[q].key = httpReq[q].key /\ httpReq'[q].body = httpReq[q].body
           /\ q # r => httpReq'[q] = httpReq[q]
      /\ httpReq'[r].pc = to /\ httpReq'[r].answer = 0
  BY Zenon, <1>0, HttpAnswerKeeps
<1>2. HttpTypes'
  BY Zenon, <1>0, <1>1 DEF HttpTypes
<1>3. HttpAlone'
  BY <1>0, <1>1 DEF HttpAlone
<1>4. HttpRecords'
  BY <1>0, <1>1 DEF HttpRecords
<1>5. HttpUnrecorded'
  BY <1>0, <1>1 DEF HttpUnrecorded
<1>6. HttpLogged'
  BY Zenon, <1>0, <1>1 DEF HttpLogged
<1> QED BY Zenon, <1>1, <1>2, <1>3, <1>4, <1>5, <1>6 DEF HttpInv

(* begin either inserts, which nobody else has done, or reads the record. *)
LEMMA HttpBegin ==
  ASSUME HttpKeys, HttpInv, NEW r \in HttpRequests, begin(r) PROVE HttpInv'
<1> DEFINE k == httpReq[r].key
<1> USE DEF Pending, Inserted
<1>0. HttpTypes /\ HttpAlone /\ HttpRecords /\ HttpUnrecorded /\ HttpLogged
  BY Zenon DEF HttpInv
<1>1. httpReq[r].pc = "new" /\ UNCHANGED <<route, record, effects>> /\ k \in RequestKeys \cup {HttpNoKey}
  BY Zenon, <1>0 DEF begin, HttpTypes, HttpRequest
<1>2. CASE /\ ~Known(k)
           /\ \A q \in HttpRequests : (Inserted(q) /\ httpReq[q].key = k) => k = HttpNoKey
           /\ HttpAnswer(r, "begun", 0)
  <2>1. /\ httpReq' \in [HttpRequests -> HttpRequest(Bodies(route'))]
        /\ \A q \in HttpRequests :
             /\ httpReq'[q].key = httpReq[q].key /\ httpReq'[q].body = httpReq[q].body
             /\ q # r => httpReq'[q] = httpReq[q]
        /\ httpReq'[r].pc = "begun" /\ httpReq'[r].answer = 0
    BY Zenon, <1>0, <1>1, <1>2, HttpAnswerKeeps DEF HttpPlaces
  <2>2. HttpTypes'
    BY Zenon, <1>0, <1>1, <2>1 DEF HttpTypes
  <2>3. HttpAlone'
    BY <1>0, <1>1, <1>2, <2>1 DEF HttpAlone, HttpKeys
  <2>4. HttpRecords'
    BY <1>0, <1>1, <1>2, <2>1 DEF HttpRecords, Known, HttpKeys
  <2>5. HttpUnrecorded'
    BY <1>0, <1>1, <2>1 DEF HttpUnrecorded
  <2>6. HttpLogged'
    BY Zenon, <1>0, <1>1, <2>1 DEF HttpLogged
  <2> QED BY Zenon, <2>1, <2>2, <2>3, <2>4, <2>5, <2>6 DEF HttpInv
<1>3. CASE Known(k) /\ record[k].digest # digest(httpReq[r].body) /\ HttpAnswer(r, "KEY_REUSED", 0)
  BY Zenon, <1>1, <1>3, HttpQuiet DEF HttpPlaces
<1>4. CASE Known(k) /\ record[k].digest = digest(httpReq[r].body) /\ HttpAnswer(r, "ok", record[k].answer)
  <2>0. k \in RequestKeys /\ record[k] # NoRecord
    BY Zenon, <1>1, <1>4 DEF Known
  <2>1. /\ record[k].answer = 1 /\ Len(effects[k]) = 1
        /\ record[k].digest = digest(effects[k][1])
    BY Zenon, <1>0, <2>0 DEF HttpRecords, HttpHash, digest
  <2>2. /\ httpReq' \in [HttpRequests -> HttpRequest(Bodies(route'))]
        /\ \A q \in HttpRequests :
             /\ httpReq'[q].key = httpReq[q].key /\ httpReq'[q].body = httpReq[q].body
             /\ q # r => httpReq'[q] = httpReq[q]
        /\ httpReq'[r].pc = "ok" /\ httpReq'[r].answer = 1
    BY Zenon, <1>0, <1>1, <1>4, <2>1, HttpAnswerKeeps DEF HttpPlaces
  <2>3. HttpTypes'
    BY Zenon, <1>0, <1>1, <2>2 DEF HttpTypes
  <2>4. HttpAlone'
    BY <1>0, <1>1, <2>2 DEF HttpAlone
  <2>5. HttpRecords'
    BY <1>0, <1>1, <2>2 DEF HttpRecords
  <2>6. HttpUnrecorded'
    BY <1>0, <1>1, <2>2 DEF HttpUnrecorded
  <2>7. route.hashed = route.fields => effects[k][1] = httpReq[r].body
    <3>1. effects[k][1] \in Bodies(route) /\ httpReq[r].body \in Bodies(route)
      BY <1>0, <2>0, <2>1 DEF HttpTypes, HttpRequest
    <3> QED BY Zenon, <1>4, <2>1, <3>1, HttpDigest
  <2>8. HttpLogged'
    BY <1>0, <1>1, <2>1, <2>2, <2>7 DEF HttpLogged
  <2> QED BY Zenon, <2>2, <2>3, <2>4, <2>5, <2>6, <2>8 DEF HttpInv
<1>5. Known(k) => record[k].status = "ok"
  BY Zenon, <1>0, <1>1 DEF HttpRecords, Known
<1> QED BY Zenon, <1>2, <1>3, <1>4, <1>5 DEF begin

LEMMA HttpWorkKeeps == ASSUME HttpInv, NEW r \in HttpRequests, HttpWork(r) PROVE HttpInv'
BY Zenon, HttpQuiet DEF HttpWork, Pending, HttpPlaces

(* What executing a request does to the log of effects. *)
LEMMA HttpExecuted ==
  ASSUME HttpTypes, NEW r \in HttpRequests, Executed(r), UNCHANGED route
  PROVE  /\ effects' \in [RequestKeys \cup {HttpNoKey} -> Seq(Bodies(route'))]
         /\ \A k \in RequestKeys \cup {HttpNoKey} :
              IF k = httpReq[r].key
              THEN /\ Len(effects'[k]) = Len(effects[k]) + 1
                   /\ effects'[k][Len(effects[k]) + 1] = httpReq[r].body
                   /\ \A i \in 1 .. Len(effects[k]) : effects'[k][i] = effects[k][i]
              ELSE effects'[k] = effects[k]
<1> DEFINE B == Bodies(route)
<1>1. effects \in [RequestKeys \cup {HttpNoKey} -> Seq(B)] /\ httpReq[r].key \in RequestKeys \cup {HttpNoKey} /\ httpReq[r].body \in B
  BY Zenon DEF HttpTypes, HttpRequest
<1>2. Bodies(route') = B
  BY Zenon
<1>3. effects' = [effects EXCEPT ![httpReq[r].key] = Append(@, httpReq[r].body)]
  BY Zenon DEF Executed
<1> HIDE DEF B
<1> QED BY <1>1, <1>2, <1>3

LEMMA HttpCallKeeps ==
  ASSUME HttpKeys, HttpReliable, HttpInv, NEW r \in HttpRequests, HttpCall(r) PROVE HttpInv'
<1> USE DEF Pending, Inserted
<1>0. HttpTypes /\ HttpAlone /\ HttpRecords /\ HttpUnrecorded /\ HttpLogged
  BY Zenon DEF HttpInv
<1>1. httpReq[r].pc = "begun" /\ route.remote /\ UNCHANGED <<route, record>>
  BY Zenon DEF HttpCall
<1>2. "lost" \notin HttpFaults
  BY Zenon, <1>0, <1>1 DEF HttpReliable, HttpTypes
<1>3. CASE HttpAnswer(r, "refused", 0) /\ UNCHANGED effects
  BY Zenon, <1>1, <1>3, HttpQuiet DEF HttpPlaces
<1>4. CASE Executed(r) /\ HttpAnswer(r, "worked", Len(effects'[httpReq[r].key]))
  <2> DEFINE k == httpReq[r].key
  <2>1. /\ effects' \in [RequestKeys \cup {HttpNoKey} -> Seq(Bodies(route'))]
        /\ \A x \in RequestKeys \cup {HttpNoKey} :
              IF x = k
              THEN /\ Len(effects'[x]) = Len(effects[x]) + 1
                   /\ effects'[x][Len(effects[x]) + 1] = httpReq[r].body
                   /\ \A i \in 1 .. Len(effects[x]) : effects'[x][i] = effects[x][i]
              ELSE effects'[x] = effects[x]
    BY Zenon, <1>0, <1>1, <1>4, HttpExecuted
  <2>2. /\ k \in RequestKeys \cup {HttpNoKey} /\ DOMAIN record = RequestKeys
        /\ \A x \in RequestKeys \cup {HttpNoKey} : Len(effects[x]) \in Nat
        /\ \A q \in HttpRequests : httpReq[q].key \in RequestKeys \cup {HttpNoKey}
    BY <1>0 DEF HttpTypes, HttpRequest
  <2>3. PICK n \in Nat : n = Len(effects[k]) + 1 /\ HttpAnswer(r, "worked", n)
    BY <1>4, <2>1, <2>2
  <2>4. /\ httpReq' \in [HttpRequests -> HttpRequest(Bodies(route'))]
        /\ \A q \in HttpRequests :
             /\ httpReq'[q].key = httpReq[q].key /\ httpReq'[q].body = httpReq[q].body
             /\ q # r => httpReq'[q] = httpReq[q]
        /\ httpReq'[r].pc = "worked" /\ httpReq'[r].answer = Len(effects[k]) + 1
    BY Zenon, <1>0, <1>1, <2>3, HttpAnswerKeeps DEF HttpPlaces
  <2>5. k \in RequestKeys => record[k] = NoRecord /\ Len(effects[k]) = 0
    BY Zenon, <1>0, <1>1 DEF HttpRecords, HttpAlone, HttpUnrecorded
  <2>6. HttpTypes'
    BY Zenon, <1>0, <1>1, <2>1, <2>4 DEF HttpTypes
  <2>7. HttpAlone'
    BY <1>0, <1>1, <2>4 DEF HttpAlone
  <2>8. HttpRecords'
    BY <1>0, <1>1, <2>1, <2>4, <2>5 DEF HttpRecords
  <2>9. HttpUnrecorded'
    <3> SUFFICES ASSUME NEW x \in RequestKeys, record[x] = NoRecord
                 PROVE  IF \E q \in HttpRequests : httpReq'[q].key = x /\ httpReq'[q].pc = "worked" /\ route'.remote
                        THEN Len(effects'[x]) = 1 ELSE Len(effects'[x]) = 0
      BY Zenon, <1>1 DEF HttpUnrecorded
    <3>1. CASE x = k
      <4>0. Len(effects[x]) = 0 /\ Len(effects'[x]) = Len(effects[x]) + 1
        BY Zenon, <2>1, <2>5, <3>1
      <4>1. Len(effects'[x]) = 1
        BY <4>0
      <4>2. httpReq'[r].key = x /\ httpReq'[r].pc = "worked" /\ route'.remote
        BY Zenon, <1>1, <2>4, <3>1
      <4> QED BY Zenon, <4>1, <4>2
    <3>2. CASE x # k
      BY <1>0, <1>1, <2>1, <2>4, <3>2 DEF HttpUnrecorded
    <3> QED BY Zenon, <3>1, <3>2
  <2>10. HttpLogged'
    <3> SUFFICES ASSUME NEW q \in HttpRequests, httpReq'[q].pc \in {"ok", "worked"}
                 PROVE  /\ httpReq'[q].answer \in 1 .. Len(effects'[httpReq[q].key])
                        /\ (route.hashed = route.fields \/ httpReq'[q].pc = "worked")
                             => effects'[httpReq[q].key][httpReq'[q].answer] = httpReq[q].body
      BY Zenon, <1>1, <2>4 DEF HttpLogged
    <3>1. CASE q = r
      BY <2>1, <2>2, <2>4, <3>1
    <3>2. CASE q # r
      <4>1. /\ httpReq[q].answer \in 1 .. Len(effects[httpReq[q].key])
            /\ (route.hashed = route.fields \/ httpReq[q].pc = "worked")
                 => effects[httpReq[q].key][httpReq[q].answer] = httpReq[q].body
        BY Zenon, <1>0, <1>1, <2>4, <3>2 DEF HttpLogged
      <4> QED BY <2>1, <2>2, <2>4, <3>2, <4>1
    <3> QED BY Zenon, <3>1, <3>2
  <2> QED BY Zenon, <2>4, <2>6, <2>7, <2>8, <2>9, <2>10 DEF HttpInv
<1> QED BY Zenon, <1>2, <1>3, <1>4 DEF HttpCall

(* finish of a route of another service records what the log holds already. *)
LEMMA HttpFinishRemote ==
  ASSUME HttpKeys, HttpInv, NEW r \in HttpRequests, finish(r), route.remote PROVE HttpInv'
<1> USE DEF Pending, Inserted
<1> DEFINE k == httpReq[r].key
<1>0. HttpTypes /\ HttpAlone /\ HttpRecords /\ HttpUnrecorded /\ HttpLogged
  BY Zenon DEF HttpInv
<1>1. /\ httpReq[r].pc = "worked" /\ HttpAnswer(r, "ok", httpReq[r].answer) /\ UNCHANGED <<route, effects>>
      /\ k \in RequestKeys \cup {HttpNoKey} /\ httpReq[r].answer \in Nat
  BY Zenon, <1>0 DEF finish, HttpTypes, HttpRequest
<1>2. /\ httpReq' \in [HttpRequests -> HttpRequest(Bodies(route'))]
      /\ \A q \in HttpRequests :
           /\ httpReq'[q].key = httpReq[q].key /\ httpReq'[q].body = httpReq[q].body
           /\ q # r => httpReq'[q] = httpReq[q]
      /\ httpReq'[r].pc = "ok" /\ httpReq'[r].answer = httpReq[r].answer
  BY ZenonT(30), <1>0, <1>1, HttpAnswerKeeps DEF HttpPlaces
<1>3. /\ DOMAIN record' = RequestKeys
      /\ \A x \in RequestKeys : x # k => record'[x] = record[x]
      /\ k \in RequestKeys => record'[k] = [digest |-> digest(httpReq[r].body), status |-> "ok", answer |-> httpReq[r].answer]
  BY Zenon, <1>0, <1>1, <1>2 DEF finish, HttpTypes, HttpKeys
<1>4. /\ httpReq[r].answer \in 1 .. Len(effects[k])
      /\ effects[k][httpReq[r].answer] = httpReq[r].body
  BY Zenon, <1>0, <1>1 DEF HttpLogged
<1>5. k \in RequestKeys => /\ Len(effects[k]) = 1 /\ httpReq[r].answer = 1 /\ record'[k] # NoRecord
                           /\ record'[k].digest = HttpHash(route.hashed, effects[k][1])
                           /\ record'[k].status = "ok" /\ record'[k].answer = 1
  <2> SUFFICES ASSUME k \in RequestKeys
               PROVE  /\ Len(effects[k]) = 1 /\ httpReq[r].answer = 1 /\ record'[k] # NoRecord
                      /\ record'[k].digest = HttpHash(route.hashed, effects[k][1])
                      /\ record'[k].status = "ok" /\ record'[k].answer = 1
    BY Zenon
  <2>1. record[k] = NoRecord
    BY Zenon, <1>0, <1>1 DEF HttpRecords
  <2>2. Len(effects[k]) = 1
    BY Zenon, <1>0, <1>1, <2>1 DEF HttpUnrecorded
  <2>3. httpReq[r].answer = 1
    BY <1>4, <2>2
  <2>4. digest(httpReq[r].body) = HttpHash(route.hashed, httpReq[r].body)
    BY Zenon DEF HttpHash, digest
  <2> QED BY <1>3, <1>4, <2>2, <2>3, <2>4 DEF NoRecord
<1>6. HttpTypes'
  BY Zenon, <1>0, <1>1, <1>2, <1>3 DEF HttpTypes
<1>7. HttpAlone'
  BY <1>0, <1>1, <1>2 DEF HttpAlone
<1>8. HttpRecords'
  <2> SUFFICES ASSUME NEW x \in RequestKeys, record'[x] # NoRecord
               PROVE  /\ record'[x].status = "ok" /\ record'[x].answer = 1 /\ Len(effects[x]) = 1
                      /\ record'[x].digest = HttpHash(route.hashed, effects[x][1])
                      /\ \A q \in HttpRequests : httpReq'[q].key = x => httpReq'[q].pc \notin {"begun", "worked"}
    BY Zenon, <1>1 DEF HttpRecords
  <2>1. CASE x = k
    BY <1>0, <1>1, <1>2, <1>5, <2>1 DEF HttpAlone
  <2>2. CASE x # k
    BY <1>0, <1>2, <1>3, <2>2 DEF HttpRecords
  <2> QED BY Zenon, <2>1, <2>2
<1>9. HttpUnrecorded'
  <2> SUFFICES ASSUME NEW x \in RequestKeys, record'[x] = NoRecord
               PROVE  IF \E q \in HttpRequests : httpReq'[q].key = x /\ httpReq'[q].pc = "worked" /\ route'.remote
                      THEN Len(effects'[x]) = 1 ELSE Len(effects'[x]) = 0
    BY Zenon DEF HttpUnrecorded
  <2>1. x # k /\ record[x] = NoRecord
    BY Zenon, <1>3, <1>5
  <2> QED BY <1>0, <1>1, <1>2, <2>1 DEF HttpUnrecorded
<1>10. HttpLogged'
  BY <1>0, <1>1, <1>2, <1>4 DEF HttpLogged
<1> QED BY Zenon, <1>2, <1>6, <1>7, <1>8, <1>9, <1>10 DEF HttpInv

(* finish of a route of the platform's own makes effect and record one. *)
LEMMA HttpFinishLocal ==
  ASSUME HttpKeys, HttpInv, NEW r \in HttpRequests, finish(r), ~route.remote PROVE HttpInv'
<1> USE DEF Pending, Inserted
<1> DEFINE k == httpReq[r].key
<1>0. HttpTypes /\ HttpAlone /\ HttpRecords /\ HttpUnrecorded /\ HttpLogged
  BY Zenon DEF HttpInv
<1>1. /\ httpReq[r].pc = "worked" /\ Executed(r) /\ HttpAnswer(r, "ok", Len(effects'[k])) /\ UNCHANGED route
      /\ k \in RequestKeys \cup {HttpNoKey} /\ ~route'.remote
  BY Zenon, <1>0 DEF finish, HttpTypes, HttpRequest
<1>2. /\ effects' \in [RequestKeys \cup {HttpNoKey} -> Seq(Bodies(route'))]
      /\ \A x \in RequestKeys \cup {HttpNoKey} :
            IF x = k
            THEN /\ Len(effects'[x]) = Len(effects[x]) + 1
                 /\ effects'[x][Len(effects[x]) + 1] = httpReq[r].body
                 /\ \A i \in 1 .. Len(effects[x]) : effects'[x][i] = effects[x][i]
            ELSE effects'[x] = effects[x]
  BY Zenon, <1>0, <1>1, HttpExecuted
<1>3. /\ \A x \in RequestKeys \cup {HttpNoKey} : Len(effects[x]) \in Nat
      /\ \A q \in HttpRequests : httpReq[q].key \in RequestKeys \cup {HttpNoKey}
  BY <1>0 DEF HttpTypes, HttpRequest
<1>4. PICK n \in Nat : n = Len(effects[k]) + 1 /\ HttpAnswer(r, "ok", n)
  BY <1>1, <1>2, <1>3
<1>5. /\ httpReq' \in [HttpRequests -> HttpRequest(Bodies(route'))]
      /\ \A q \in HttpRequests :
           /\ httpReq'[q].key = httpReq[q].key /\ httpReq'[q].body = httpReq[q].body
           /\ q # r => httpReq'[q] = httpReq[q]
      /\ httpReq'[r].pc = "ok" /\ httpReq'[r].answer = n
  BY Zenon, <1>0, <1>1, <1>4, HttpAnswerKeeps DEF HttpPlaces
<1>6. /\ DOMAIN record' = RequestKeys
      /\ \A x \in RequestKeys : x # k => record'[x] = record[x]
      /\ k \in RequestKeys => record'[k] = [digest |-> digest(httpReq[r].body), status |-> "ok", answer |-> n]
  BY Zenon, <1>0, <1>1, <1>5 DEF finish, HttpTypes, HttpKeys
<1>7. k \in RequestKeys => /\ n = 1 /\ Len(effects'[k]) = 1 /\ record'[k] # NoRecord
                           /\ record'[k].digest = HttpHash(route.hashed, effects'[k][1])
                           /\ record'[k].status = "ok" /\ record'[k].answer = 1
  <2> SUFFICES ASSUME k \in RequestKeys
               PROVE  /\ n = 1 /\ Len(effects'[k]) = 1 /\ record'[k] # NoRecord
                      /\ record'[k].digest = HttpHash(route.hashed, effects'[k][1])
                      /\ record'[k].status = "ok" /\ record'[k].answer = 1
    BY Zenon
  <2>1. Len(effects[k]) = 0
    BY Zenon, <1>0, <1>1 DEF HttpRecords, HttpUnrecorded
  <2>2. n = 1
    BY <1>4, <2>1
  <2>3. Len(effects'[k]) = n /\ effects'[k][n] = httpReq[r].body
    BY Zenon, <1>2, <1>4
  <2>4. digest(httpReq[r].body) = HttpHash(route.hashed, httpReq[r].body)
    BY Zenon DEF HttpHash, digest
  <2> QED BY <1>6, <2>2, <2>3, <2>4 DEF NoRecord
<1>8. HttpTypes'
  BY Zenon, <1>0, <1>1, <1>2, <1>5, <1>6 DEF HttpTypes
<1>9. HttpAlone'
  BY <1>0, <1>1, <1>5 DEF HttpAlone
<1>10. HttpRecords'
  <2> SUFFICES ASSUME NEW x \in RequestKeys, record'[x] # NoRecord
               PROVE  /\ record'[x].status = "ok" /\ record'[x].answer = 1 /\ Len(effects'[x]) = 1
                      /\ record'[x].digest = HttpHash(route.hashed, effects'[x][1])
                      /\ \A q \in HttpRequests : httpReq'[q].key = x => httpReq'[q].pc \notin {"begun", "worked"}
    BY Zenon, <1>1 DEF HttpRecords
  <2>1. CASE x = k
    BY Zenon, <1>0, <1>1, <1>5, <1>7, <2>1 DEF HttpAlone
  <2>2. CASE x # k
    BY <1>0, <1>2, <1>5, <1>6, <2>2 DEF HttpRecords
  <2> QED BY Zenon, <2>1, <2>2
<1>11. HttpUnrecorded'
  <2> SUFFICES ASSUME NEW x \in RequestKeys, record'[x] = NoRecord PROVE Len(effects'[x]) = 0
    BY Zenon, <1>1 DEF HttpUnrecorded
  <2>1. x # k /\ record[x] = NoRecord
    BY Zenon, <1>6, <1>7
  <2> QED BY Zenon, <1>0, <1>1, <1>2, <2>1 DEF HttpUnrecorded
<1>12. HttpLogged'
  <2> SUFFICES ASSUME NEW q \in HttpRequests, httpReq'[q].pc = "ok"
               PROVE  /\ httpReq'[q].answer \in 1 .. Len(effects'[httpReq[q].key])
                      /\ route.hashed = route.fields => effects'[httpReq[q].key][httpReq'[q].answer] = httpReq[q].body
    BY Zenon, <1>1, <1>5 DEF HttpLogged
  <2>1. CASE q = r
    BY <1>2, <1>3, <1>4, <1>5, <2>1
  <2>2. CASE q # r
    <3>1. /\ httpReq[q].answer \in 1 .. Len(effects[httpReq[q].key])
          /\ route.hashed = route.fields => effects[httpReq[q].key][httpReq[q].answer] = httpReq[q].body
      BY Zenon, <1>0, <1>5, <2>2 DEF HttpLogged
    <3> QED BY <1>2, <1>3, <1>5, <2>2, <3>1
  <2> QED BY Zenon, <2>1, <2>2
<1> QED BY Zenon, <1>0, <1>5, <1>8, <1>9, <1>10, <1>11, <1>12 DEF HttpInv

LEMMA HttpCrashKeeps == ASSUME HttpReliable, HttpInv, HttpCrash PROVE HttpInv'
<1> USE DEF Pending, Inserted
<1>0. HttpTypes /\ HttpAlone /\ HttpRecords /\ HttpUnrecorded /\ HttpLogged
  BY Zenon DEF HttpInv
<1>1. UNCHANGED <<route, record, effects>> /\ ~route.remote /\ ~route'.remote
  BY Zenon, <1>0 DEF HttpCrash, HttpReliable, HttpTypes
<1>2. /\ httpReq' \in [HttpRequests -> HttpRequest(Bodies(route'))]
      /\ \A q \in HttpRequests :
           /\ httpReq'[q].key = httpReq[q].key /\ httpReq'[q].body = httpReq[q].body /\ httpReq'[q].answer = httpReq[q].answer
           /\ httpReq'[q].pc = IF Inserted(q) THEN "no answer" ELSE httpReq[q].pc
  BY ZenonT(30), <1>0, <1>1 DEF HttpCrash, HttpTypes, HttpRequest, HttpPlaces
<1>3. HttpTypes'
  BY Zenon, <1>0, <1>1, <1>2 DEF HttpTypes
<1>4. HttpAlone' /\ HttpRecords'
  BY Zenon, <1>0, <1>1, <1>2 DEF HttpAlone, HttpRecords
<1>5. HttpUnrecorded' /\ HttpLogged'
  BY Zenon, <1>0, <1>1, <1>2 DEF HttpUnrecorded, HttpLogged
<1> QED BY Zenon, <1>2, <1>3, <1>4, <1>5 DEF HttpInv

LEMMA HttpSteps ==
  ASSUME HttpKeys, HttpReliable, HttpInv, [HttpNext]_httpVars PROVE HttpInv'
<1>1. CASE HttpNext
  BY Zenon, <1>1, HttpBegin, HttpWorkKeeps, HttpCallKeeps, HttpFinishRemote, HttpFinishLocal, HttpCrashKeeps DEF HttpNext
<1>2. CASE UNCHANGED httpVars
  BY Zenon, <1>2 DEF httpVars, HttpInv, HttpTypes, HttpAlone, HttpRecords, HttpUnrecorded, HttpLogged,
             Pending, Inserted
<1> QED BY Zenon, <1>1, <1>2

(* The inductive invariant of requests under an Idempotency-Key. *)
THEOREM HttpInvariant == ASSUME HttpKeys, HttpReliable PROVE HttpSpec => []HttpInv
<1>1. HttpInit => HttpInv
  BY Zenon, HttpStarts
<1>2. HttpInv /\ [HttpNext]_httpVars => HttpInv'
  BY Zenon, HttpSteps
<1> QED BY <1>1, <1>2, PTL DEF HttpSpec

(* What is executed under a key is executed once, however often the request
   is repeated, at the same time or later, after an error or a crash: for any number
   of keys, requests and routes, as long as no call to another service is cut
   off from its commit. *)
THEOREM HttpDoneOnce == ASSUME HttpKeys, HttpReliable PROVE HttpSpec => []DoneOnce
<1>1. HttpInv => DoneOnce
  <2> SUFFICES ASSUME HttpInv, NEW k \in RequestKeys PROVE Len(effects[k]) <= 1
    BY Zenon DEF DoneOnce
  <2>1. Len(effects[k]) = 0 \/ Len(effects[k]) = 1
    BY Zenon DEF HttpInv, HttpRecords, HttpUnrecorded
  <2>2. \A n \in {0, 1} : n <= 1
    OBVIOUS
  <2> QED BY Zenon, <2>1, <2>2
<1> QED BY <1>1, HttpInvariant, PTL

(* Whoever is told that a request succeeded is told so of the request they
   made, in every field, on every route whose digest covers the whole body. *)
THEOREM HttpAnswerFits ==
  ASSUME HttpKeys, HttpReliable, HttpHashed PROVE HttpSpec => []AnswerFitsRequest
<1>1. HttpInv => AnswerFitsRequest
  BY Zenon DEF HttpInv, HttpTypes, HttpLogged, HttpHashed, AnswerFitsRequest
<1> QED BY <1>1, HttpInvariant, PTL

(* For the routes of the platform's own the effect and the record are one,
   whatever crashes: no key is left in progress or free after its effect. *)
THEOREM HttpRecordMeansDone ==
  ASSUME HttpKeys, \A n \in Named : ~Routes[n].remote PROVE HttpSpec => []RecordMeansDone
<1>1. HttpReliable
  BY Zenon DEF HttpReliable
<1>2. HttpInv => RecordMeansDone
  <2> SUFFICES ASSUME HttpInv PROVE RecordMeansDone
    BY Zenon
  <2>1. ~route.remote
    BY Zenon DEF HttpInv, HttpTypes
  <2>2. \A k \in RequestKeys : (record[k] # NoRecord) <=> (Len(effects[k]) > 0)
    BY <2>1 DEF HttpInv, HttpRecords, HttpUnrecorded
  <2> QED BY Zenon, <2>2 DEF HttpInv, RecordMeansDone
<1> QED BY <1>1, <1>2, HttpInvariant, PTL

-----------------------------------------------------------------------------
(* ChatSessions: the session's row, its lease and the replies.             *)

(* A gateway that answers, keeps the leases of enabled sessions, and a control
   API that does not die. *)
ChatCalm == ChatFaults \cap {"lost", "expire", "crash"} = {}

ChatHolds(t) == toggle[t].pc \in {"call", "commit"}
ChatSends(m) == send[m] \in {"retrieve", "commit"}

ChatTypes ==
  /\ DOMAIN session = {"enabled", "deleted"}
  /\ DOMAIN toggle = Toggles /\ DOMAIN send = Messages /\ DOMAIN reply = Messages
  /\ \A t \in Toggles : DOMAIN toggle[t] = {"op", "pc"} /\ toggle[t].op \in {"enable", "disable", "delete"}
  /\ \A m \in Messages : DOMAIN reply[m] = {"status", "by", "cited"}

(* The row lock: one request at a time is between its check and its commit. *)
ChatLock ==
  /\ \A t, u \in Toggles : ChatHolds(t) /\ ChatHolds(u) => t = u
  /\ \A m, n \in Messages : ChatSends(m) /\ ChatSends(n) => m = n
  /\ \A t \in Toggles, m \in Messages : ~(ChatHolds(t) /\ ChatSends(m))

(* What a message found when it took the lock is still so. *)
ChatStores ==
  \A m \in Messages :
    /\ ChatSends(m) => session.enabled /\ ~session.deleted
    /\ reply[m].status = "streaming" => ~ChatSends(m) /\ send[m] # "new"

ChatInv == ChatTypes /\ ChatLock /\ ChatStores /\ GroundedOrNotFound

(* With the lock, an enabled session lacks its lease only until the request
   that gave it back commits. *)
ChatLeased ==
  /\ session.enabled => lease \/ \E t \in Toggles : toggle[t].pc = "commit" /\ toggle[t].op # "enable"
  /\ \A t \in Toggles : toggle[t].pc = "commit" /\ toggle[t].op = "enable" => lease

LEMMA ChatStarts == ASSUME ChatInit PROVE ChatInv /\ ChatLeased
<1> USE DEF ChatInit
<1>1. \A t \in Toggles : toggle[t].pc = "new" /\ DOMAIN toggle[t] = {"op", "pc"} /\ toggle[t].op \in {"enable", "disable", "delete"}
  BY Zenon
<1>2. session.enabled = FALSE /\ \A m \in Messages : send[m] = "new" /\ reply[m] = NoReply
  BY Zenon
<1>3. ChatTypes
  BY Zenon, <1>1, <1>2 DEF ChatTypes, NoReply
<1>4. ChatLock /\ ChatStores /\ ChatLeased
  BY Zenon, <1>1, <1>2 DEF ChatLock, ChatHolds, ChatSends, ChatStores, ChatLeased, NoReply
<1>5. GroundedOrNotFound
  BY Zenon, <1>2 DEF GroundedOrNotFound, NoReply
<1> QED BY Zenon, <1>3, <1>4, <1>5 DEF ChatInv

(* The lock keeps the others away. *)
LEMMA ChatToggle ==
  ASSUME ChatInv, NEW t \in Toggles, owned(t) \/ gateway_call(t) \/ chat_finish(t)
  PROVE  ChatInv'
<1> USE DEF ChatHolds, ChatSends
<1>0. ChatTypes /\ ChatLock /\ ChatStores /\ GroundedOrNotFound
  BY Zenon DEF ChatInv
<1>1. PICK to : ChatStep(t, to)
  BY Zenon DEF owned, gateway_call, chat_finish
<1>2. /\ DOMAIN toggle' = Toggles /\ \A u \in Toggles : u # t => toggle'[u] = toggle[u]
      /\ DOMAIN toggle'[t] = {"op", "pc"} /\ toggle'[t].op = toggle[t].op /\ toggle'[t].pc = to
  BY Zenon, <1>0, <1>1 DEF ChatTypes, ChatStep
<1>3. UNCHANGED <<mode, send, reply>>
  BY Zenon DEF owned, gateway_call, chat_finish
<1>4. /\ ChatHolds(t) \/ Free
      /\ UNCHANGED session \/ (ChatHolds(t) /\ DOMAIN session' = DOMAIN session)
  BY Zenon, <1>0 DEF owned, gateway_call, chat_finish, ChatTypes
<1>5. ChatTypes'
  BY Zenon, <1>0, <1>2, <1>3, <1>4 DEF ChatTypes
<1>6. ChatLock'
  BY <1>0, <1>2, <1>3, <1>4 DEF ChatLock, Free
<1>7. ChatStores'
  BY Zenon, <1>0, <1>3, <1>4 DEF ChatStores, ChatLock
<1>8. GroundedOrNotFound'
  BY Zenon, <1>0, <1>3 DEF GroundedOrNotFound
<1> QED BY Zenon, <1>5, <1>6, <1>7, <1>8 DEF ChatInv

(* A step of one message leaves the others, and takes the lock only when it
   is free and the session enabled. *)
LEMMA ChatMessage ==
  ASSUME ChatInv, NEW m \in Messages, NEW to, ChatMove(m, to), UNCHANGED <<mode, session, toggle>>,
         to \in {"retrieve", "commit"} =>
           \/ ChatSends(m)
           \/ Free /\ session.enabled /\ ~session.deleted,
         DOMAIN reply' = Messages, \A n \in Messages : n # m => reply'[n] = reply[n],
         DOMAIN reply'[m] = {"status", "by", "cited"},
         reply'[m].status = "streaming" => to \notin {"retrieve", "commit", "new"},
         mode = "only_knowledge" /\ reply'[m].by = "model" => reply'[m].cited
  PROVE  ChatInv'
<1> USE DEF ChatHolds, ChatSends
<1>0. ChatTypes /\ ChatLock /\ ChatStores /\ GroundedOrNotFound
  BY Zenon DEF ChatInv
<1>1. DOMAIN send' = Messages /\ send'[m] = to /\ \A n \in Messages : n # m => send'[n] = send[n]
  BY Zenon, <1>0 DEF ChatTypes, ChatMove
<1>2. ChatTypes'
  BY Zenon, <1>0, <1>1 DEF ChatTypes
<1>3. ChatLock'
  BY Zenon, <1>0, <1>1 DEF ChatLock, Free
<1>4. ChatStores'
  BY Zenon, <1>0, <1>1 DEF ChatStores
<1>5. GroundedOrNotFound'
  BY Zenon, <1>0 DEF GroundedOrNotFound
<1> QED BY Zenon, <1>2, <1>3, <1>4, <1>5 DEF ChatInv

LEMMA ChatSendStep ==
  ASSUME ChatInv, NEW m \in Messages,
         \/ send_message(m) \/ retrieve(m) \/ commit(m) \/ stream(m)
         \/ answer_locally(m) \/ chat_stream(m) \/ Ended(m) \/ Stopped(m)
  PROVE  ChatInv'
<1> USE DEF ChatSends
<1>0. ChatTypes /\ ChatStores /\ GroundedOrNotFound
  BY Zenon DEF ChatInv
<1>1. /\ DOMAIN reply = Messages /\ DOMAIN reply[m] = {"status", "by", "cited"}
      /\ mode = "only_knowledge" /\ reply[m].by = "model" => reply[m].cited
  BY Zenon, <1>0 DEF ChatTypes, GroundedOrNotFound
<1>2. CASE send_message(m)
  <2>1. PICK to \in {"end", "commit", "retrieve"} : ChatMove(m, to) /\ (to = "end" \/ (session.enabled /\ ~session.deleted))
    BY Zenon, <1>2 DEF send_message
  <2>2. /\ send[m] = "new" /\ Free /\ UNCHANGED <<mode, session, toggle, reply>>
        /\ reply[m].status # "streaming"
    BY Zenon, <1>0, <1>2 DEF send_message, ChatStores
  <2> QED BY Zenon, <1>1, <2>1, <2>2, ChatMessage
<1>3. CASE retrieve(m)
  <2>1. send[m] = "retrieve" /\ UNCHANGED <<mode, session, toggle>> /\ reply[m].status # "streaming"
    BY Zenon, <1>0, <1>3 DEF retrieve, ChatStores
  <2>2. CASE UNCHANGED reply /\ ChatMove(m, "end")
    BY Zenon, <1>1, <2>1, <2>2, ChatMessage
  <2>3. ASSUME NEW found \in BOOLEAN, ChatMove(m, "commit"),
               reply' = [reply EXCEPT ![m].cited = found,
                           ![m].by = IF AnswerLocally(found) THEN "platform" ELSE "model"]
        PROVE  ChatInv'
    <3>1. /\ DOMAIN reply' = Messages /\ \A n \in Messages : n # m => reply'[n] = reply[n]
          /\ DOMAIN reply'[m] = {"status", "by", "cited"} /\ reply'[m].status = reply[m].status
          /\ reply'[m].cited = found
          /\ reply'[m].by = IF AnswerLocally(found) THEN "platform" ELSE "model"
      BY Zenon, <1>1, <2>3
    <3>2. mode = "only_knowledge" /\ reply'[m].by = "model" => reply'[m].cited
      BY Zenon, <3>1 DEF AnswerLocally
    <3> QED BY Zenon, <2>1, <2>3, <3>1, <3>2, ChatMessage
  <2> QED BY Zenon, <1>3, <2>2, <2>3 DEF retrieve
<1>4. CASE commit(m)
  <2>1. /\ ChatMove(m, "respond") /\ UNCHANGED <<mode, session, toggle>>
        /\ reply' = [reply EXCEPT ![m].status = "streaming", ![m].by = IF mode = "none" THEN "model" ELSE @]
    BY Zenon, <1>4 DEF commit
  <2>2. /\ DOMAIN reply' = Messages /\ \A n \in Messages : n # m => reply'[n] = reply[n]
        /\ DOMAIN reply'[m] = {"status", "by", "cited"} /\ reply'[m].cited = reply[m].cited
        /\ reply'[m].by = IF mode = "none" THEN "model" ELSE reply[m].by
    BY Zenon, <1>1, <2>1
  <2> QED BY Zenon, <1>1, <2>1, <2>2, ChatMessage
<1>5. CASE stream(m)
  <2>1. PICK to \in {"answer", "open", "end"} : ChatMove(m, to)
    BY Zenon, <1>5 DEF stream
  <2>2. UNCHANGED <<mode, session, toggle, reply>>
    BY Zenon, <1>5 DEF stream
  <2> QED BY Zenon, <1>1, <2>1, <2>2, ChatMessage
<1>6. CASE \E status \in {"complete", "failed", "stopped"} : _finish(m, status)
  <2>1. PICK status \in {"complete", "failed", "stopped"} : _finish(m, status)
    BY Zenon, <1>6
  <2>2. /\ ChatMove(m, "end") /\ UNCHANGED <<mode, session, toggle>>
        /\ reply' = [reply EXCEPT ![m].status = status]
    BY Zenon, <2>1 DEF _finish
  <2>3. /\ DOMAIN reply' = Messages /\ \A n \in Messages : n # m => reply'[n] = reply[n]
        /\ DOMAIN reply'[m] = {"status", "by", "cited"} /\ reply'[m].cited = reply[m].cited
        /\ reply'[m].by = reply[m].by
    BY Zenon, <1>1, <2>2
  <2> QED BY Zenon, <1>1, <2>2, <2>3, ChatMessage
<1>7. CASE ChatMove(m, "events") /\ UNCHANGED <<mode, session, toggle, reply>>
  BY Zenon, <1>1, <1>7, ChatMessage
<1> QED BY Zenon, <1>2, <1>3, <1>4, <1>5, <1>6, <1>7 DEF answer_locally, chat_stream, Ended,
                                                  Stopped

LEMMA ChatCrashKeeps == ASSUME ChatInv, ChatCrash PROVE ChatInv'
<1> USE DEF ChatHolds, ChatSends
<1>0. ChatTypes /\ ChatStores /\ GroundedOrNotFound
  BY Zenon DEF ChatInv
<1>1. UNCHANGED <<mode, session>>
  BY Zenon DEF ChatCrash
<1>2. /\ DOMAIN toggle' = Toggles
      /\ \A t \in Toggles : /\ DOMAIN toggle'[t] = {"op", "pc"} /\ toggle'[t].op = toggle[t].op
                            /\ toggle'[t].pc \in {"new", "end"}
  BY Zenon, <1>0 DEF ChatCrash, ChatTypes
<1>3. /\ DOMAIN send' = Messages
      /\ \A m \in Messages : send'[m] = IF send[m] = "new" THEN "new" ELSE "end"
  BY Zenon DEF ChatCrash
<1>4. /\ DOMAIN reply' = Messages
      /\ \A m \in Messages : reply'[m] = IF send[m] = "commit" THEN NoReply ELSE reply[m]
  BY Zenon DEF ChatCrash
<1>5. ChatTypes'
  BY Zenon, <1>0, <1>1, <1>2, <1>3, <1>4 DEF ChatTypes, NoReply
<1>6. ChatLock'
  BY Zenon, <1>2, <1>3 DEF ChatLock
<1>7. ChatStores'
  BY Zenon, <1>0, <1>3, <1>4 DEF ChatStores, NoReply
<1>8. GroundedOrNotFound'
  BY <1>0, <1>1, <1>4 DEF GroundedOrNotFound, NoReply
<1> QED BY Zenon, <1>5, <1>6, <1>7, <1>8 DEF ChatInv

LEMMA ChatSteps == ASSUME ChatInv, [ChatNext]_chatVars PROVE ChatInv'
<1>1. CASE UNCHANGED <<mode, session, toggle, send, reply>>
  BY Zenon, <1>1 DEF ChatInv, ChatTypes, ChatLock, ChatHolds, ChatSends, ChatStores, GroundedOrNotFound
<1> QED BY Zenon, <1>1, ChatToggle, ChatSendStep, ChatCrashKeeps DEF ChatNext, chatVars, Expire, Terminated

(* The inductive invariant of a chat session. *)
THEOREM ChatInvariant == ChatSpec => []ChatInv
<1>1. ChatInit => ChatInv
  BY Zenon, ChatStarts
<1>2. ChatInv /\ [ChatNext]_chatVars => ChatInv'
  BY Zenon, ChatSteps
<1> QED BY <1>1, <1>2, PTL DEF ChatSpec

(* The lease follows the row through the toggles' calls and commits. *)
LEMMA ChatLeaseToggle ==
  ASSUME ChatCalm, ChatInv, ChatLeased, NEW t \in Toggles, owned(t) \/ gateway_call(t) \/ chat_finish(t)
  PROVE  ChatLeased'
<1> USE DEF ChatHolds
<1>0. ChatTypes /\ ChatLock
  BY Zenon DEF ChatInv
<1>1. PICK to : ChatStep(t, to)
  BY Zenon DEF owned, gateway_call, chat_finish
<1>2. /\ DOMAIN toggle' = Toggles /\ \A u \in Toggles : u # t => toggle'[u] = toggle[u]
      /\ toggle'[t].op = toggle[t].op /\ toggle'[t].pc = to
  BY Zenon, <1>0, <1>1 DEF ChatTypes, ChatStep
<1>3. toggle[t].op \in {"enable", "disable", "delete"}
  BY Zenon, <1>0 DEF ChatTypes
<1>4. CASE owned(t)
  <2>1. UNCHANGED <<session, lease>> /\ Free
    BY Zenon, <1>4 DEF owned
  <2>2. session.enabled => lease
    BY Zenon, <2>1 DEF ChatLeased, Free
  <2>3. toggle'[t].pc = "commit" /\ toggle[t].op = "enable" => session.enabled
    BY Zenon, <1>0, <1>4, <1>3 DEF owned, ChatStep, Changes, ChatTypes
  <2>4. \A u \in Toggles : toggle[u].pc # "commit"
    BY Zenon, <2>1 DEF Free
  <2> QED BY Zenon, <1>2, <2>1, <2>2, <2>3, <2>4 DEF ChatLeased
<1>5. CASE gateway_call(t)
  <2>1. UNCHANGED session /\ toggle[t].pc = "call" /\ \A u \in Toggles : u # t => toggle[u].pc # "commit"
    BY Zenon, <1>0, <1>5 DEF gateway_call, ChatLock
  <2>2. session.enabled => lease
    BY Zenon, <2>1 DEF ChatLeased
  <2>3. CASE lease' = (toggle[t].op = "enable") /\ ChatStep(t, "commit")
    <3>1. toggle'[t].pc = "commit"
      BY Zenon, <1>0, <2>3 DEF ChatStep, ChatTypes
    <3>2. CASE toggle[t].op = "enable"
      BY Zenon, <1>2, <2>1, <2>3, <3>2 DEF ChatLeased
    <3>3. CASE toggle[t].op # "enable"
      BY Zenon, <1>2, <2>1, <3>1, <3>3 DEF ChatLeased
    <3> QED BY Zenon, <3>2, <3>3
  <2>4. CASE UNCHANGED lease /\ ChatStep(t, "end")
    <3>1. toggle'[t].pc = "end"
      BY Zenon, <1>0, <2>4 DEF ChatStep, ChatTypes
    <3> QED BY Zenon, <1>2, <2>1, <2>2, <2>4, <3>1 DEF ChatLeased
  <2> QED BY Zenon, <1>5, <2>3, <2>4 DEF gateway_call, ChatCalm
<1>6. CASE chat_finish(t)
  <2>1. /\ toggle[t].pc = "commit" /\ UNCHANGED lease /\ \A u \in Toggles : u # t => toggle[u].pc # "commit"
        /\ session'.enabled = (toggle[t].op = "enable")
    BY Zenon, <1>0, <1>6 DEF chat_finish, ChatLock, ChatTypes
  <2>2. toggle'[t].pc = "end"
    BY Zenon, <1>0, <1>6 DEF chat_finish, ChatStep, ChatTypes
  <2> QED BY Zenon, <1>2, <2>1, <2>2 DEF ChatLeased
<1> QED BY Zenon, <1>4, <1>5, <1>6

LEMMA ChatLeasedNext ==
  ASSUME ChatCalm, ChatInv, ChatLeased, [ChatNext]_chatVars
  PROVE  ChatLeased'
<1>1. CASE UNCHANGED <<session, toggle>> /\ (lease' = TRUE \/ UNCHANGED lease)
  BY <1>1 DEF ChatLeased
<1>2. ASSUME NEW m \in Messages,
             \/ send_message(m) \/ retrieve(m) \/ commit(m) \/ stream(m)
             \/ answer_locally(m) \/ chat_stream(m) \/ Ended(m) \/ Stopped(m)
      PROVE  UNCHANGED <<session, toggle>> /\ (lease' = TRUE \/ UNCHANGED lease)
  BY Zenon, <1>2 DEF send_message, retrieve, commit, stream, answer_locally,
              chat_stream,
              Ended, Stopped, _finish
<1> QED BY Zenon, <1>1, <1>2, ChatLeaseToggle DEF ChatNext, chatVars, ChatCalm, Expire, ChatCrash,
                                           Terminated

(* EnabledHasLease for every number of requests and messages: however the
   requests to enable, disable and delete interleave with each other and with
   streams, a session shown as enabled has its model leased, while the gateway
   answers, keeps the lease and the control API lives. *)
THEOREM ChatEnabledHasLease == ASSUME ChatCalm PROVE ChatSpec => []EnabledHasLease
<1>1. ChatInit => ChatInv /\ ChatLeased
  BY Zenon, ChatStarts
<1>2. ChatInv /\ ChatLeased /\ [ChatNext]_chatVars => ChatInv' /\ ChatLeased'
  BY Zenon, ChatSteps, ChatLeasedNext
<1>3. ChatLeased => EnabledHasLease
  BY Zenon DEF ChatLeased, EnabledHasLease, Free
<1> QED BY <1>1, <1>2, <1>3, PTL DEF ChatSpec

(* An answer of the model in a session that answers from the knowledge base
   alone cites what was retrieved, whatever fails. *)
THEOREM ChatGrounded == ChatSpec => []GroundedOrNotFound
<1>1. ChatInv => GroundedOrNotFound
  BY Zenon DEF ChatInv
<1> QED BY <1>1, ChatInvariant, PTL

(* Whatever fails, a message is stored in a session that is enabled and exists
   at that moment: what send_message checked before the retrieval still holds
   when it commits. *)
THEOREM ChatStored == ChatSpec => [][StoredWhileEnabled]_chatVars
<1>1. ASSUME ChatInv, [ChatNext]_chatVars
      PROVE  [StoredWhileEnabled]_chatVars
  <2> SUFFICES ASSUME NEW m \in Messages, reply[m].status = "none", reply'[m].status = "streaming"
               PROVE  session'.enabled /\ ~session'.deleted
    BY Zenon DEF StoredWhileEnabled
  <2>0. ChatTypes /\ ChatStores
    BY Zenon, <1>1 DEF ChatInv
  <2>1. DOMAIN reply = Messages /\ \A n \in Messages : DOMAIN reply[n] = {"status", "by", "cited"}
    BY Zenon, <2>0 DEF ChatTypes
  <2>2. CASE commit(m)
    BY Zenon, <2>0, <2>2 DEF commit, ChatStores, ChatSends
  <2>3. ASSUME NEW n \in Messages, n # m,
               \/ send_message(n) \/ retrieve(n) \/ commit(n) \/ stream(n)
               \/ answer_locally(n) \/ chat_stream(n) \/ Ended(n) \/ Stopped(n)
        PROVE  reply'[m] = reply[m]
    BY Zenon, <2>1, <2>3 DEF send_message, retrieve, commit, stream, answer_locally,
                      chat_stream, Ended, Stopped, _finish
  <2>4. ASSUME \/ send_message(m) \/ retrieve(m) \/ stream(m)
               \/ answer_locally(m) \/ chat_stream(m) \/ Ended(m) \/ Stopped(m)
        PROVE  reply'[m].status # "streaming"
    <3>1. CASE UNCHANGED reply
      BY Zenon, <3>1
    <3>2. CASE \E status \in {"complete", "failed", "stopped"} : _finish(m, status)
      <4>1. PICK status \in {"complete", "failed", "stopped"} : _finish(m, status)
        BY Zenon, <3>2
      <4>2. reply'[m].status = status
        BY Zenon, <2>1, <4>1 DEF _finish
      <4> QED BY Zenon, <4>1, <4>2
    <3>3. CASE retrieve(m)
      <4>1. UNCHANGED reply \/ \E found \in BOOLEAN :
              reply' = [reply EXCEPT ![m].cited = found,
                          ![m].by = IF AnswerLocally(found) THEN "platform" ELSE "model"]
        BY Zenon, <3>3 DEF retrieve
      <4>2. reply'[m].status = reply[m].status
        BY Zenon, <2>1, <4>1
      <4> QED BY Zenon, <4>2
    <3> QED BY Zenon, <2>4, <3>1, <3>2, <3>3
          DEF send_message, stream, answer_locally, chat_stream, Ended, Stopped
  <2>5. CASE UNCHANGED reply
    BY Zenon, <2>5
  <2>6. CASE ChatCrash
    BY Zenon, <2>6 DEF ChatCrash, NoReply
  <2> QED BY Zenon, <1>1, <2>2, <2>3, <2>4, <2>5, <2>6
        DEF ChatNext, chatVars, owned, gateway_call, chat_finish, Expire, Terminated
<1> QED BY <1>1, ChatInvariant, PTL DEF ChatSpec

-----------------------------------------------------------------------------
(* Installations: a run has the permissions that were approved.            *)

(* A run is committed long after the installation was read, but what was read stays true: versions
   are immutable. *)

InstallPermissions == Perms \cup {"none"}
InstallRow == [live: BOOLEAN, version: Versions \cup {0}, approved: InstallPermissions, needs: BOOLEAN,
               enabled: BOOLEAN, edits: Nat]
InstallRunRow == [version: Versions \cup {0}, perms: InstallPermissions, state: {"QUEUED", "RUNNING", "FAILED", "SUCCEEDED"}]

InstallTyped ==
  /\ catalog \in [Versions -> InstallPermissions]
  /\ imp \in [Importers -> [pc: {"idle", "insert"}, version: Versions \cup {0}, perms: InstallPermissions]]
  /\ \A i \in Importers : imp[i].pc = "insert" => imp[i].version \in Versions
  /\ inst \in InstallRow /\ installRuns \in Seq(InstallRunRow)
  /\ installReq \in [InstallRequests -> [pc: {"idle", "commit"}, kind: {"none", "run", "retry", "schedule"},
                           version: Versions \cup {0}, perms: InstallPermissions]]

(* The permissions p are those of the stored version v. *)
InstallRequested(v, p) == v \in Versions /\ catalog[v] # "none" /\ p = catalog[v]

InstallApproved ==
  /\ inst.live => inst.version \in Versions /\ catalog[inst.version] # "none"
  /\ inst.live /\ ~inst.needs => InstallRequested(inst.version, inst.approved)
  /\ \A r \in InstallRequests : installReq[r].pc = "commit" /\ installReq[r].kind = "run" => InstallRequested(installReq[r].version, installReq[r].perms)
  /\ \A i \in DOMAIN installRuns : InstallRequested(installRuns[i].version, installRuns[i].perms)

InstallInv == InstallTyped /\ InstallApproved

LEMMA InstallStarts == InstallInit => InstallInv
  BY DEF InstallInit, InstallInv, InstallTyped, InstallApproved, NoRow, NoImport,
         NoRequest, InstallRow, InstallPermissions

LEMMA InstallCatalogKeeps ==
  ASSUME InstallInv, NEW i \in Importers, upsert_manifest(i) \/ InsertVersion(i)
  PROVE  InstallInv' /\ VersionsImmutable
<1>1. CASE upsert_manifest(i)
  BY <1>1 DEF upsert_manifest, InstallInv, InstallTyped, InstallApproved, InstallRequested,
              InstallPermissions, VersionsImmutable
<1>2. CASE InsertVersion(i)
  <2>1. imp[i].version \in Versions /\ imp[i].perms \in InstallPermissions /\ UNCHANGED <<inst, installRuns, installReq>>
    BY Zenon, <1>2 DEF InsertVersion, InstallInv, InstallTyped
  <2>2. VersionsImmutable
    BY Zenon, <1>2, <2>1 DEF InsertVersion, InstallInv, InstallTyped, VersionsImmutable
  <2>3. InstallTyped'
    BY Zenon, <1>2, <2>1 DEF InsertVersion, NoImport, InstallInv, InstallTyped,
                      InstallPermissions
  <2>4. \A v, p : InstallRequested(v, p) => InstallRequested(v, p)'
    BY Zenon, <2>2 DEF VersionsImmutable, InstallRequested
  <2>5. InstallApproved'
    BY Zenon, <2>1, <2>2, <2>4 DEF InstallInv, InstallApproved, VersionsImmutable
  <2> QED
    BY Zenon, <2>2, <2>3, <2>5 DEF InstallInv
<1> QED
  BY Zenon, <1>1, <1>2

(* An edit of the installation that leaves it approved or in need of approval. *)
LEMMA InstallEditKeeps ==
  ASSUME InstallInv, inst' \in InstallRow, UNCHANGED <<catalog, imp, installRuns, installReq>>,
         inst'.live => inst'.version \in Versions /\ catalog[inst'.version] # "none",
         inst'.live /\ ~inst'.needs => inst'.approved = catalog[inst'.version]
  PROVE  InstallInv'
  BY Zenon DEF InstallInv, InstallTyped, InstallApproved, InstallRequested

LEMMA InstallOwnerKeeps ==
  ASSUME InstallInv, create_installation \/ update_version \/ update_approval \/ update_enabled \/ delete_installation
  PROVE  InstallInv'
<1>0. inst \in InstallRow /\ catalog \in [Versions -> InstallPermissions]
  BY Zenon DEF InstallInv, InstallTyped
<1>1. CASE create_installation
  BY <1>1, <1>0, InstallEditKeeps DEF create_installation, InstallRow
<1>2. CASE update_version
  <2>1. PICK v \in Versions : /\ catalog[v] # "none" /\ inst.live /\ UNCHANGED <<catalog, imp, installRuns, installReq>>
          /\ inst' = [live |-> inst.live, version |-> v, approved |-> inst.approved,
                      needs |-> inst.needs \/ inst.approved # catalog[v],
                      enabled |-> inst.enabled, edits |-> inst.edits + 1]
    BY Zenon, <1>0, <1>2 DEF update_version, Edited, InstallRow
  <2> QED
    BY <1>0, <2>1, InstallEditKeeps DEF InstallRow
<1>3. CASE update_approval
  <2>1. /\ inst.live /\ UNCHANGED <<catalog, imp, installRuns, installReq>> /\ inst.version \in Versions
        /\ catalog[inst.version] # "none"
        /\ inst' = [live |-> TRUE, version |-> inst.version, approved |-> catalog[inst.version],
                    needs |-> FALSE, enabled |-> inst.enabled, edits |-> inst.edits + 1]
    BY Zenon, <1>0, <1>3 DEF update_approval, Edited, InstallRow, InstallInv, InstallApproved
  <2> QED
    BY <1>0, <2>1, InstallEditKeeps DEF InstallRow
<1>4. CASE update_enabled
  <2>1. PICK on \in BOOLEAN : /\ inst.live /\ UNCHANGED <<catalog, imp, installRuns, installReq>>
          /\ inst' = [live |-> inst.live, version |-> inst.version, approved |-> inst.approved,
                      needs |-> inst.needs, enabled |-> on, edits |-> inst.edits + 1]
    BY Zenon, <1>0, <1>4 DEF update_enabled, Edited, InstallRow
  <2>2. /\ inst.version \in Versions /\ catalog[inst.version] # "none"
        /\ ~inst.needs => inst.approved = catalog[inst.version]
    BY Zenon, <2>1 DEF InstallInv, InstallApproved, InstallRequested
  <2> QED
    BY <1>0, <2>1, <2>2, InstallEditKeeps DEF InstallRow
<1>5. CASE delete_installation
  BY ZenonT(30), <1>5, <1>0, InstallEditKeeps DEF delete_installation, InstallRow
<1> QED
  BY Zenon, <1>1, <1>2, <1>3, <1>4, <1>5

(* A new run that carries a stored version's permissions. *)
LEMMA InstallNewRunKeeps ==
  ASSUME InstallInv, NEW v, NEW p, InstallRequested(v, p), installRuns' = NewRun(v, p), UNCHANGED <<catalog, imp, inst>>,
         installReq' \in [InstallRequests -> [pc: {"idle", "commit"}, kind: {"none", "run", "retry", "schedule"},
                                version: Versions \cup {0}, perms: InstallPermissions]],
         \A r \in InstallRequests : installReq'[r] = installReq[r] \/ installReq'[r].pc = "idle"
  PROVE  InstallInv'
<1>1. p \in InstallPermissions /\ v \in Versions
  BY Zenon DEF InstallRequested, InstallInv, InstallTyped
<1>2. installRuns' \in Seq(InstallRunRow) /\ \A i \in DOMAIN installRuns' : InstallRequested(installRuns'[i].version, installRuns'[i].perms)
  BY <1>1 DEF NewRun, InstallInv, InstallTyped, InstallApproved, InstallRunRow
<1> QED
  BY <1>1, <1>2 DEF InstallInv, InstallTyped, InstallApproved, InstallRequested

(* A run that moves keeps its version and permissions. *)
LEMMA InstallMovedRunKeeps ==
  ASSUME InstallInv, NEW i \in DOMAIN installRuns, NEW s \in {"QUEUED", "FAILED", "SUCCEEDED"},
         installRuns' = [installRuns EXCEPT ![i].state = s]
  PROVE  installRuns' \in Seq(InstallRunRow) /\ \A j \in DOMAIN installRuns' : InstallRequested(installRuns'[j].version, installRuns'[j].perms)
<1>1. \A j \in DOMAIN installRuns : installRuns[j] \in InstallRunRow
  BY DEF InstallInv, InstallTyped
<1>2. /\ DOMAIN installRuns' = DOMAIN installRuns
      /\ \A j \in DOMAIN installRuns : installRuns'[j] \in InstallRunRow /\ installRuns'[j].version = installRuns[j].version
                                                   /\ installRuns'[j].perms = installRuns[j].perms
  BY Zenon, <1>1 DEF InstallRunRow
<1>3. installRuns' \in Seq(InstallRunRow)
  BY <1>2 DEF InstallInv, InstallTyped
<1> QED
  BY Zenon, <1>2, <1>3 DEF InstallInv, InstallApproved

LEMMA InstallRequestKeeps ==
  ASSUME InstallInv, NEW r \in InstallRequests, ReadInstallation(r) \/ CommitRun(r) \/ CommitRetry(r) \/ CommitSchedule(r)
  PROVE  InstallInv'
<1>1. CASE ReadInstallation(r)
  <2>1. PICK kind \in {"run", "retry", "schedule"} :
          /\ kind = "schedule" \/ Readiness
          /\ installReq' = [installReq EXCEPT ![r] = [pc |-> "commit", kind |-> kind, version |-> inst.version,
                                                     perms |-> inst.approved]]
    BY Zenon, <1>1 DEF ReadInstallation
  <2>2. inst.version \in Versions \cup {0} /\ inst.approved \in InstallPermissions /\ inst.live
    BY Zenon, <1>1 DEF ReadInstallation, InstallInv, InstallTyped, InstallRow
  <2>3. /\ installReq' \in [InstallRequests -> [pc: {"idle", "commit"}, kind: {"none", "run", "retry", "schedule"},
                                              version: Versions \cup {0}, perms: InstallPermissions]]
        /\ installReq'[r].kind = kind /\ installReq'[r].version = inst.version /\ installReq'[r].perms = inst.approved
        /\ \A q \in InstallRequests : q # r => installReq'[q] = installReq[q]
    BY Zenon, <2>1, <2>2 DEF InstallInv, InstallTyped
  <2>4. kind = "run" => InstallRequested(inst.version, inst.approved)
    BY Zenon, <2>1, <2>2 DEF Readiness, InstallInv, InstallApproved
  <2>5. UNCHANGED <<catalog, imp, inst, installRuns>>
    BY Zenon, <1>1 DEF ReadInstallation
  <2>6. InstallTyped'
    BY Zenon, <2>3, <2>5 DEF InstallInv, InstallTyped
  <2>7. ASSUME NEW q \in InstallRequests, installReq'[q].pc = "commit", installReq'[q].kind = "run"
        PROVE  InstallRequested(installReq'[q].version, installReq'[q].perms)
    BY Zenon, <2>3, <2>4, <2>7 DEF InstallInv, InstallApproved
  <2> QED BY Zenon, <2>5, <2>6, <2>7 DEF InstallInv, InstallApproved, InstallRequested
<1>2. CASE CommitRun(r)
  BY Zenon, <1>2, InstallNewRunKeeps DEF CommitRun, NoRequest, InstallInv, InstallTyped,
                                  InstallApproved,
                                  InstallPermissions
<1>3. CASE CommitRetry(r)
  <2>1. installRuns' \in Seq(InstallRunRow) /\ \A j \in DOMAIN installRuns' : InstallRequested(installRuns'[j].version, installRuns'[j].perms)
    BY Zenon, <1>3, InstallMovedRunKeeps DEF CommitRetry, InstallInv, InstallTyped, InstallApproved
  <2> QED
    BY Zenon, <1>3, <2>1 DEF CommitRetry, NoRequest, InstallInv, InstallTyped, InstallApproved,
                      InstallRequested, InstallPermissions
<1>4. CASE CommitSchedule(r)
  BY Zenon, <1>4 DEF CommitSchedule, NoRequest, InstallInv, InstallTyped, InstallApproved,
              InstallRequested, InstallPermissions
<1> QED
  BY Zenon, <1>1, <1>2, <1>3, <1>4

LEMMA InstallSteps == InstallInv /\ [InstallNext]_installVars => InstallInv' /\ VersionsImmutable
<1> SUFFICES ASSUME InstallInv, [InstallNext]_installVars PROVE InstallInv' /\ VersionsImmutable
  BY Zenon
<1>1. CASE UNCHANGED installVars
  BY Zenon, <1>1 DEF installVars, InstallInv, InstallTyped, InstallApproved, InstallRequested,
              VersionsImmutable
<1>2. CASE \E i \in Importers : upsert_manifest(i) \/ InsertVersion(i)
  BY Zenon, <1>2, InstallCatalogKeeps
<1>3. CASE create_installation \/ update_version \/ update_approval \/ update_enabled \/ delete_installation
  BY Zenon, <1>3, InstallOwnerKeeps DEF VersionsImmutable, create_installation,
                                 update_version,
                                 update_approval,
       update_enabled, delete_installation, Edited
<1>4. CASE _fire
  BY Zenon, <1>4, InstallNewRunKeeps DEF _fire, InstallInv, InstallTyped, InstallApproved,
                                  VersionsImmutable
<1>5. CASE InstallRunEnds
  <2>1. installRuns' \in Seq(InstallRunRow) /\ \A j \in DOMAIN installRuns' : InstallRequested(installRuns'[j].version, installRuns'[j].perms)
    BY ZenonT(30), <1>5, InstallMovedRunKeeps DEF InstallRunEnds, ActiveRuns
  <2> QED
    BY Zenon, <1>5, <2>1 DEF InstallRunEnds, InstallInv, InstallTyped, InstallApproved, InstallRequested,
                      VersionsImmutable
<1>6. CASE Unready
  BY Zenon, <1>6 DEF Unready, InstallInv, InstallTyped, InstallApproved, InstallRequested,
              VersionsImmutable
<1>7. CASE \E r \in InstallRequests : ReadInstallation(r) \/ CommitRun(r) \/ CommitRetry(r) \/ CommitSchedule(r)
  BY Zenon, <1>7, InstallRequestKeeps DEF ReadInstallation, CommitRun, CommitRetry,
                                   CommitSchedule, VersionsImmutable
<1> QED
  BY Zenon, <1>1, <1>2, <1>3, <1>4, <1>5, <1>6, <1>7 DEF InstallNext

(* Every run carries the permissions that its version requests and the owner approved, although
   readiness is checked in another transaction than the one that inserts the run. *)
THEOREM PermissionsAreApproved == InstallSpec => []RunsAsApproved
<1>1. InstallInv => RunsAsApproved
  BY Zenon DEF InstallInv, InstallApproved, InstallRequested, RunsAsApproved
<1> QED
  BY <1>1, InstallStarts, InstallSteps, PTL DEF InstallSpec

(* No step changes a stored version: the unique constraint settles imports that race. *)
THEOREM VersionsStay == InstallSpec => [][VersionsImmutable]_installVars
  BY InstallStarts, InstallSteps, PTL DEF InstallSpec

-----------------------------------------------------------------------------
(* Chaining: agents that start agents.                                     *)

ChainParameters == MaxDepth \in Nat /\ StartsPerRun \in Nat

(* Numbers and the sizes of sets of runs.  The proofs in this module take this as
   given; ChainCounts in PlatformProofs shows it. *)
ChainSizes ==
  /\ \A T \in SUBSET Nat : T # {} => \E x \in T : \A y \in T : x <= y
  /\ \A n \in Nat : \A S \in SUBSET (1..n) :
       /\ Cardinality(S) \in Nat
       /\ \A x \in Nat \ S : Cardinality(S \cup {x}) = Cardinality(S) + 1
  /\ Cardinality({}) = 0 /\ \A x \in Nat : Cardinality({x}) = 1

ChainGiven == ChainParameters /\ ChainSizes

ChainRun == [agent : Agents, parent : Nat, key : StartKeys \cup {"none"}, attempt : Nat,
             state : {"QUEUED", "RUNNING", "FAILED", "CANCELLED"}]

(* Rows that name earlier rows as the runs that started them. *)
ChainRows(rs) == rs \in Seq(ChainRun) /\ \A q \in 1..Len(rs) : rs[q].parent < q

ChainUp(rs) ==
  LET up[q \in DOMAIN rs] == IF rs[q].parent = 0 THEN {q} ELSE {q} \cup up[rs[q].parent]
  IN up

(* A start key of a run names one run, and the answers given are these runs. *)
ChainKeys ==
  /\ \A p, q \in DOMAIN runs : runs[p].parent # 0 /\ runs[p].parent = runs[q].parent /\ runs[p].key = runs[q].key => p = q
  /\ \A x \in told : /\ x[4] \in DOMAIN runs /\ x[1] # 0 /\ runs[x[4]].parent = x[1]
                     /\ runs[x[4]].agent = x[2] /\ runs[x[4]].key = x[3]

ChainCalls == \A c \in wire : c.run \in DOMAIN runs /\ c.agent \in Agents /\ c.key \in StartKeys

ChainInv ==
  /\ ChainRows(runs) /\ ChainKeys /\ ChainCalls
  /\ NoAgentTwice /\ DepthBounded /\ StartsBounded

(* The walk from a run to the one no agent started is well defined, since a
   run is started by an earlier one: there is no least run without a walk. *)
LEMMA ChainWalk ==
  ASSUME ChainGiven, NEW rs, ChainRows(rs)
  PROVE  \A q \in DOMAIN rs : ChainUp(rs)[q] = IF rs[q].parent = 0 THEN {q} ELSE {q} \cup ChainUp(rs)[rs[q].parent]
<1> DEFINE N == Len(rs)
           Body(f, q) == IF rs[q].parent = 0 THEN {q} ELSE {q} \cup f[rs[q].parent]
           Ok(n, f) == f = [q \in 1..n |-> Body(f, q)]
           Bad == {n \in 0..N : ~\E f : Ok(n, f)}
<1>0. N \in Nat /\ DOMAIN rs = 1..N /\ \A q \in 1..N : rs[q].parent \in Nat /\ rs[q].parent < q
  <2>1. N \in Nat /\ DOMAIN rs = 1..N /\ \A q \in 1..N : rs[q] \in ChainRun /\ rs[q].parent < q
    BY DEF ChainRows
  <2> QED BY Zenon, <2>1 DEF ChainRun
<1> HIDE DEF N
<1>1. Bad = {}
  <2> SUFFICES ASSUME Bad # {} PROVE FALSE
    BY Zenon
  <2>0. Bad \subseteq 0..N /\ Bad \subseteq Nat
    BY <1>0
  <2>1. PICK n \in Bad : \A m \in Bad : n <= m
    <3> HIDE DEF Bad
    <3> QED BY Zenon, <2>0 DEF ChainGiven, ChainSizes
  <2>2. n # 0
    <3>1. Ok(0, [q \in 1..0 |-> {}])
      BY <1>0
    <3> QED BY Zenon, <2>1, <3>1
  <2>3. n \in 1..N /\ n - 1 \in 0..N /\ n - 1 \notin Bad
    <3> HIDE DEF Bad
    <3>1. n \in 0..N
      BY Zenon, <2>0, <2>1
    <3>2. n \in 1..N /\ n - 1 \in 0..N /\ ~(n <= n - 1)
      BY <1>0, <2>2, <3>1
    <3> QED BY Zenon, <2>1, <3>2
  <2>4. PICK f : Ok(n - 1, f)
    BY Zenon, <2>3
  <2> DEFINE g == [q \in 1..n |-> IF q = n THEN Body(f, n) ELSE f[q]]
  <2>5. \A q \in 1..n : g[q] = Body(g, q)
    <3> SUFFICES ASSUME NEW q \in 1..n PROVE g[q] = Body(g, q)
      BY Zenon
    <3>1. rs[q].parent \in Nat /\ rs[q].parent < q
      BY <1>0, <2>3
    <3>2. rs[q].parent # 0 => rs[q].parent \in 1..n /\ g[rs[q].parent] = f[rs[q].parent]
      BY <2>3, <3>1
    <3>3. q # n => f[q] = Body(f, q)
      <4> SUFFICES ASSUME q # n PROVE f[q] = Body(f, q)
        BY Zenon
      <4>1. q \in 1..(n - 1)
        BY <2>3
      <4>2. f = [x \in 1..(n - 1) |-> Body(f, x)]
        BY Zenon, <2>4
      <4> QED BY Zenon, <4>1, <4>2
    <3> QED BY Zenon, <3>2, <3>3
  <2>6. Ok(n, g)
    BY Zenon, <2>5
  <2> QED BY Zenon, <2>1, <2>6
<1>2. PICK f : Ok(N, f)
  <2>1. N \in 0..N
    BY <1>0
  <2> QED BY Zenon, <1>1, <2>1
<1>3. ChainUp(rs) = [q \in DOMAIN rs |-> Body(ChainUp(rs), q)]
  BY ZenonT(30), <1>0, <1>2 DEF ChainUp
<1> QED BY Zenon, <1>3

(* A walk leads to earlier runs only. *)
LEMMA ChainBelow ==
  ASSUME ChainGiven, NEW rs, ChainRows(rs), NEW r \in DOMAIN rs
  PROVE  ChainUp(rs)[r] \subseteq 1..r
<1> DEFINE Bad == {q \in DOMAIN rs : ~(ChainUp(rs)[q] \subseteq 1..q)}
<1>0. Len(rs) \in Nat /\ DOMAIN rs = 1..Len(rs) /\ \A q \in DOMAIN rs : rs[q].parent \in Nat /\ rs[q].parent < q
  <2>1. Len(rs) \in Nat /\ DOMAIN rs = 1..Len(rs) /\ \A q \in DOMAIN rs : rs[q] \in ChainRun /\ rs[q].parent < q
    BY DEF ChainRows
  <2> QED BY Zenon, <2>1 DEF ChainRun
<1>1. Bad = {}
  <2> SUFFICES ASSUME Bad # {} PROVE FALSE
    BY Zenon
  <2>1. Bad \subseteq Nat
    BY <1>0
  <2>2. PICK n \in Bad : \A m \in Bad : n <= m
    <3> HIDE DEF Bad
    <3> QED BY Zenon, <2>1 DEF ChainGiven, ChainSizes
  <2>3. n \in DOMAIN rs /\ n \in Nat /\ n >= 1
    BY <1>0, <2>2
  <2>w. ChainUp(rs)[n] = IF rs[n].parent = 0 THEN {n} ELSE {n} \cup ChainUp(rs)[rs[n].parent]
    BY Zenon, <2>3, ChainWalk
  <2>4. rs[n].parent # 0 => rs[n].parent \in DOMAIN rs /\ rs[n].parent \notin Bad
    <3>1. rs[n].parent # 0 => rs[n].parent \in DOMAIN rs /\ ~(n <= rs[n].parent)
      BY <1>0, <2>3
    <3> HIDE DEF Bad
    <3> QED BY Zenon, <2>2, <3>1
  <2>5. rs[n].parent # 0 => ChainUp(rs)[rs[n].parent] \subseteq 1..rs[n].parent
    BY Zenon, <2>4
  <2>6. ChainUp(rs)[n] \subseteq 1..n
    BY <1>0, <2>3, <2>w, <2>5
  <2> QED BY Zenon, <2>2, <2>6
<1> QED BY Zenon, <1>1

(* Rows that are added leave the walks of the others as they were. *)
LEMMA ChainSame ==
  ASSUME ChainGiven, NEW rs, NEW ss, ChainRows(rs), ChainRows(ss), DOMAIN rs \subseteq DOMAIN ss,
         \A q \in DOMAIN rs : ss[q].parent = rs[q].parent
  PROVE  \A q \in DOMAIN rs : ChainUp(ss)[q] = ChainUp(rs)[q]
<1> DEFINE Bad == {q \in DOMAIN rs : ChainUp(ss)[q] # ChainUp(rs)[q]}
<1>0. Len(rs) \in Nat /\ DOMAIN rs = 1..Len(rs) /\ \A q \in DOMAIN rs : rs[q].parent \in Nat /\ rs[q].parent < q
  <2>1. Len(rs) \in Nat /\ DOMAIN rs = 1..Len(rs) /\ \A q \in DOMAIN rs : rs[q] \in ChainRun /\ rs[q].parent < q
    BY DEF ChainRows
  <2> QED BY Zenon, <2>1 DEF ChainRun
<1>1. SUFFICES ASSUME Bad # {} PROVE FALSE
  BY Zenon
<1>2. Bad \subseteq Nat
  BY <1>0
<1>3. PICK n \in Bad : \A m \in Bad : n <= m
  <2> HIDE DEF Bad
  <2> QED BY Zenon, <1>1, <1>2 DEF ChainGiven, ChainSizes
<1>4. n \in DOMAIN rs /\ n \in DOMAIN ss /\ n \in Nat
  BY Zenon, <1>2, <1>3
<1>5. ChainUp(rs)[n] = IF rs[n].parent = 0 THEN {n} ELSE {n} \cup ChainUp(rs)[rs[n].parent]
  BY Zenon, <1>4, ChainWalk
<1>6. ChainUp(ss)[n] = IF ss[n].parent = 0 THEN {n} ELSE {n} \cup ChainUp(ss)[ss[n].parent]
  BY Zenon, <1>4, ChainWalk
<1>7. rs[n].parent # 0 => rs[n].parent \in DOMAIN rs /\ ~(n <= rs[n].parent)
  BY <1>0, <1>4
<1>8. rs[n].parent # 0 => ChainUp(ss)[rs[n].parent] = ChainUp(rs)[rs[n].parent]
  BY Zenon, <1>3, <1>7
<1> QED BY Zenon, <1>3, <1>4, <1>5, <1>6, <1>8

LEMMA ChainIs ==
  ASSUME NEW r PROVE Chain(r) = ChainUp(runs)[r] /\ Chain(r)' = ChainUp(runs')[r]
BY Zenon DEF Chain, Ids, ChainNone, ChainUp

(* A step that leaves agents, parents and keys of the runs alone. *)
LEMMA ChainKeeps ==
  ASSUME ChainGiven, ChainInv, ChainRows(runs'), DOMAIN runs' = DOMAIN runs,
         \A q \in DOMAIN runs : /\ runs'[q].agent = runs[q].agent /\ runs'[q].parent = runs[q].parent
                                /\ runs'[q].key = runs[q].key
  PROVE  /\ NoAgentTwice' /\ DepthBounded' /\ StartsBounded'
         /\ UNCHANGED told => ChainKeys'
<1>1. \A q \in DOMAIN runs : Chain(q)' = Chain(q)
  <2>1. \A q \in DOMAIN runs : ChainUp(runs')[q] = ChainUp(runs)[q]
    BY Zenon, ChainSame DEF ChainInv
  <2> QED BY Zenon, <2>1, ChainIs
<1>2. \A r \in DOMAIN runs : Chain(r) \subseteq DOMAIN runs
  <2> SUFFICES ASSUME NEW r \in DOMAIN runs PROVE Chain(r) \subseteq DOMAIN runs
    BY Zenon
  <2>1. ChainUp(runs)[r] \subseteq 1..r
    BY Zenon, ChainBelow DEF ChainInv
  <2>2. Len(runs) \in Nat /\ DOMAIN runs = 1..Len(runs)
    BY DEF ChainInv, ChainRows
  <2> QED BY <2>1, <2>2, ChainIs
<1>3. NoAgentTwice'
  BY <1>1, <1>2 DEF ChainInv, NoAgentTwice, Ids
<1>4. DepthBounded'
  BY Zenon, <1>1 DEF ChainInv, DepthBounded, Ids
<1>5. \A r : Children(r)' = Children(r)
  BY Zenon DEF Children, Ids
<1>6. StartsBounded'
  BY Zenon, <1>5 DEF ChainInv, StartsBounded, Ids
<1>7. UNCHANGED told => ChainKeys'
  BY DEF ChainInv, ChainKeys
<1> QED BY Zenon, <1>3, <1>4, <1>6, <1>7

(* A run is added, started by run p, or by no agent if p is 0. *)
LEMMA ChainAdds ==
  ASSUME ChainGiven, ChainInv, NEW a \in Agents, NEW p \in Nat, NEW k \in StartKeys \cup {"none"},
         runs' = Append(runs, Run(a, p, k)),
         p # 0 => /\ p \in DOMAIN runs /\ \A q \in Children(p) : runs[q].key # k
                  /\ a \notin _ancestors(p) /\ Cardinality(Chain(p)) <= MaxDepth
                  /\ Cardinality(Children(p)) < StartsPerRun,
         \A x \in told' : x \in told \/ (p # 0 /\ x = <<p, a, k, Len(runs) + 1>>),
         UNCHANGED wire
  PROVE  ChainInv'
<1>0. ChainRows(runs) /\ runs \in Seq(ChainRun) /\ Len(runs) \in Nat /\ DOMAIN runs = 1..Len(runs)
      /\ \A q \in DOMAIN runs : runs[q] \in ChainRun /\ runs[q].parent < q
  BY DEF ChainInv, ChainRows
<1>n. PICK n \in Nat : n = Len(runs) + 1
  BY <1>0
<1>1. Run(a, p, k) \in ChainRun /\ Run(a, p, k).agent = a /\ Run(a, p, k).parent = p
      /\ Run(a, p, k).key = k
  BY Zenon DEF Run, ChainRun
<1>2. /\ DOMAIN runs' = 1..n /\ Len(runs') = n /\ DOMAIN runs' = DOMAIN runs \cup {n} /\ n \notin DOMAIN runs
      /\ runs'[n] = Run(a, p, k) /\ runs' \in Seq(ChainRun) /\ \A q \in DOMAIN runs : runs'[q] = runs[q]
  BY <1>0, <1>1, <1>n
<1>3. p < n /\ (\A q \in DOMAIN runs : q < n /\ q # 0)
  BY <1>0, <1>n
<1>4. ChainRows(runs')
  BY Zenon, <1>0, <1>1, <1>2, <1>3 DEF ChainRows
<1>5. \A q \in DOMAIN runs : Chain(q)' = Chain(q)
  <2>1. \A q \in DOMAIN runs : ChainUp(runs')[q] = ChainUp(runs)[q]
    <3>1. DOMAIN runs \subseteq DOMAIN runs' /\ \A q \in DOMAIN runs : runs'[q].parent = runs[q].parent
      BY Zenon, <1>2
    <3> QED BY ZenonT(30), <1>0, <1>4, <3>1, ChainSame
  <2> QED BY Zenon, <2>1, ChainIs
<1>6. Chain(n)' = IF p = 0 THEN {n} ELSE {n} \cup Chain(p)
  <2>1. ChainUp(runs')[n] = IF runs'[n].parent = 0 THEN {n} ELSE {n} \cup ChainUp(runs')[runs'[n].parent]
    <3>1. \A q \in DOMAIN runs' :
            ChainUp(runs')[q] = IF runs'[q].parent = 0 THEN {q} ELSE {q} \cup ChainUp(runs')[runs'[q].parent]
      BY Zenon, <1>4, ChainWalk
    <3> QED BY Zenon, <1>2, <3>1
  <2>2. Chain(n)' = ChainUp(runs')[n] /\ Chain(p)' = ChainUp(runs')[p]
    BY Zenon, ChainIs
  <2> QED BY Zenon, <1>1, <1>2, <1>5, <2>1, <2>2
<1>7. \A q \in DOMAIN runs : Chain(q) \subseteq DOMAIN runs
  <2> SUFFICES ASSUME NEW q \in DOMAIN runs PROVE Chain(q) \subseteq DOMAIN runs
    BY Zenon
  <2>1. ChainUp(runs)[q] \subseteq 1..q
    BY Zenon, <1>0, ChainBelow
  <2> QED BY <1>0, <2>1, ChainIs
<1>8. NoAgentTwice'
  <2> SUFFICES ASSUME NEW r \in DOMAIN runs', NEW x \in Chain(r)', NEW y \in Chain(r)', x # y
               PROVE  runs'[x].agent # runs'[y].agent
    BY ZenonT(30) DEF NoAgentTwice, Ids
  <2>0. \A q \in DOMAIN runs : \A v, z \in Chain(q) : v # z => runs[v].agent # runs[z].agent
    BY Zenon DEF ChainInv, NoAgentTwice, Ids
  <2>1. CASE r \in DOMAIN runs
    <3>1. x \in Chain(r) /\ y \in Chain(r) /\ x \in DOMAIN runs /\ y \in DOMAIN runs
      BY Zenon, <1>5, <1>7, <2>1
    <3> QED BY <1>2, <2>0, <2>1, <3>1
  <2>2. CASE r = n /\ p # 0
    <3>1. x \in {n} \cup Chain(p) /\ y \in {n} \cup Chain(p) /\ p \in DOMAIN runs
      BY Zenon, <1>6, <2>2
    <3>2. \A q \in Chain(p) : q \in DOMAIN runs /\ runs'[q].agent = runs[q].agent /\ runs[q].agent # a
      BY Zenon, <1>2, <1>7, <2>2, <3>1 DEF _ancestors
    <3> QED BY <1>1, <1>2, <2>0, <3>1, <3>2
  <2>3. CASE r = n /\ p = 0
    BY <1>6, <2>3
  <2> QED BY Zenon, <1>2, <2>1, <2>2, <2>3
<1>9. DepthBounded'
  <2> SUFFICES ASSUME NEW r \in DOMAIN runs' PROVE Cardinality(Chain(r)') <= MaxDepth + 1
    BY Zenon DEF DepthBounded, Ids
  <2>1. CASE r \in DOMAIN runs
    BY Zenon, <1>5, <2>1 DEF ChainInv, DepthBounded, Ids
  <2>2. CASE r = n /\ p # 0
    <3>1. Chain(r)' = Chain(p) \cup {n} /\ Chain(p) \subseteq 1..Len(runs) /\ n \notin Chain(p)
      BY Zenon, <1>0, <1>2, <1>6, <1>7, <2>2
    <3>2. Cardinality(Chain(r)') = Cardinality(Chain(p)) + 1 /\ Cardinality(Chain(p)) \in Nat
      BY ZenonT(30), <1>0, <3>1 DEF ChainGiven, ChainSizes
    <3> QED BY <2>2, <3>2 DEF ChainGiven, ChainParameters
  <2>3. CASE r = n /\ p = 0
    <3>1. Chain(r)' = {n}
      BY Zenon, <1>6, <2>3
    <3>2. Cardinality({n}) = 1
      BY Zenon DEF ChainGiven, ChainSizes
    <3>3. MaxDepth \in Nat
      BY Zenon DEF ChainGiven, ChainParameters
    <3> QED BY <3>1, <3>2, <3>3
  <2> QED BY Zenon, <1>2, <2>1, <2>2, <2>3
<1>10. StartsBounded'
  <2> SUFFICES ASSUME NEW r \in DOMAIN runs' PROVE Cardinality(Children(r)') <= StartsPerRun
    BY Zenon DEF StartsBounded, Ids
  <2>1. \A v : Children(v) \subseteq 1..Len(runs)
    BY Zenon, <1>0 DEF Children, Ids
  <2>2. \A v : v # p => Children(v)' = Children(v)
    BY Zenon, <1>1, <1>2 DEF Children, Ids
  <2>3. CASE r = p
    <3>1. Children(r)' = Children(p) \cup {n} /\ n \notin Children(p)
      BY <1>1, <1>2, <2>3 DEF Children, Ids
    <3>2. Cardinality(Children(r)') = Cardinality(Children(p)) + 1 /\ Cardinality(Children(p)) \in Nat
      BY ZenonT(30), <1>0, <2>1, <3>1 DEF ChainGiven, ChainSizes
    <3>3. p # 0
      BY <1>2, <2>3
    <3> QED BY <3>2, <3>3 DEF ChainGiven, ChainParameters
  <2>4. CASE r # p /\ r \in DOMAIN runs
    BY Zenon, <2>2, <2>4 DEF ChainInv, StartsBounded, Ids
  <2>5. CASE r # p /\ r = n
    <3>1. Children(n) = {}
      BY <1>0, <1>3 DEF Children, Ids, ChainRun
    <3>2. Children(r)' = {}
      BY Zenon, <2>2, <2>5, <3>1
    <3>3. Cardinality({}) = 0 /\ StartsPerRun \in Nat
      BY Zenon DEF ChainGiven, ChainParameters, ChainSizes
    <3> QED BY <3>2, <3>3
  <2> QED BY Zenon, <1>2, <2>3, <2>4, <2>5
<1>11. ChainKeys'
  <2>1. \A x \in told' : /\ x[4] \in DOMAIN runs' /\ x[1] # 0 /\ runs'[x[4]].parent = x[1]
                         /\ runs'[x[4]].agent = x[2] /\ runs'[x[4]].key = x[3]
    BY <1>n, <1>1, <1>2 DEF ChainInv, ChainKeys
  <2>2. ASSUME NEW x \in DOMAIN runs', NEW y \in DOMAIN runs', runs'[x].parent # 0,
               runs'[x].parent = runs'[y].parent, runs'[x].key = runs'[y].key
        PROVE  x = y
    <3>1. CASE x \in DOMAIN runs /\ y \in DOMAIN runs
      BY <1>2, <2>2, <3>1 DEF ChainInv, ChainKeys
    <3>2. CASE x = n /\ y \in DOMAIN runs
      BY <1>1, <1>2, <2>2, <3>2 DEF Children, Ids
    <3>3. CASE y = n /\ x \in DOMAIN runs
      BY <1>1, <1>2, <2>2, <3>3 DEF Children, Ids
    <3> QED BY Zenon, <1>2, <3>1, <3>2, <3>3
  <2> QED BY Zenon, <2>1, <2>2 DEF ChainKeys
<1>12. ChainCalls'
  BY Zenon, <1>2 DEF ChainInv, ChainCalls
<1> QED BY Zenon, <1>4, <1>8, <1>9, <1>10, <1>11, <1>12 DEF ChainInv

LEMMA ChainSteps == ASSUME ChainGiven, ChainInv, [ChainNext]_chainVars PROVE ChainInv'
<1>0. ChainRows(runs) /\ runs \in Seq(ChainRun) /\ Len(runs) \in Nat /\ DOMAIN runs = 1..Len(runs)
      /\ \A q \in DOMAIN runs : runs[q] \in ChainRun /\ runs[q].parent < q
  BY DEF ChainInv, ChainRows
<1>1. ASSUME NEW a \in Agents, create_run(a) PROVE ChainInv'
  <2>1. runs' = Append(runs, Run(a, 0, "none")) /\ UNCHANGED <<wire, told>>
    BY Zenon, <1>1 DEF create_run, ChainNone
  <2> QED BY Zenon, <2>1, ChainAdds
<1>2. ASSUME NEW r \in DOMAIN runs, Dispatch(r) \/ End(r) \/ ChainCancel(r) \/ retry(r) PROVE ChainInv'
  <2>1. PICK s \in {"QUEUED", "RUNNING", "FAILED", "CANCELLED"}, t \in Nat :
          runs' = [runs EXCEPT ![r].state = s, ![r].attempt = t]
    <3>1. runs[r].attempt \in Nat /\ runs[r].attempt + 1 \in Nat
      BY <1>0 DEF ChainRun
    <3>2. CASE retry(r)
      BY Zenon, <3>1, <3>2 DEF retry
    <3>3. ASSUME NEW s \in {"QUEUED", "RUNNING", "FAILED", "CANCELLED"}, runs' = [runs EXCEPT ![r].state = s]
          PROVE  runs' = [runs EXCEPT ![r].state = s, ![r].attempt = runs[r].attempt]
      BY Zenon, <1>0, <3>3 DEF ChainRun
    <3>4. CASE Dispatch(r) \/ End(r) \/ ChainCancel(r)
      BY Zenon, <3>1, <3>3, <3>4 DEF Dispatch, End, ChainCancel, ChainMove
    <3> QED BY Zenon, <1>2, <3>2, <3>4
  <2>2. /\ runs' \in Seq(ChainRun) /\ DOMAIN runs' = DOMAIN runs /\ Len(runs') = Len(runs)
        /\ \A q \in DOMAIN runs : /\ runs'[q].agent = runs[q].agent /\ runs'[q].parent = runs[q].parent
                                   /\ runs'[q].key = runs[q].key
    <3>1. /\ DOMAIN runs' = 1..Len(runs) /\ \A q \in DOMAIN runs : q # r => runs'[q] = runs[q]
          /\ runs'[r] = [runs[r] EXCEPT !.state = s, !.attempt = t]
      BY Zenon, <1>0, <2>1
    <3>2. /\ runs'[r] \in ChainRun /\ runs'[r].agent = runs[r].agent /\ runs'[r].parent = runs[r].parent
          /\ runs'[r].key = runs[r].key
      BY Zenon, <1>0, <3>1 DEF ChainRun
    <3>3. runs' = [q \in 1..Len(runs) |-> runs'[q]]
      BY Zenon, <1>0, <2>1
    <3>4. runs' \in Seq(ChainRun) /\ Len(runs') = Len(runs)
      BY <1>0, <3>1, <3>2, <3>3
    <3> QED BY Zenon, <1>0, <3>1, <3>2, <3>4
  <2>3. UNCHANGED <<wire, told>>
    BY Zenon, <1>2 DEF Dispatch, End, ChainCancel, retry
  <2>4. ChainRows(runs')
    BY Zenon, <1>0, <2>2 DEF ChainRows
  <2>5. ChainCalls'
    BY Zenon, <2>2, <2>3 DEF ChainInv, ChainCalls
  <2> QED BY Zenon, <2>2, <2>3, <2>4, <2>5, ChainKeeps DEF ChainInv
<1>3. ASSUME UNCHANGED runs, told' = told \/ (\E c \in wire : \E q \in Children(c.run) :
                                              runs[q].key = c.key /\ runs[q].agent = c.agent /\ ChainAnswer(c, q)),
             ChainCalls'
      PROVE  ChainInv'
  <2>1. /\ ChainRows(runs') /\ DOMAIN runs' = DOMAIN runs
        /\ \A q \in DOMAIN runs : /\ runs'[q].agent = runs[q].agent /\ runs'[q].parent = runs[q].parent
                                   /\ runs'[q].key = runs[q].key
    BY ZenonT(30), <1>0, <1>3
  <2>2. NoAgentTwice' /\ DepthBounded' /\ StartsBounded' /\ (UNCHANGED told => ChainKeys')
    BY ZenonT(30), <2>1, ChainKeeps
  <2>3. ASSUME NEW c \in wire, NEW q \in Children(c.run), runs[q].key = c.key, runs[q].agent = c.agent, ChainAnswer(c, q)
        PROVE  ChainKeys'
    <3>1. q \in DOMAIN runs /\ runs[q].parent = c.run /\ c.run # 0
      BY <1>0, <2>3 DEF Children, Ids, ChainInv, ChainCalls
    <3>2. \A x \in told' : x \in told \/ (x[1] = c.run /\ x[2] = c.agent /\ x[3] = c.key /\ x[4] = q)
      BY <2>3 DEF ChainAnswer
    <3> QED BY ZenonT(30), <1>3, <2>3, <3>1, <3>2 DEF ChainInv, ChainKeys
  <2> QED BY ZenonT(30), <1>3, <2>1, <2>2, <2>3 DEF ChainInv
<1>4. ASSUME NEW r \in DOMAIN runs, NEW a \in Agents, NEW k \in StartKeys, ChainCall(r, a, k) PROVE ChainInv'
  <2>1. ChainCalls'
    BY <1>4 DEF ChainCall, ChainInv, ChainCalls
  <2> QED BY Zenon, <1>3, <1>4, <2>1 DEF ChainCall
<1>5. ASSUME NEW c \in wire, Drop(c) PROVE ChainInv'
  <2>1. ChainCalls'
    BY Zenon, <1>5 DEF Drop, ChainInv, ChainCalls
  <2> QED BY Zenon, <1>3, <1>5, <2>1 DEF Drop
<1>6. ASSUME NEW c \in wire, start_agent_run(c) PROVE ChainInv'
  <2> DEFINE replay == {q \in Children(c.run) : runs[q].key = c.key}
  <2>0. UNCHANGED wire /\ c.run \in DOMAIN runs /\ c.agent \in Agents /\ c.key \in StartKeys /\ c.run \in Nat
    BY <1>0, <1>6 DEF start_agent_run, ChainInv, ChainCalls
  <2>1. CASE replay # {}
    <3>1. (\E q \in replay : runs[q].agent = c.agent /\ ChainAnswer(c, q)) /\ UNCHANGED runs
      BY Zenon, <1>6, <2>1 DEF start_agent_run
    <3>2. ChainCalls'
      BY Zenon, <2>0, <3>1 DEF ChainInv, ChainCalls
    <3> QED BY Zenon, <1>3, <3>1, <3>2
  <2>2. CASE replay = {}
    <3>1. Allowed(c) /\ runs' = Append(runs, Run(c.agent, c.run, c.key)) /\ ChainAnswer(c, Len(runs) + 1)
      BY Zenon, <1>6, <2>2 DEF start_agent_run
    <3>2. /\ \A q \in Children(c.run) : runs[q].key # c.key
          /\ c.agent \notin _ancestors(c.run) /\ Cardinality(Chain(c.run)) <= MaxDepth
          /\ Cardinality(Children(c.run)) < StartsPerRun
      BY Zenon, <2>2, <3>1 DEF Allowed
    <3>3. c.run # 0 /\ \A x \in told' : x \in told \/ x = <<c.run, c.agent, c.key, Len(runs) + 1>>
      BY <1>0, <2>0, <3>1 DEF ChainAnswer
    <3> QED BY Zenon, <2>0, <3>1, <3>2, <3>3, ChainAdds
  <2> QED BY Zenon, <2>1, <2>2
<1>7. CASE UNCHANGED chainVars
  <2>1. ChainCalls'
    BY Zenon, <1>7 DEF chainVars, ChainInv, ChainCalls
  <2> QED BY Zenon, <1>3, <1>7, <2>1 DEF chainVars
<1> QED BY Zenon, <1>1, <1>2, <1>4, <1>5, <1>6, <1>7 DEF ChainNext, Ids

LEMMA ChainStarts == ASSUME ChainInit PROVE ChainInv
<1>1. runs = <<>> /\ wire = {} /\ told = {} /\ DOMAIN runs = {} /\ Len(runs) = 0
  BY DEF ChainInit
<1> QED BY <1>1 DEF ChainInv, ChainRows, ChainKeys, ChainCalls, NoAgentTwice, DepthBounded,
                    StartsBounded, Ids

(* The invariant of the runs that agents start. *)
THEOREM ChainInvariant == ASSUME ChainGiven PROVE ChainSpec => []ChainInv
<1>1. ChainInit => ChainInv
  BY Zenon, ChainStarts
<1>2. ChainInv /\ [ChainNext]_chainVars => ChainInv'
  BY Zenon, ChainSteps
<1> QED BY <1>1, <1>2, PTL DEF ChainSpec

LEMMA ChainKept == ASSUME ChainInv PROVE KeyNamesOneRun
  BY DEF ChainInv, ChainKeys, KeyNamesOneRun
=============================================================================
