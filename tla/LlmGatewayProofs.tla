-------------------------- MODULE LlmGatewayProofs --------------------------
(***************************************************************************)
(* Proofs about the request path of the gateway: what is admitted fits the *)
(* limits, a key is worked on by one request at a time, and its answer is  *)
(* paid for once while it is stored.  The sums over finite sets that the   *)
(* usage and the reservations add up to come first.                        *)
(***************************************************************************)
EXTENDS LlmGateway, FiniteSetTheorems, WellFoundedInduction, TLAPS

-----------------------------------------------------------------------------
(* Sums over finite sets.  A recursion over the subsets of a finite set is *)
(* well defined, and what it computes is shown by looking at a smallest    *)
(* subset of which it does not hold.                                       *)

Weights(S) == [S -> Nat]

LEMMA Least == ASSUME NEW T, T \subseteq Nat, T # {} PROVE \E x \in T : \A y \in T : x <= y
<1> DEFINE R == {ss \in Nat \X Nat : ss[1] < ss[2]}
<1>1. IsWellFoundedOn(R, Nat)
  BY Zenon, NatLessThanWellFounded DEF OpToRel
<1> HIDE DEF R
<1>2. PICK x \in T : \A y \in T : ~(<<y, x>> \in R)
  BY Zenon, <1>1, WFMin
<1>3. \A y \in T : ~(y < x)
  BY Zenon, <1>2 DEF R
<1> QED BY <1>3

(* The numbers of elements of a set and of what is left without one. *)
LEMMA SizeOfRest ==
  ASSUME NEW S, IsFiniteSet(S), NEW t \in SUBSET S
  PROVE  /\ Cardinality(t) \in Nat /\ (t = {} <=> Cardinality(t) = 0)
         /\ \A x \in t : t \ {x} \in SUBSET S /\ Cardinality(t \ {x}) = Cardinality(t) - 1
<1>1. IsFiniteSet(t)
  BY Zenon, FS_Subset
<1>2. Cardinality(t) \in Nat /\ (t = {} <=> Cardinality(t) = 0)
  BY Zenon, <1>1, FS_CardinalityType, FS_EmptySet
<1>3. ASSUME NEW x \in t PROVE Cardinality(t \ {x}) = Cardinality(t) - 1
  BY Zenon, <1>1, FS_RemoveElement
<1> QED BY Zenon, <1>2, <1>3

(* A set of subsets of a finite set has a smallest member: one that has no
   member with an element less. *)
LEMMA Smallest ==
  ASSUME NEW S, IsFiniteSet(S), NEW B, B \subseteq SUBSET S, B # {}
  PROVE  \E t \in B : \A x \in t : t \ {x} \notin B
<1> DEFINE N == {Cardinality(t) : t \in B}
<1>1. N \subseteq Nat /\ N # {}
  BY SizeOfRest
<1>2. PICK n \in N : \A m \in N : n <= m
  <2> HIDE DEF N
  <2> QED BY Zenon, <1>1, Least
<1>3. PICK t \in B : n = Cardinality(t)
  BY Zenon
<1>4. ASSUME NEW x \in t, t \ {x} \in B PROVE FALSE
  <2>1. Cardinality(t \ {x}) = n - 1 /\ n \in Nat
    BY <1>3, SizeOfRest
  <2>2. Cardinality(t \ {x}) \in N
    BY Zenon, <1>4
  <2> HIDE DEF N
  <2> QED BY <1>2, <2>1, <2>2
<1> QED BY Zenon, <1>4

LEMMA TotalIs ==
  ASSUME NEW S, IsFiniteSet(S), NEW w \in Weights(S), NEW s \in SUBSET S
  PROVE  /\ s = {} => Sum(w, s) = 0
         /\ s # {} => \E x \in s : Sum(w, s) = w[x] + Sum(w, s \ {x})
<1> DEFINE Up(n) == {t \in SUBSET S : Cardinality(t) <= n}
           Pick(t) == CHOOSE y \in t : TRUE
           Body(f, t) == IF t = {} THEN 0 ELSE w[Pick(t)] + f[t \ {Pick(t)}]
           Ok(n, f) == f = [t \in Up(n) |-> Body(f, t)]
           Bad == {n \in Nat : ~\E f : Ok(n, f)}
<1>0. DOMAIN w = S
  BY Zenon DEF Weights
<1>1. \A t \in SUBSET S : t # {} => Pick(t) \in t
  BY Zenon
<1> HIDE DEF Pick
<1>2. Bad = {}
  <2> SUFFICES ASSUME Bad # {} PROVE FALSE
    BY Zenon
  <2>1. PICK n \in Bad : \A m \in Bad : n <= m
    <3>1. Bad \subseteq Nat
      BY Zenon
    <3> HIDE DEF Bad
    <3> QED BY Zenon, <3>1, Least
  <2>2. n \in Nat /\ n # 0
    <3>1. Ok(0, [t \in Up(0) |-> 0])
      BY SizeOfRest
    <3> QED BY ZenonT(30), <2>1, <3>1
  <2>3. n - 1 \in Nat /\ n - 1 \notin Bad
    <3> HIDE DEF Bad
    <3>1. n - 1 \in Nat /\ ~(n <= n - 1)
      BY <2>2
    <3> QED BY Zenon, <2>1, <3>1
  <2>4. PICK f : Ok(n - 1, f)
    BY Zenon, <2>3
  <2> DEFINE g == [t \in Up(n) |-> IF Cardinality(t) = n THEN Body(f, t) ELSE f[t]]
  <2>5. ASSUME NEW t \in Up(n) PROVE g[t] = Body(g, t)
    <3>1. Cardinality(t) \in Nat /\ (t = {} <=> Cardinality(t) = 0) /\ t \in SUBSET S
      BY Zenon, SizeOfRest
    <3>2. CASE t = {}
      <4>1. t \in Up(n - 1) /\ Cardinality(t) # n
        BY <2>2, <3>1, <3>2
      <4>2. f[t] = Body(f, t)
        BY Zenon, <2>4, <4>1
      <4> QED BY Zenon, <3>2, <4>1, <4>2
    <3>3. CASE t # {}
      <4> DEFINE u == t \ {Pick(t)}
      <4>1. u \in SUBSET S /\ Cardinality(u) = Cardinality(t) - 1
        BY Zenon, <1>1, <3>1, <3>3, SizeOfRest
      <4>2. u \in Up(n) /\ u \in Up(n - 1) /\ Cardinality(u) # n
        BY <2>2, <3>1, <4>1
      <4>3. g[u] = f[u]
        BY Zenon, <4>2
      <4>4. Cardinality(t) # n => f[t] = Body(f, t)
        <5> SUFFICES ASSUME Cardinality(t) # n PROVE f[t] = Body(f, t)
          BY Zenon
        <5>1. t \in Up(n - 1)
          BY <2>2, <3>1
        <5> QED BY Zenon, <2>4, <5>1
      <4> QED BY Zenon, <3>3, <4>3, <4>4
    <3> QED BY Zenon, <3>2, <3>3
  <2>6. Ok(n, g)
    BY Zenon, <2>5
  <2> QED BY Zenon, <2>1, <2>6
<1>3. PICK f : Ok(Cardinality(S), f)
  <2>1. Cardinality(S) \in Nat
    BY Zenon, SizeOfRest
  <2> QED BY Zenon, <1>2, <2>1
<1>4. Up(Cardinality(S)) = SUBSET S
  BY Zenon, FS_Subset
<1>5. f = [t \in SUBSET DOMAIN w |-> Body(f, t)]
  BY Zenon, <1>0, <1>3, <1>4
<1> DEFINE sum == CHOOSE h : h = [t \in SUBSET DOMAIN w |-> Body(h, t)]
<1>6. sum = [t \in SUBSET DOMAIN w |-> Body(sum, t)]
  BY Zenon, <1>5
<1>7. \A t : Sum(w, t) = sum[t]
  BY Zenon DEF Sum, Pick
<1> HIDE DEF sum
<1>8. sum[s] = Body(sum, s)
  BY Zenon, <1>0, <1>6
<1> QED BY Zenon, <1>1, <1>7, <1>8

LEMMA TotalType ==
  ASSUME NEW S, IsFiniteSet(S), NEW w \in Weights(S), NEW s \in SUBSET S
  PROVE  Sum(w, s) \in Nat
<1> DEFINE B == {t \in SUBSET S : Sum(w, t) \notin Nat}
<1> SUFFICES ASSUME B # {} PROVE FALSE
  BY Zenon
<1>1. PICK t \in B : \A x \in t : t \ {x} \notin B
  <2>1. B \subseteq SUBSET S
    BY Zenon
  <2> HIDE DEF B
  <2> QED BY Zenon, <2>1, Smallest
<1>2. Sum(w, t) \notin Nat /\ t # {}
  BY TotalIs
<1>3. PICK x \in t : Sum(w, t) = w[x] + Sum(w, t \ {x})
  BY <1>2, TotalIs
<1>4. w[x] \in Nat /\ Sum(w, t \ {x}) \in Nat
  BY Zenon, <1>1, <1>3 DEF Weights
<1> QED BY <1>2, <1>3, <1>4

(* Whichever element is taken first. *)
LEMMA TotalAny ==
  ASSUME NEW S, IsFiniteSet(S), NEW w \in Weights(S), NEW s \in SUBSET S, NEW z \in s
  PROVE  Sum(w, s) = w[z] + Sum(w, s \ {z})
<1> DEFINE B == {t \in SUBSET S : \E x \in t : Sum(w, t) # w[x] + Sum(w, t \ {x})}
<1> SUFFICES ASSUME B # {} PROVE FALSE
  BY Zenon
<1>1. PICK t \in B : \A x \in t : t \ {x} \notin B
  <2>1. B \subseteq SUBSET S
    BY Zenon
  <2> HIDE DEF B
  <2> QED BY Zenon, <2>1, Smallest
<1>2. PICK x \in t : Sum(w, t) # w[x] + Sum(w, t \ {x})
  BY Zenon
<1>4. PICK c \in t : Sum(w, t) = w[c] + Sum(w, t \ {c})
  BY <1>2, TotalIs
<1>5. c # x
  BY Zenon, <1>2, <1>4
<1>6. Sum(w, t \ {c}) = w[x] + Sum(w, (t \ {c}) \ {x})
  BY Zenon, <1>1, <1>4, <1>5
<1>7. Sum(w, t \ {x}) = w[c] + Sum(w, (t \ {x}) \ {c})
  BY Zenon, <1>1, <1>2, <1>4, <1>5
<1>8. (t \ {c}) \ {x} = (t \ {x}) \ {c}
  BY Zenon
<1>9. w[x] \in Nat /\ w[c] \in Nat /\ Sum(w, (t \ {x}) \ {c}) \in Nat
  BY Zenon, <1>2, <1>4, TotalType DEF Weights
<1> QED BY <1>2, <1>4, <1>6, <1>7, <1>8, <1>9

LEMMA TotalLess ==
  ASSUME NEW S, IsFiniteSet(S), NEW v \in Weights(S), NEW w \in Weights(S), NEW s \in SUBSET S,
         \A x \in s : v[x] <= w[x]
  PROVE  Sum(v, s) <= Sum(w, s)
<1> DEFINE B == {t \in SUBSET S : (\A x \in t : v[x] <= w[x]) /\ ~(Sum(v, t) <= Sum(w, t))}
<1> SUFFICES ASSUME B # {} PROVE FALSE
  BY Zenon
<1>1. PICK t \in B : \A x \in t : t \ {x} \notin B
  <2>1. B \subseteq SUBSET S
    BY Zenon
  <2> HIDE DEF B
  <2> QED BY Zenon, <2>1, Smallest
<1>2. Sum(v, t) \in Nat /\ Sum(w, t) \in Nat /\ ~(Sum(v, t) <= Sum(w, t))
  BY Zenon, TotalType
<1>3. PICK x \in t : TRUE
  <2>1. t = {} => Sum(v, t) = 0 /\ Sum(w, t) = 0
    BY Zenon, TotalIs
  <2> QED BY <1>2, <2>1
<1>4. Sum(v, t) = v[x] + Sum(v, t \ {x}) /\ Sum(w, t) = w[x] + Sum(w, t \ {x})
  BY <1>3, TotalAny
<1>5. Sum(v, t \ {x}) <= Sum(w, t \ {x})
  BY Zenon, <1>1, <1>3
<1>6. v[x] \in Nat /\ w[x] \in Nat /\ v[x] <= w[x]
      /\ Sum(v, t \ {x}) \in Nat /\ Sum(w, t \ {x}) \in Nat
  BY Zenon, <1>3, TotalType DEF Weights
<1> QED BY <1>2, <1>4, <1>5, <1>6

(* What adds nothing can be left out. *)
LEMMA TotalOnly ==
  ASSUME NEW S, IsFiniteSet(S), NEW w \in Weights(S), NEW s \in SUBSET S, NEW r \in SUBSET s,
         \A x \in s \ r : w[x] = 0
  PROVE  Sum(w, s) = Sum(w, r)
<1> DEFINE B == {t \in SUBSET S : r \subseteq t /\ (\A x \in t \ r : w[x] = 0) /\ Sum(w, t) # Sum(w, r)}
<1> SUFFICES ASSUME B # {} PROVE FALSE
  BY Zenon
<1>1. PICK t \in B : \A x \in t : t \ {x} \notin B
  <2>1. B \subseteq SUBSET S
    BY Zenon
  <2> HIDE DEF B
  <2> QED BY Zenon, <2>1, Smallest
<1>2. PICK x \in t \ r : TRUE
  <2>1. t # r
    BY Zenon
  <2> QED BY Zenon, <2>1
<1>3. Sum(w, t) = w[x] + Sum(w, t \ {x}) /\ w[x] = 0
  BY <1>2, TotalAny
<1>4. Sum(w, t \ {x}) = Sum(w, r)
  BY Zenon, <1>1, <1>2
<1>5. Sum(w, r) \in Nat
  BY Zenon, TotalType
<1> QED BY <1>3, <1>4, <1>5

-----------------------------------------------------------------------------
(* LlmGateway: one request works per key, and what is admitted fits.       *)

(* Finitely many requests, estimated in tokens, under limits in tokens. *)
LlmParameters ==
  /\ IsFiniteSet(Requests) /\ NoKey \notin Requests /\ RunLimit \in Nat /\ Daily \in Nat
  /\ \A r \in Requests : Req[r].est \in Nat /\ Req[r].stream \in BOOLEAN

LlmCost(rs) == Sum([r \in Requests |-> Req[r].est], rs)

(* What requests may cost together. *)
LEMMA LlmCosts ==
  ASSUME LlmParameters
  PROVE  /\ \A rs \in SUBSET Requests : LlmCost(rs) \in Nat /\ Estimate(rs) = LlmCost(rs)
         /\ LlmCost({}) = 0
         /\ \A rs \in SUBSET Requests, r \in Requests :
              /\ r \notin rs => LlmCost(rs \cup {r}) = LlmCost(rs) + Req[r].est
              /\ r \in rs => LlmCost(rs \ {r}) = LlmCost(rs) - Req[r].est
         /\ \A rs, ts \in SUBSET Requests : rs \subseteq ts => LlmCost(rs) <= LlmCost(ts)
<1> DEFINE w == [r \in Requests |-> Req[r].est]
<1>1. w \in Weights(Requests) /\ IsFiniteSet(Requests) /\ \A r \in Requests : w[r] = Req[r].est /\ w[r] \in Nat
  BY Zenon DEF LlmParameters, Weights
<1>2. \A rs : LlmCost(rs) = Sum(w, rs)
  BY Zenon DEF LlmCost
<1>3. \A rs : Estimate(rs) = Sum(w, rs)
  BY Zenon DEF Estimate
<1> HIDE DEF w
<1>4. \A rs \in SUBSET Requests : Sum(w, rs) \in Nat
  BY Zenon, <1>1, TotalType
<1>5. Sum(w, {}) = 0
  BY Zenon, <1>1, TotalIs
<1>6. ASSUME NEW rs \in SUBSET Requests, NEW r \in rs PROVE Sum(w, rs) = w[r] + Sum(w, rs \ {r})
  BY <1>1, TotalAny
<1>7. ASSUME NEW rs \in SUBSET Requests, NEW r \in Requests, r \notin rs
      PROVE  Sum(w, rs \cup {r}) = Sum(w, rs) + Req[r].est
  <2>1. rs \cup {r} \in SUBSET Requests /\ r \in rs \cup {r} /\ (rs \cup {r}) \ {r} = rs
    BY Zenon, <1>7
  <2>2. Sum(w, rs \cup {r}) = w[r] + Sum(w, rs)
    BY Zenon, <1>6, <2>1
  <2> QED BY <1>1, <1>4, <2>2
<1>8. ASSUME NEW rs \in SUBSET Requests, NEW r \in rs
      PROVE  Sum(w, rs \ {r}) = Sum(w, rs) - Req[r].est
  <2>1. rs \ {r} \in SUBSET Requests
    BY Zenon
  <2>2. Sum(w, rs \ {r}) \in Nat /\ Sum(w, rs) \in Nat /\ w[r] \in Nat /\ w[r] = Req[r].est
    BY Zenon, <1>1, <1>4, <2>1
  <2> QED BY <1>6, <2>2
<1>9. ASSUME NEW rs \in SUBSET Requests, NEW ts \in SUBSET Requests, rs \subseteq ts
      PROVE  Sum(w, rs) <= Sum(w, ts)
  <2> DEFINE v == [r \in Requests |-> IF r \in rs THEN w[r] ELSE 0]
  <2>1. /\ v \in Weights(Requests) /\ (\A x \in rs : w[x] <= v[x]) /\ (\A x \in ts : v[x] <= w[x])
        /\ \A x \in ts \ rs : v[x] = 0
    BY <1>1 DEF Weights
  <2> HIDE DEF v
  <2>2. Sum(w, rs) <= Sum(v, rs)
    BY Zenon, <1>1, <2>1, TotalLess
  <2>3. Sum(v, ts) = Sum(v, rs)
    BY <1>1, <1>9, <2>1, TotalOnly
  <2>4. Sum(v, ts) <= Sum(w, ts)
    BY Zenon, <1>1, <2>1, TotalLess
  <2>5. Sum(v, ts) \in Nat /\ Sum(w, ts) \in Nat /\ Sum(w, rs) \in Nat
    BY Zenon, <1>1, <2>1, TotalType
  <2> QED BY <2>2, <2>3, <2>4, <2>5
<1>10. \A rs \in SUBSET Requests, r \in Requests : r \in rs => LlmCost(rs \ {r}) = LlmCost(rs) - Req[r].est
  BY Zenon, <1>2, <1>8
<1>11. \A rs \in SUBSET Requests, r \in Requests : r \notin rs => LlmCost(rs \cup {r}) = LlmCost(rs) + Req[r].est
  BY Zenon, <1>2, <1>7
<1> QED BY Zenon, <1>2, <1>3, <1>4, <1>5, <1>9, <1>10, <1>11

-----------------------------------------------------------------------------
LlmFields == {"pc", "i", "read", "tok", "from", "answer"}

(* The handler of a request, and how far its checks are. *)
LlmRow(r) ==
  /\ DOMAIN rq[r] = LlmFields /\ rq[r].tok \in Nat
  /\ rq[r].i \in 0 .. Len(Checks(r)) /\ rq[r].read \in Nat \cup {-1}
  /\ rq[r].pc \in {"new", "wait", "resolve"} => rq[r].i = 0
  /\ rq[r].read # -1 => rq[r].i < Len(Checks(r))

LlmTypes ==
  /\ DOMAIN rq = Requests /\ DOMAIN fut = Requests /\ \A r \in Requests : LlmRow(r)
  /\ reserved \in [LlmHolders \cup Providers -> Int]
  /\ usage \in [LlmHolders \X Providers -> Nat] /\ rows \in [Requests -> Nat]

(* Requests that hold tokens of the holder or provider x. *)
LlmHolding(x) == {r \in Requests : Holding(r) /\ x \in {Req[r].holder, Req[r].provider}}

(* A counter covers what is held; it is exactly that unless streams are abandoned. *)
LlmCovered ==
  \A x \in LlmHolders \cup Providers :
    /\ reserved[x] >= LlmCost(LlmHolding(x))
    /\ "abandon" \notin LlmFaults => reserved[x] = LlmCost(LlmHolding(x))

(* Requests that the check of the run's limit, and the last check, have let pass. *)
LlmRunPassed(h) ==
  {r \in Requests : Holding(r) /\ Req[r].holder = h /\ (LlmAt(r, "check") => rq[r].i > 0)}
LlmDailyPassed(p) ==
  {r \in Requests : /\ Holding(r) /\ Req[r].provider = p
                    /\ LlmAt(r, "check") => rq[r].i = Len(Checks(r))}

LlmWithin ==
  /\ \A h \in LlmHolders \cap Runs : LlmCost(LlmRunPassed(h)) <= RunLimit
  /\ \A p \in Providers \cap Cloud : LlmCost(LlmDailyPassed(p)) <= Daily

LlmBudget == LlmTypes /\ LlmCovered /\ LlmWithin

LEMMA LlmLonger ==
  ASSUME NEW N, NEW s \in Seq(N), NEW c \in N
  PROVE  /\ s \o <<c>> \in Seq(N) /\ Len(s \o <<c>>) = Len(s) + 1 /\ (s \o <<c>>)[Len(s) + 1] = c
         /\ Len(s) > 0 => (s \o <<c>>)[1] = s[1]
  OBVIOUS

(* The checks of a request, and where in them those of the limits are. *)
LEMMA LlmChecks ==
  ASSUME NEW r \in Requests
  PROVE  /\ Checks(r) \in Seq({"run", "perRun", "daily"})
         /\ Req[r].holder \in Runs => Len(Checks(r)) > 0 /\ Checks(r)[1] = "run"
         /\ Req[r].provider \in Cloud =>
              Len(Checks(r)) > 0 /\ Checks(r)[Len(Checks(r))] = "daily"
<1>1. CASE Req[r].holder \in Runs /\ Req[r].provider \in Cloud
  <2> DEFINE N == {"run", "perRun", "daily"}
             two == <<"run">> \o <<"perRun">>
  <2>1. two \in Seq(N) /\ Len(two) = 2 /\ two[1] = "run"
    BY LlmLonger
  <2>2. Checks(r) = two \o <<"daily">>
    BY Zenon, <1>1 DEF Checks
  <2>3. "daily" \in N /\ 2 + 1 = 3 /\ 2 > 0 /\ 3 > 0
    OBVIOUS
  <2> HIDE DEF two, N
  <2>4. /\ two \o <<"daily">> \in Seq(N) /\ Len(two \o <<"daily">>) = Len(two) + 1
        /\ (two \o <<"daily">>)[1] = two[1] /\ (two \o <<"daily">>)[Len(two) + 1] = "daily"
    BY ZenonT(30), <2>1, <2>3, LlmLonger
  <2>5. Len(Checks(r)) = 3 /\ Checks(r)[1] = "run" /\ Checks(r)[3] = "daily"
    BY Zenon, <2>1, <2>2, <2>3, <2>4
  <2> QED BY Zenon, <2>2, <2>3, <2>4, <2>5 DEF N
<1>2. CASE Req[r].holder \in Runs /\ Req[r].provider \notin Cloud
  <2>1. Checks(r) = <<"run">>
    BY <1>2 DEF Checks
  <2> QED BY <1>2, <2>1
<1>3. CASE Req[r].holder \notin Runs /\ Req[r].provider \in Cloud
  <2>1. Checks(r) = <<"daily">>
    BY <1>3 DEF Checks
  <2> QED BY <1>3, <2>1
<1>4. CASE Req[r].holder \notin Runs /\ Req[r].provider \notin Cloud
  <2>1. Checks(r) = <<>>
    BY <1>4 DEF Checks
  <2> QED BY <1>4, <2>1
<1> QED BY Zenon, <1>1, <1>2, <1>3, <1>4

(* A step of one request keeps the counters right when it reserves as it starts to hold tokens and
   gives back as it ends. *)
LEMMA LlmCoverStep ==
  ASSUME LlmParameters, LlmTypes, LlmCovered, NEW r \in Requests,
         \A s \in Requests \ {r} : rq'[s] = rq[s],
         \/ /\ UNCHANGED reserved /\ (Holding(r)' => Holding(r))
            /\ "abandon" \notin LlmFaults => (Holding(r) => Holding(r)')
         \/ ~Holding(r) /\ Holding(r)' /\ _reserve(r)
         \/ Holding(r) /\ ~Holding(r)' /\ _unreserve(r)
  PROVE  LlmCovered' /\ reserved' \in [LlmHolders \cup Providers -> Int]
<1>0. /\ DOMAIN reserved = LlmHolders \cup Providers /\ Req[r].est \in Nat
      /\ \A x \in LlmHolders \cup Providers : reserved[x] \in Int
  BY Zenon DEF LlmTypes, LlmParameters
<1>1. reserved' \in [LlmHolders \cup Providers -> Int]
  BY <1>0 DEF LlmTypes, _reserve, _unreserve
<1>2. ASSUME NEW x \in LlmHolders \cup Providers
      PROVE  /\ reserved'[x] >= LlmCost(LlmHolding(x))'
             /\ "abandon" \notin LlmFaults => reserved'[x] = LlmCost(LlmHolding(x))'
  <2>1. PICK old : old = LlmHolding(x)
    BY Zenon
  <2>2. PICK new : new = LlmHolding(x)'
    BY Zenon
  <2>3. old \in SUBSET Requests /\ new \in SUBSET Requests /\ \A s \in Requests \ {r} : s \in old <=> s \in new
    BY Zenon, <2>1, <2>2 DEF LlmHolding, Holding, LlmAt
  <2>4. /\ r \in old <=> Holding(r) /\ x \in {Req[r].holder, Req[r].provider}
        /\ r \in new <=> Holding(r)' /\ x \in {Req[r].holder, Req[r].provider}
    BY Zenon, <2>1, <2>2 DEF LlmHolding
  <2>5. /\ LlmCost(LlmHolding(x))' = LlmCost(new) /\ reserved[x] >= LlmCost(old)
        /\ "abandon" \notin LlmFaults => reserved[x] = LlmCost(old)
    <3>1. LlmCost(LlmHolding(x))' = LlmCost(new)
      BY Zenon, <2>2 DEF LlmCost
    <3> QED BY Zenon, <2>1, <3>1 DEF LlmCovered
  <2>6. LlmCost(old) \in Nat /\ LlmCost(new) \in Nat
    BY Zenon, <2>3, LlmCosts
  <2>7. CASE r \in old <=> r \in new
    <3>1. old = new
      BY <2>3, <2>7
    <3>2. reserved'[x] = reserved[x]
      <4>1. CASE UNCHANGED reserved
        BY Zenon, <4>1
      <4>2. CASE x \notin {Req[r].holder, Req[r].provider}
        BY <1>0, <4>2 DEF _reserve, _unreserve
      <4> QED BY Zenon, <2>4, <2>7, <4>1, <4>2
    <3> QED BY Zenon, <2>5, <3>1, <3>2
  <2>8. CASE r \notin old /\ r \in new
    <3>1. new = old \cup {r} /\ _reserve(r) /\ x \in {Req[r].holder, Req[r].provider}
      BY Zenon, <2>3, <2>4, <2>8
    <3>2. LlmCost(new) = LlmCost(old) + Req[r].est
      BY Zenon, <2>3, <2>8, <3>1, LlmCosts
    <3>3. reserved'[x] = reserved[x] + Req[r].est
      BY Zenon, <1>0, <3>1 DEF _reserve
    <3> QED BY <1>0, <2>5, <2>6, <3>2, <3>3
  <2>9. CASE r \in old /\ r \notin new
    <3>1. new = old \ {r} /\ x \in {Req[r].holder, Req[r].provider}
      BY Zenon, <2>3, <2>4, <2>9
    <3>2. LlmCost(new) = LlmCost(old) - Req[r].est
      BY Zenon, <2>3, <2>9, <3>1, LlmCosts
    <3>3. CASE _unreserve(r)
      <4>1. reserved'[x] = reserved[x] - Req[r].est
        BY Zenon, <1>0, <3>1, <3>3 DEF _unreserve
      <4> QED BY <1>0, <2>5, <2>6, <3>2, <4>1
    <3>4. CASE UNCHANGED reserved /\ "abandon" \in LlmFaults
      BY <1>0, <2>5, <2>6, <3>2, <3>4
    <3> QED BY Zenon, <2>4, <2>9, <3>3, <3>4
  <2> QED BY Zenon, <2>7, <2>8, <2>9
<1> QED BY Zenon, <1>1, <1>2 DEF LlmCovered, LlmHolders, Providers

(* It keeps what has passed the checks within the limits when it passes none, and when it passes
   one that has looked at all that is reserved. *)
LEMMA LlmWithinStep ==
  ASSUME LlmParameters, LlmTypes, LlmCovered, LlmWithin, NEW r \in Requests,
         \A s \in Requests \ {r} : rq'[s] = rq[s],
         Req[r].holder \in Runs =>
           \/ Holding(r)' /\ (rq'[r].pc = "check" => rq'[r].i > 0) =>
                Holding(r) /\ (rq[r].pc = "check" => rq[r].i > 0)
           \/ Holding(r) /\ reserved[Req[r].holder] <= RunLimit,
         Req[r].provider \in Cloud =>
           \/ Holding(r)' /\ (rq'[r].pc = "check" => rq'[r].i = Len(Checks(r))) =>
                Holding(r) /\ (rq[r].pc = "check" => rq[r].i = Len(Checks(r)))
           \/ Holding(r) /\ reserved[Req[r].provider] <= Daily
  PROVE  LlmWithin'
<1>0. /\ \A x \in LlmHolders \cup Providers : reserved[x] \in Int
      /\ Req[r].holder \in LlmHolders /\ Req[r].provider \in Providers /\ RunLimit \in Nat /\ Daily \in Nat
  BY Zenon DEF LlmTypes, LlmParameters, LlmHolders, Providers
<1>a. ASSUME NEW x \in LlmHolders \cup Providers
      PROVE  LlmHolding(x) \in SUBSET Requests /\ LlmCost(LlmHolding(x)) \in Nat
             /\ LlmCost(LlmHolding(x)) <= reserved[x]
  <2>1. LlmHolding(x) \in SUBSET Requests
    BY Zenon DEF LlmHolding
  <2>2. LlmCost(LlmHolding(x)) \in Nat
    BY Zenon, <2>1, LlmCosts
  <2> QED BY Zenon, <1>0, <2>1, <2>2 DEF LlmCovered
<1>1. ASSUME NEW h \in LlmHolders \cap Runs PROVE LlmCost(LlmRunPassed(h))' <= RunLimit
  <2>1. PICK old : old = LlmRunPassed(h)
    BY Zenon
  <2>2. PICK new : new = LlmRunPassed(h)'
    BY Zenon
  <2>3. /\ old \in SUBSET Requests /\ new \in SUBSET Requests
        /\ \A s \in Requests \ {r} : s \in old <=> s \in new
    BY Zenon, <2>1, <2>2 DEF LlmRunPassed, Holding, LlmAt
  <2>4. LlmCost(LlmRunPassed(h))' = LlmCost(new) /\ LlmCost(old) <= RunLimit
    <3>1. LlmCost(LlmRunPassed(h))' = LlmCost(new)
      BY Zenon, <2>2 DEF LlmCost
    <3> QED BY Zenon, <2>1, <3>1 DEF LlmWithin
  <2>5. LlmCost(new) \in Nat /\ LlmCost(old) \in Nat
    BY Zenon, <2>3, LlmCosts
  <2>6. CASE r \in new => r \in old
    <3>1. new \subseteq old
      BY Zenon, <2>3, <2>6
    <3>2. LlmCost(new) <= LlmCost(old)
      BY Zenon, <2>3, <3>1, LlmCosts
    <3> QED BY <1>0, <2>4, <2>5, <3>2
  <2>7. CASE r \in new /\ r \notin old
    <3>1. Req[r].holder = h /\ Holding(r) /\ reserved[h] <= RunLimit
      BY Zenon, <2>1, <2>2, <2>7 DEF LlmRunPassed, LlmAt
    <3>2. new \subseteq LlmHolding(h)
      <4>1. old \subseteq LlmHolding(h)
        BY Zenon, <2>1 DEF LlmRunPassed, LlmHolding
      <4>2. r \in LlmHolding(h)
        BY Zenon, <3>1 DEF LlmHolding
      <4> QED BY Zenon, <2>3, <4>1, <4>2
    <3>3. LlmCost(new) <= LlmCost(LlmHolding(h))
      BY Zenon, <1>a, <2>3, <3>2, LlmCosts
    <3> QED BY <1>0, <1>a, <2>4, <2>5, <3>1, <3>3
  <2> QED BY Zenon, <2>6, <2>7
<1>2. ASSUME NEW p \in Providers \cap Cloud PROVE LlmCost(LlmDailyPassed(p))' <= Daily
  <2>1. PICK old : old = LlmDailyPassed(p)
    BY Zenon
  <2>2. PICK new : new = LlmDailyPassed(p)'
    BY Zenon
  <2>0. \A s : Checks(s)' = Checks(s)
    BY Zenon DEF Checks
  <2>3. /\ old \in SUBSET Requests /\ new \in SUBSET Requests
        /\ \A s \in Requests \ {r} : s \in old <=> s \in new
    BY Zenon, <2>0, <2>1, <2>2 DEF LlmDailyPassed, Holding, LlmAt
  <2>4. LlmCost(LlmDailyPassed(p))' = LlmCost(new) /\ LlmCost(old) <= Daily
    <3>1. LlmCost(LlmDailyPassed(p))' = LlmCost(new)
      BY Zenon, <2>2 DEF LlmCost
    <3> QED BY Zenon, <2>1, <3>1 DEF LlmWithin
  <2>5. LlmCost(new) \in Nat /\ LlmCost(old) \in Nat
    BY Zenon, <2>3, LlmCosts
  <2>6. CASE r \in new => r \in old
    <3>1. new \subseteq old
      BY Zenon, <2>3, <2>6
    <3>2. LlmCost(new) <= LlmCost(old)
      BY Zenon, <2>3, <3>1, LlmCosts
    <3> QED BY <1>0, <2>4, <2>5, <3>2
  <2>7. CASE r \in new /\ r \notin old
    <3>1. Req[r].provider = p /\ Holding(r) /\ reserved[p] <= Daily
      BY Zenon, <2>0, <2>1, <2>2, <2>7 DEF LlmDailyPassed, LlmAt
    <3>2. new \subseteq LlmHolding(p)
      <4>1. old \subseteq LlmHolding(p)
        BY Zenon, <2>1 DEF LlmDailyPassed, LlmHolding
      <4>2. r \in LlmHolding(p)
        BY Zenon, <3>1 DEF LlmHolding
      <4> QED BY Zenon, <2>3, <4>1, <4>2
    <3>3. LlmCost(new) <= LlmCost(LlmHolding(p))
      BY Zenon, <1>a, <2>3, <3>2, LlmCosts
    <3> QED BY <1>0, <1>a, <2>4, <2>5, <3>1, <3>3
  <2> QED BY Zenon, <2>6, <2>7
<1> QED BY Zenon, <1>1, <1>2 DEF LlmWithin, LlmHolders, Providers

-----------------------------------------------------------------------------
(* Only the handler of r has moved. *)
LlmMoved(r) == /\ DOMAIN rq' = Requests /\ DOMAIN rq'[r] = LlmFields
               /\ \A s \in Requests \ {r} : rq'[s] = rq[s]

(* It has moved, and neither checked nor read anything. *)
LlmGoes(r, to) == /\ LlmMoved(r) /\ rq'[r].pc = to /\ rq'[r].i = rq[r].i /\ rq'[r].read = rq[r].read
                  /\ rq'[r].tok \in Nat

LlmLogged == DOMAIN fut' = Requests /\ usage' \in [LlmHolders \X Providers -> Nat]
             /\ rows' \in [Requests -> Nat]

LEMMA LlmMoves ==
  ASSUME LlmTypes, NEW r \in Requests
  PROVE  /\ \A to : LlmGoto(r, to) => LlmGoes(r, to) /\ rq'[r].from = rq[r].from /\ rq'[r].answer = rq[r].answer
         /\ \A a : LlmAnswer(r, a) => LlmGoes(r, "done") /\ rq'[r].from = rq[r].from /\ rq'[r].answer = a
  BY DEF LlmTypes, LlmRow, LlmFields, LlmGoes, LlmMoved, LlmGoto, LlmAnswer

LEMMA LlmSettles ==
  ASSUME LlmTypes, NEW r \in Requests, NEW a, Settle(r, a)
  PROVE  LlmGoes(r, "done") /\ DOMAIN fut' = Requests /\ rq'[r].from = rq[r].from
<1>1. LlmAnswer(r, a) /\ fut' = [fut EXCEPT ![r] = a]
  BY Zenon DEF Settle
<1> QED BY Zenon, <1>1, LlmMoves DEF LlmTypes

LEMMA LlmRecords ==
  ASSUME LlmTypes, NEW r \in Requests, NEW t \in Nat, _record(r, t)
  PROVE  usage' \in [LlmHolders \X Providers -> Nat] /\ rows' \in [Requests -> Nat]
<1>1. <<Req[r].holder, Req[r].provider>> \in LlmHolders \X Providers
  BY Zenon DEF LlmHolders, Providers
<1> QED BY <1>1 DEF LlmTypes, _record

LEMMA LlmRows ==
  ASSUME LlmTypes, NEW r \in Requests, LlmMoved(r), LlmRow(r)', LlmLogged,
         reserved' \in [LlmHolders \cup Providers -> Int]
  PROVE  LlmTypes'
<1>1. \A s : Checks(s)' = Checks(s)
  BY Zenon DEF Checks
<1>2. \A s \in Requests : LlmRow(s)'
  BY Zenon, <1>1 DEF LlmTypes, LlmRow, LlmMoved
<1> QED BY Zenon, <1>2 DEF LlmTypes, LlmMoved, LlmLogged, LlmHolders, Providers

(* A step that neither reserves, gives back nor decides. *)
LEMMA LlmQuiet ==
  ASSUME LlmParameters, LlmBudget, NEW r \in Requests, LlmMoved(r), LlmRow(r)', LlmLogged, UNCHANGED reserved,
         Holding(r)' <=> Holding(r),
         rq'[r].pc = "check" => rq[r].pc = "check" /\ rq'[r].i = rq[r].i,
         Holding(r) /\ rq[r].pc = "check" /\ rq'[r].pc # "check" => rq[r].i = Len(Checks(r))
  PROVE  LlmBudget'
<1>1. LlmTypes /\ LlmCovered /\ LlmWithin
  BY Zenon DEF LlmBudget
<1>2. LlmTypes'
  BY Zenon, <1>1, LlmRows DEF LlmTypes
<1>3. LlmCovered'
  BY Zenon, <1>1, LlmCoverStep DEF LlmMoved
<1>4. LlmWithin'
  <2>1. Req[r].holder \in Runs /\ rq[r].pc = "check" /\ rq[r].i = Len(Checks(r)) => rq[r].i > 0
    BY Zenon, LlmChecks
  <2> QED BY Zenon, <1>1, <2>1, LlmWithinStep DEF LlmMoved
<1> QED BY Zenon, <1>2, <1>3, <1>4 DEF LlmBudget

(* The end of a request, which holds nothing, gives back what it held, or is abandoned. *)
LEMMA LlmEnds ==
  ASSUME LlmParameters, LlmBudget, NEW r \in Requests, LlmGoes(r, "done"), LlmLogged,
         \/ UNCHANGED reserved /\ (Holding(r) => "abandon" \in LlmFaults)
         \/ Holding(r) /\ _unreserve(r)
  PROVE  LlmBudget'
<1>1. LlmTypes /\ LlmCovered /\ LlmWithin /\ LlmMoved(r)
  BY Zenon DEF LlmBudget, LlmGoes
<1>2. ~Holding(r)' /\ rq'[r].pc = "done"
  BY Zenon DEF LlmGoes, Holding, LlmAt
<1>3. LlmRow(r)'
  <2>1. Checks(r)' = Checks(r)
    BY Zenon DEF Checks
  <2> QED BY Zenon, <1>1, <1>2, <2>1 DEF LlmGoes, LlmMoved, LlmTypes, LlmRow
<1>4. LlmCovered' /\ reserved' \in [LlmHolders \cup Providers -> Int]
  BY Zenon, <1>1, <1>2, LlmCoverStep DEF LlmMoved
<1>5. LlmTypes'
  BY Zenon, <1>1, <1>3, <1>4, LlmRows
<1>6. LlmWithin'
  BY Zenon, <1>1, <1>2, LlmWithinStep DEF LlmMoved
<1> QED BY Zenon, <1>4, <1>5, <1>6 DEF LlmBudget

(* What was used is a number of tokens. *)
LEMMA LlmUsed ==
  ASSUME LlmParameters, LlmTypes, NEW r \in Requests, NEW c \in {"run", "perRun", "daily"}
  PROVE  Used(r, c) \in Nat
<1>1. Req[r].holder \in LlmHolders /\ Req[r].provider \in Providers
  BY Zenon DEF LlmHolders, Providers
<1>2. IsFiniteSet(LlmHolders)
  <2>1. [s \in Requests |-> Req[s].holder] \in Surjection(Requests, LlmHolders)
    BY Zenon DEF Surjection, LlmHolders
  <2> QED BY Zenon, <2>1, FS_Surjection DEF LlmParameters
<1>3. IsFiniteSet(Providers)
  <2>1. [s \in Requests |-> Req[s].provider] \in Surjection(Requests, Providers)
    BY Zenon DEF Surjection, Providers
  <2> QED BY Zenon, <2>1, FS_Surjection DEF LlmParameters
<1>4. CASE c = "run"
  <2>1. PICK w : w = [p \in Providers |-> usage[<<Req[r].holder, p>>]]
    BY Zenon
  <2>2. w \in Weights(Providers)
    BY Zenon, <1>1, <2>1 DEF LlmTypes, Weights
  <2>3. Used(r, c) = Sum(w, Providers)
    BY Zenon, <1>4, <2>1 DEF Used
  <2> QED BY Zenon, <1>3, <2>2, <2>3, TotalType
<1>5. CASE c = "perRun"
  BY Zenon, <1>1, <1>5 DEF Used, LlmTypes
<1>6. CASE c = "daily"
  <2>1. PICK w : w = [h \in LlmHolders |-> usage[<<h, Req[r].provider>>]]
    BY Zenon
  <2>2. w \in Weights(LlmHolders)
    BY Zenon, <1>1, <2>1 DEF LlmTypes, Weights
  <2>3. Used(r, c) = Sum(w, LlmHolders)
    BY Zenon, <1>6, <2>1 DEF Used
  <2> QED BY Zenon, <1>2, <2>2, <2>3, TotalType
<1> QED BY Zenon, <1>4, <1>5, <1>6

(* A request that has not reserved. *)
LEMMA LlmBefore ==
  ASSUME LlmParameters, LlmBudget, NEW r \in Requests, ~Holding(r),
         \E to \in {"resolve", "wait", "done"} : LlmGoes(r, to),
         rq[r].pc \in {"new", "wait", "resolve"} \/ rq'[r].pc = "done",
         LlmLogged, UNCHANGED reserved
  PROVE  LlmBudget'
<1>1. PICK to \in {"resolve", "wait", "done"} : LlmGoes(r, to)
  BY Zenon
<1>2. LlmTypes /\ LlmMoved(r) /\ rq'[r].pc = to /\ ~Holding(r)'
  BY Zenon, <1>1 DEF LlmBudget, LlmGoes, Holding, LlmAt
<1>3. LlmRow(r)'
  <2>1. Checks(r)' = Checks(r)
    BY Zenon DEF Checks
  <2> QED BY Zenon, <1>1, <1>2, <2>1 DEF LlmGoes, LlmMoved, LlmTypes, LlmRow
<1> QED BY Zenon, <1>2, <1>3, LlmQuiet

LEMMA LlmPrepareKeeps == ASSUME LlmParameters, LlmBudget, NEW r \in Requests, LlmPrepare(r) PROVE LlmBudget'
<1>0. LlmTypes /\ LlmCovered /\ LlmWithin /\ ~Holding(r) /\ UNCHANGED <<usage, rows>> /\ rq[r].pc = "resolve"
  BY Zenon DEF LlmBudget, LlmPrepare, Holding, LlmAt
<1>1. CASE Settle(r, "error") /\ UNCHANGED reserved
  BY Zenon, <1>0, <1>1, LlmSettles, LlmEnds DEF LlmLogged, LlmTypes
<1>2. CASE LlmGoto(r, "check") /\ _reserve(r) /\ UNCHANGED fut
  <2>1. LlmGoes(r, "check")
    BY Zenon, <1>0, <1>2, LlmMoves
  <2>2. LlmMoved(r) /\ Holding(r)' /\ rq'[r].pc = "check" /\ rq'[r].i = 0
    BY Zenon, <1>0, <2>1 DEF LlmGoes, Holding, LlmAt, LlmTypes, LlmRow
  <2>3. LlmCovered' /\ reserved' \in [LlmHolders \cup Providers -> Int]
    BY Zenon, <1>0, <1>2, <2>2, LlmCoverStep DEF LlmMoved
  <2>4. LlmRow(r)'
    <3>1. Checks(r)' = Checks(r)
      BY Zenon DEF Checks
    <3> QED BY Zenon, <1>0, <2>1, <2>2, <3>1 DEF LlmGoes, LlmMoved, LlmTypes, LlmRow
  <2>5. LlmTypes'
    BY Zenon, <1>0, <1>2, <2>2, <2>3, <2>4, LlmRows DEF LlmLogged, LlmTypes
  <2>6. LlmWithin'
    <3>1. Req[r].provider \in Cloud => Len(Checks(r)) # 0
      BY LlmChecks
    <3> QED BY <1>0, <2>2, <3>1, LlmWithinStep DEF LlmMoved
  <2> QED BY Zenon, <2>3, <2>5, <2>6 DEF LlmBudget
<1> QED BY Zenon, <1>1, <1>2 DEF LlmPrepare

LEMMA LlmQuery == ASSUME LlmParameters, LlmBudget, NEW r \in Requests, Query(r) PROVE LlmBudget'
<1>0. /\ LlmTypes /\ UNCHANGED <<fut, reserved, usage, rows>> /\ rq[r].pc = "check"
      /\ DOMAIN rq = Requests /\ DOMAIN rq[r] = LlmFields /\ rq[r].i \in 0 .. Len(Checks(r))
      /\ rq[r].i < Len(Checks(r)) /\ rq[r].tok \in Nat
  BY Zenon DEF LlmBudget, LlmTypes, LlmRow, Query, LlmAt
<1>1. PICK c \in {"run", "perRun", "daily"} : c = Checks(r)[rq[r].i + 1]
  BY <1>0, LlmChecks
<1>2. PICK n \in Nat : n = Used(r, c)
  BY Zenon, <1>0, LlmUsed
<1>3. rq' = [rq EXCEPT ![r].read = n]
  BY Zenon, <1>1, <1>2 DEF Query
<1>4. /\ LlmMoved(r) /\ rq'[r].pc = "check" /\ rq'[r].i = rq[r].i /\ rq'[r].read = n /\ rq'[r].tok = rq[r].tok
  BY Zenon, <1>0, <1>3 DEF LlmMoved, LlmFields
<1>5. LlmRow(r)'
  <2>1. Checks(r)' = Checks(r)
    BY Zenon DEF Checks
  <2> QED BY Zenon, <1>0, <1>4, <2>1 DEF LlmMoved, LlmRow
<1>6. Holding(r)' /\ Holding(r)
  BY Zenon, <1>0, <1>4 DEF Holding
<1>7. LlmLogged
  BY Zenon, <1>0 DEF LlmLogged, LlmTypes
<1> QED BY Zenon, <1>0, <1>4, <1>5, <1>6, <1>7, LlmQuiet

LEMMA LlmDecide == ASSUME LlmParameters, LlmBudget, NEW r \in Requests, Decide(r) PROVE LlmBudget'
<1>0. /\ LlmTypes /\ LlmCovered /\ LlmWithin /\ UNCHANGED <<usage, rows>> /\ rq[r].pc = "check" /\ Holding(r)
      /\ DOMAIN rq = Requests /\ DOMAIN rq[r] = LlmFields /\ rq[r].i \in 0 .. Len(Checks(r))
      /\ rq[r].i < Len(Checks(r)) /\ rq[r].tok \in Nat /\ rq[r].read \in Nat
  BY Zenon DEF LlmBudget, LlmTypes, LlmRow, Decide, LlmAt, Holding
<1>1. CASE Settle(r, "error") /\ _unreserve(r)
  BY Zenon, <1>0, <1>1, LlmSettles, LlmEnds DEF LlmLogged, LlmTypes
<1>2. CASE /\ ~Over(r, Checks(r)[rq[r].i + 1], rq[r].read) /\ UNCHANGED <<fut, reserved>>
           /\ rq' = [rq EXCEPT ![r].i = @ + 1, ![r].read = -1]
  <2>1. /\ LlmMoved(r) /\ rq'[r].pc = "check" /\ rq'[r].i = rq[r].i + 1 /\ rq'[r].read = -1 /\ rq'[r].tok = rq[r].tok
    BY Zenon, <1>0, <1>2 DEF LlmMoved, LlmFields
  <2>2. LlmRow(r)'
    <3>1. Checks(r)' = Checks(r) /\ Len(Checks(r)) \in Nat
      BY LlmChecks DEF Checks
    <3> QED BY <1>0, <2>1, <3>1 DEF LlmMoved, LlmRow
  <2>3. LlmTypes'
    BY Zenon, <1>0, <1>2, <2>1, <2>2, LlmRows DEF LlmLogged, LlmTypes
  <2>4. Holding(r)'
    BY Zenon, <2>1 DEF Holding
  <2>5. LlmCovered'
    BY Zenon, <1>0, <1>2, <2>1, <2>4, LlmCoverStep DEF LlmMoved
  <2>6. reserved[Req[r].holder] \in Int /\ reserved[Req[r].provider] \in Int /\ RunLimit \in Nat /\ Daily \in Nat
    BY Zenon, <1>0 DEF LlmTypes, LlmHolders, Providers, LlmParameters
  <2>7. Checks(r)[rq[r].i + 1] = "run" => reserved[Req[r].holder] <= RunLimit
    BY <1>0, <1>2, <2>6 DEF Over
  <2>8. Checks(r)[rq[r].i + 1] = "daily" => reserved[Req[r].provider] <= Daily
    BY <1>0, <1>2, <2>6 DEF Over
  <2>9. Req[r].holder \in Runs => rq[r].i > 0 \/ reserved[Req[r].holder] <= RunLimit
    BY <1>0, <2>7, LlmChecks
  <2>10. Req[r].provider \in Cloud => rq'[r].i # Len(Checks(r)) \/ reserved[Req[r].provider] <= Daily
    BY Zenon, <1>0, <2>1, <2>8, LlmChecks
  <2>11. LlmWithin'
    BY Zenon, <1>0, <2>1, <2>9, <2>10, LlmWithinStep DEF LlmMoved
  <2> QED BY Zenon, <2>3, <2>5, <2>11 DEF LlmBudget
<1> QED BY Zenon, <1>1, <1>2 DEF Decide

(* Before the reservation, the handlers look at the store alone. *)
LEMMA LlmArrives ==
  ASSUME LlmParameters, LlmBudget, NEW r \in Requests,
         RunKeyed(r) \/ ClaimStream(r) \/ Unkeyed(r) \/ Replay(r)
  PROVE  LlmBudget'
<1>0. /\ LlmTypes /\ rq[r].pc \in {"new", "wait"} /\ ~Holding(r) /\ UNCHANGED <<fut, reserved, usage, rows>>
  BY Zenon DEF LlmBudget, RunKeyed, ClaimStream, Unkeyed, Replay, LlmAt, Holding
<1>1. LlmLogged
  BY Zenon, <1>0 DEF LlmLogged, LlmTypes
<1>2. \/ LlmGoto(r, "resolve") \/ \E a : LlmAnswer(r, a)
      \/ \E s : rq' = [rq EXCEPT ![r].pc = "wait", ![r].from = s]
  BY Zenon DEF RunKeyed, ClaimStream, Unkeyed, Replay
<1>3. ASSUME NEW s, rq' = [rq EXCEPT ![r].pc = "wait", ![r].from = s] PROVE LlmGoes(r, "wait")
  BY Zenon, <1>0, <1>3 DEF LlmTypes, LlmRow, LlmFields, LlmGoes, LlmMoved
<1>4. \E to \in {"resolve", "wait", "done"} : LlmGoes(r, to)
  BY Zenon, <1>0, <1>2, <1>3, LlmMoves
<1> QED BY Zenon, <1>0, <1>1, <1>4, LlmBefore

(* A request that goes on, with or without what it holds. *)
LEMMA LlmGoesOn ==
  ASSUME LlmParameters, LlmBudget, NEW r \in Requests, NEW to, LlmGoes(r, to), LlmLogged, UNCHANGED reserved,
         to \notin {"new", "wait", "resolve", "check"}, Holding(r)' <=> Holding(r),
         rq[r].pc = "check" => rq[r].i = Len(Checks(r))
  PROVE  LlmBudget'
<1>1. LlmTypes /\ LlmMoved(r) /\ rq'[r].pc = to
  BY Zenon DEF LlmBudget, LlmGoes
<1>2. LlmRow(r)'
  <2>1. Checks(r)' = Checks(r)
    BY Zenon DEF Checks
  <2> QED BY Zenon, <1>1, <2>1 DEF LlmGoes, LlmMoved, LlmTypes, LlmRow
<1> QED BY Zenon, <1>1, <1>2, LlmQuiet

LEMMA LlmAdapter == ASSUME LlmParameters, LlmBudget, NEW r \in Requests, Adapter(r) PROVE LlmBudget'
<1>0. /\ LlmTypes /\ UNCHANGED <<usage, rows>> /\ rq[r].pc = "check" /\ rq[r].i = Len(Checks(r)) /\ Holding(r)
  BY Zenon DEF LlmBudget, Adapter, LlmAt, Holding
<1>1. CASE Settle(r, "error") /\ _unreserve(r)
  BY Zenon, <1>0, <1>1, LlmSettles, LlmEnds DEF LlmLogged, LlmTypes
<1>2. CASE LlmGoto(r, IF Req[r].stream THEN "ready" ELSE "call") /\ UNCHANGED <<fut, reserved>>
  <2>1. PICK to \in {"ready", "call"} : LlmGoto(r, to)
    BY Zenon, <1>2
  <2>2. LlmGoes(r, to) /\ Holding(r)'
    BY Zenon, <1>0, <2>1, LlmMoves DEF LlmGoes, Holding
  <2>3. LlmLogged
    BY Zenon, <1>0, <1>2 DEF LlmLogged, LlmTypes
  <2> QED BY Zenon, <1>0, <1>2, <2>2, <2>3, LlmGoesOn
<1> QED BY Zenon, <1>1, <1>2 DEF Adapter

LEMMA LlmChat ==
  ASSUME LlmParameters, LlmBudget, NEW r \in Requests,
         ChatReturns(r) \/ ChatFails(r) \/ ChatRecords(r)
  PROVE  LlmBudget'
<1>0. LlmTypes /\ LlmCovered /\ LlmWithin /\ DOMAIN rq = Requests /\ DOMAIN rq[r] = LlmFields /\ rq[r].tok \in Nat
      /\ ~Req[r].stream
  BY Zenon DEF LlmBudget, LlmTypes, LlmRow, ChatReturns, ChatFails, ChatRecords
<1>1. CASE ChatReturns(r)
  <2>1. PICK t \in 0 .. Req[r].est, a \in {"ok", "final"} :
          rq' = [rq EXCEPT ![r].pc = "record", ![r].tok = t, ![r].answer = a]
    BY Zenon, <1>1 DEF ChatReturns
  <2>2. LlmGoes(r, "record") /\ LlmMoved(r)
    BY <1>0, <2>1 DEF LlmGoes, LlmMoved, LlmFields, LlmParameters
  <2>3. rq[r].pc = "call" /\ rq'[r].pc = "record" /\ Holding(r) /\ ~Holding(r)' /\ _unreserve(r)
        /\ UNCHANGED <<fut, usage, rows>>
    BY Zenon, <1>0, <1>1, <2>2 DEF ChatReturns, LlmGoes, Holding, LlmAt
  <2>4. LlmRow(r)'
    <3>1. Checks(r)' = Checks(r)
      BY Zenon DEF Checks
    <3> QED BY Zenon, <1>0, <2>2, <3>1 DEF LlmGoes, LlmMoved, LlmTypes, LlmRow
  <2>5. LlmCovered' /\ reserved' \in [LlmHolders \cup Providers -> Int]
    BY Zenon, <1>0, <2>2, <2>3, LlmCoverStep DEF LlmMoved
  <2>6. LlmTypes'
    BY Zenon, <1>0, <2>2, <2>3, <2>4, <2>5, LlmRows DEF LlmLogged, LlmTypes
  <2>7. LlmWithin'
    BY Zenon, <1>0, <2>2, <2>3, LlmWithinStep DEF LlmMoved
  <2> QED BY Zenon, <2>5, <2>6, <2>7 DEF LlmBudget
<1>2. CASE ChatFails(r)
  <2>1. Settle(r, "error") /\ _unreserve(r) /\ UNCHANGED <<usage, rows>> /\ Holding(r)
    BY Zenon, <1>2 DEF ChatFails, Holding, LlmAt
  <2> QED BY Zenon, <1>0, <2>1, LlmSettles, LlmEnds DEF LlmLogged, LlmTypes
<1>3. CASE ChatRecords(r)
  <2>1. /\ _record(r, rq[r].tok) /\ Settle(r, rq[r].answer) /\ UNCHANGED reserved /\ ~Holding(r)
    BY Zenon, <1>0, <1>3 DEF ChatRecords, Holding, LlmAt
  <2>2. LlmLogged
    BY ZenonT(30), <1>0, <2>1, LlmSettles, LlmRecords DEF LlmLogged
  <2> QED BY Zenon, <1>0, <2>1, <2>2, LlmSettles, LlmEnds
<1> QED BY Zenon, <1>1, <1>2, <1>3

LEMMA LlmStream ==
  ASSUME LlmParameters, LlmBudget, NEW r \in Requests,
         \/ StreamBegins(r) \/ StreamReturns(r) \/ StreamRecords(r)
         \/ StreamEnds(r) \/ StreamBreaks(r) \/ Abandon(r)
  PROVE  LlmBudget'
<1>0. LlmTypes /\ DOMAIN rq = Requests /\ DOMAIN rq[r] = LlmFields /\ rq[r].tok \in Nat /\ Req[r].est \in Nat
  BY Zenon DEF LlmBudget, LlmTypes, LlmRow, LlmParameters
<1>1. CASE StreamBegins(r)
  <2>1. LlmGoto(r, "call") /\ rq[r].pc = "ready" /\ UNCHANGED <<fut, reserved, usage, rows>>
    BY Zenon, <1>1 DEF StreamBegins, LlmAt
  <2>2. LlmGoes(r, "call") /\ Holding(r) /\ Holding(r)' /\ LlmLogged
    BY Zenon, <1>0, <2>1, LlmMoves DEF LlmGoes, Holding, LlmLogged, LlmTypes
  <2> QED BY Zenon, <2>1, <2>2, LlmGoesOn
<1>2. CASE StreamReturns(r)
  <2>1. PICK t \in 0 .. Req[r].est : rq' = [rq EXCEPT ![r].pc = "record", ![r].tok = t]
    BY ZenonT(30), <1>2 DEF StreamReturns
  <2>2. LlmGoes(r, "record")
    BY <1>0, <2>1 DEF LlmGoes, LlmMoved, LlmFields
  <2>3. Req[r].stream /\ rq[r].pc = "call" /\ UNCHANGED <<fut, reserved, usage, rows>>
    BY Zenon, <1>2 DEF StreamReturns, LlmAt
  <2>4. Holding(r) /\ Holding(r)' /\ LlmLogged
    BY Zenon, <1>0, <2>2, <2>3 DEF LlmGoes, Holding, LlmAt, LlmLogged, LlmTypes
  <2> QED BY Zenon, <2>2, <2>3, <2>4, LlmGoesOn
<1>3. CASE StreamRecords(r)
  <2>1. /\ Req[r].stream /\ rq[r].pc = "record" /\ UNCHANGED <<fut, reserved>> /\ _record(r, rq[r].tok)
        /\ LlmGoto(r, "sent")
    BY Zenon, <1>3 DEF StreamRecords, LlmAt
  <2>2. LlmGoes(r, "sent") /\ LlmLogged
    BY Zenon, <1>0, <2>1, LlmMoves, LlmRecords DEF LlmLogged, LlmTypes
  <2>3. Holding(r) /\ Holding(r)'
    BY Zenon, <2>1, <2>2 DEF LlmGoes, Holding, LlmAt
  <2> QED BY Zenon, <2>1, <2>2, <2>3, LlmGoesOn
<1>4. CASE StreamEnds(r)
  <2>1. Settle(r, "ok") /\ _unreserve(r) /\ UNCHANGED <<usage, rows>> /\ Holding(r)
    BY Zenon, <1>4 DEF StreamEnds, Holding, LlmAt
  <2> QED BY Zenon, <1>0, <2>1, LlmSettles, LlmEnds DEF LlmLogged, LlmTypes
<1>5. CASE StreamBreaks(r)
  <2>1. PICK t \in 0 .. Req[r].est : _record(r, t)
    BY Zenon, <1>5 DEF StreamBreaks
  <2>2. Settle(r, "error") /\ _unreserve(r) /\ Holding(r)
    BY Zenon, <1>5 DEF StreamBreaks, Holding, LlmAt
  <2>3. t \in Nat
    BY <1>0
  <2>4. LlmLogged
    BY Zenon, <1>0, <2>1, <2>2, <2>3, LlmSettles, LlmRecords DEF LlmLogged
  <2> QED BY Zenon, <1>0, <2>2, <2>4, LlmSettles, LlmEnds
<1>6. CASE Abandon(r)
  <2>1. "abandon" \in LlmFaults /\ LlmAnswer(r, "cancelled") /\ UNCHANGED <<fut, reserved, usage, rows>>
    BY Zenon, <1>6 DEF Abandon
  <2> QED BY Zenon, <1>0, <2>1, LlmMoves, LlmEnds DEF LlmLogged, LlmTypes
<1> QED BY Zenon, <1>1, <1>2, <1>3, <1>4, <1>5, <1>6

LEMMA LlmCancelKeeps == ASSUME LlmParameters, LlmBudget, NEW r \in Requests, LlmCancel(r) PROVE LlmBudget'
<1>0. LlmTypes /\ rq[r].tok \in Nat
  BY Zenon DEF LlmBudget, LlmTypes, LlmRow
<1>1. usage' \in [LlmHolders \X Providers -> Nat] /\ rows' \in [Requests -> Nat]
  BY Zenon, <1>0, LlmRecords DEF LlmCancel, LlmTypes
<1>2. CASE LlmAt(r, "wait") /\ LlmAnswer(r, "cancelled") /\ UNCHANGED <<entries, fut, reserved>>
  <2>1. ~Holding(r)
    BY Zenon, <1>2 DEF Holding, LlmAt
  <2> QED BY Zenon, <1>0, <1>1, <1>2, <2>1, LlmMoves, LlmEnds DEF LlmLogged, LlmTypes
<1>3. CASE /\ LlmAt(r, "check") \/ (LlmAt(r, "call") /\ ~Req[r].stream)
           /\ Settle(r, "lost") /\ _unreserve(r)
  <2>1. Holding(r)
    BY Zenon, <1>3 DEF Holding, LlmAt
  <2> QED BY Zenon, <1>0, <1>1, <1>3, <2>1, LlmSettles, LlmEnds DEF LlmLogged
<1>4. CASE LlmAt(r, "record") /\ ~Req[r].stream /\ Settle(r, "lost") /\ UNCHANGED reserved
  <2>1. ~Holding(r)
    BY Zenon, <1>4 DEF Holding, LlmAt
  <2> QED BY Zenon, <1>0, <1>1, <1>4, <2>1, LlmSettles, LlmEnds DEF LlmLogged
<1> QED BY Zenon, <1>2, <1>3, <1>4 DEF LlmCancel

LEMMA LlmNothingHeld ==
  ASSUME LlmParameters, \A r \in Requests : ~Holding(r), \A x \in LlmHolders \cup Providers : reserved[x] = 0
  PROVE  LlmCovered /\ LlmWithin
<1>1. \A x : LlmHolding(x) = {} /\ LlmRunPassed(x) = {} /\ LlmDailyPassed(x) = {}
  BY Zenon DEF LlmHolding, LlmRunPassed, LlmDailyPassed
<1>2. LlmCost({}) = 0 /\ RunLimit \in Nat /\ Daily \in Nat
  BY Zenon, LlmCosts DEF LlmParameters
<1> QED BY <1>1, <1>2 DEF LlmCovered, LlmWithin

LEMMA LlmBudgetInit == ASSUME LlmParameters, LlmInit PROVE LlmBudget
<1>1. /\ \A r \in Requests : rq[r] = LlmIdle /\ ~Holding(r)
      /\ \A x \in LlmHolders \cup Providers : reserved[x] = 0
  BY Zenon DEF LlmInit, LlmIdle, Holding, LlmAt
<1>2. \A r \in Requests : LlmRow(r)
  BY <1>1, LlmChecks DEF LlmRow, LlmIdle, LlmFields
<1>3. LlmTypes
  BY <1>2 DEF LlmInit, LlmTypes
<1> QED BY Zenon, <1>1, <1>3, LlmNothingHeld DEF LlmBudget

LEMMA LlmRestartKeeps == ASSUME LlmParameters, LlmBudget, LlmRestart PROVE LlmBudget'
<1>0. LlmTypes /\ DOMAIN rq = Requests
  BY Zenon DEF LlmBudget, LlmTypes
<1>1. /\ DOMAIN rq' = Requests
      /\ \A r \in Requests : /\ rq'[r].pc \in {"new", "done"} /\ DOMAIN rq'[r] = LlmFields /\ rq'[r].i = rq[r].i
                             /\ rq'[r].read = rq[r].read /\ rq'[r].tok = rq[r].tok
                             /\ rq'[r].pc = "new" => rq[r].pc = "new"
  BY Zenon, <1>0 DEF LlmRestart, LlmTypes, LlmRow, LlmFields, LlmAt
<1>2. \A r \in Requests : ~Holding(r)'
  BY Zenon, <1>1 DEF Holding, LlmAt
<1>3. \A r \in Requests : LlmRow(r)'
  <2>1. \A r : Checks(r)' = Checks(r)
    BY Zenon DEF Checks
  <2> QED BY Zenon, <1>0, <1>1, <2>1 DEF LlmTypes, LlmRow
<1>4. /\ reserved' \in [LlmHolders \cup Providers -> Int]
      /\ \A x \in LlmHolders \cup Providers : reserved'[x] = 0
  BY <1>0 DEF LlmRestart, LlmTypes
<1>5. LlmTypes'
  BY Zenon, <1>0, <1>1, <1>3, <1>4 DEF LlmRestart, LlmTypes, LlmHolders, Providers
<1>6. LlmCovered' /\ LlmWithin'
  <2>1. \A x : LlmHolding(x)' = {} /\ LlmRunPassed(x)' = {} /\ LlmDailyPassed(x)' = {}
    BY Zenon, <1>2 DEF LlmHolding, LlmRunPassed, LlmDailyPassed
  <2>2. LlmCost({}) = 0 /\ RunLimit \in Nat /\ Daily \in Nat
    BY Zenon, LlmCosts DEF LlmParameters
  <2>3. \A x : LlmCost(LlmHolding(x))' = 0 /\ LlmCost(LlmRunPassed(x))' = 0 /\ LlmCost(LlmDailyPassed(x))' = 0
    BY Zenon, <2>1, <2>2 DEF LlmCost
  <2> QED BY <1>4, <2>2, <2>3 DEF LlmCovered, LlmWithin, LlmHolders, Providers
<1> QED BY Zenon, <1>5, <1>6 DEF LlmBudget

LEMMA LlmBudgetNext == ASSUME LlmParameters, LlmBudget, [LlmNext]_llmVars PROVE LlmBudget'
<1>1. CASE UNCHANGED llmVars
  BY <1>1 DEF llmVars, LlmBudget, LlmTypes, LlmRow, LlmCovered, LlmWithin, LlmCost, LlmHolding, LlmRunPassed,
              LlmDailyPassed, Holding, LlmAt, Checks, LlmHolders, Providers
<1>2. ASSUME NEW r \in Requests, LlmStep(r) PROVE LlmBudget'
  BY Zenon, <1>2, LlmArrives, LlmPrepareKeeps, LlmQuery, LlmDecide, LlmAdapter, LlmChat, LlmStream DEF LlmStep
<1> QED BY Zenon, <1>1, <1>2, LlmCancelKeeps, LlmStream, LlmRestartKeeps DEF LlmNext

(* Parallel requests of a run, and of a provider, are never admitted together beyond the run's and
   the day's limit, for any requests and limits and whatever is cancelled, breaks off or restarts:
   prepare reserves before _check_budgets compares, and every counter covers what is in flight. *)
THEOREM LlmAdmitted == ASSUME LlmParameters PROVE LlmSpec => []AdmittedFit
<1>1. LlmBudget => AdmittedFit
  <2> SUFFICES ASSUME LlmBudget PROVE AdmittedFit
    BY Zenon
  <2> DEFINE admitted == {r \in Requests : rq[r].pc \in {"ready", "call"}}
             ofRun(h) == {r \in admitted : Req[r].holder = h}
             ofProvider(p) == {r \in admitted : Req[r].provider = p}
  <2>1. \A x : ofRun(x) \subseteq LlmRunPassed(x) /\ ofProvider(x) \subseteq LlmDailyPassed(x)
    BY Zenon DEF LlmRunPassed, LlmDailyPassed, Holding, LlmAt
  <2>2. \A x : /\ ofRun(x) \in SUBSET Requests /\ ofProvider(x) \in SUBSET Requests
               /\ LlmRunPassed(x) \in SUBSET Requests /\ LlmDailyPassed(x) \in SUBSET Requests
    BY Zenon DEF LlmRunPassed, LlmDailyPassed
  <2> HIDE DEF ofRun, ofProvider
  <2>3. \A x : /\ Estimate(ofRun(x)) = LlmCost(ofRun(x)) /\ LlmCost(ofRun(x)) <= LlmCost(LlmRunPassed(x))
               /\ LlmCost(ofRun(x)) \in Nat /\ LlmCost(LlmRunPassed(x)) \in Nat
    BY Zenon, <2>1, <2>2, LlmCosts
  <2>4. \A x : /\ Estimate(ofProvider(x)) = LlmCost(ofProvider(x))
               /\ LlmCost(ofProvider(x)) <= LlmCost(LlmDailyPassed(x))
               /\ LlmCost(ofProvider(x)) \in Nat /\ LlmCost(LlmDailyPassed(x)) \in Nat
    BY Zenon, <2>1, <2>2, LlmCosts
  <2>5. /\ RunLimit \in Nat /\ Daily \in Nat
        /\ \A h \in LlmHolders \cap Runs : LlmCost(LlmRunPassed(h)) <= RunLimit
        /\ \A p \in Providers \cap Cloud : LlmCost(LlmDailyPassed(p)) <= Daily
    BY Zenon DEF LlmBudget, LlmWithin, LlmParameters
  <2>6. /\ \A h \in LlmHolders \cap Runs : Estimate(ofRun(h)) <= RunLimit
        /\ \A p \in Providers \cap Cloud : Estimate(ofProvider(p)) <= Daily
    BY <2>3, <2>4, <2>5
  <2> QED BY Zenon, <2>6 DEF AdmittedFit, ofRun, ofProvider
<1> QED BY <1>1, LlmBudgetInit, LlmBudgetNext, PTL DEF LlmSpec

(* Each counter is exactly what the requests in flight hold: no way out of a request forgets to
   give its tokens back or gives them back twice, as long as no stream is abandoned between its
   answer and its first chunk. *)
THEOREM LlmReserved ==
  ASSUME LlmParameters, "abandon" \notin LlmFaults PROVE LlmSpec => []ReservedIsInFlight
<1>1. LlmBudget => ReservedIsInFlight
  <2> SUFFICES ASSUME LlmBudget, NEW x \in DOMAIN reserved
               PROVE  reserved[x] = Estimate(LlmHolding(x))
    BY Zenon DEF ReservedIsInFlight, LlmHolding
  <2>1. x \in LlmHolders \cup Providers /\ LlmHolding(x) \in SUBSET Requests
    BY Zenon DEF LlmBudget, LlmTypes, LlmHolding
  <2> QED BY Zenon, <2>1, LlmCosts DEF LlmBudget, LlmCovered
<1> QED BY <1>1, LlmBudgetInit, LlmBudgetNext, PTL DEF LlmSpec

-----------------------------------------------------------------------------
(* The idempotency store.  Nothing is stored too short: no entry expires, no handler is cancelled,
   the gateway is not restarted, and there is room for every key. *)
LlmKeys == {Req[r].key : r \in Requests} \ {NoKey}
LlmLasting ==
  LlmFaults \cap {"expire", "cancel", "restart"} = {} /\ MaxEntries \in Nat /\ Cardinality(LlmKeys) <= MaxEntries

(* Requests the store keeps from running twice. *)
LlmOnce(r) == ~Req[r].stream /\ Req[r].key # NoKey

LlmEntry(e) ==
  /\ e.by \in Requests /\ e.key = Req[e.by].key /\ e.body = Req[e.by].body /\ e.streaming = Req[e.by].stream
  /\ DOMAIN e = {"key", "body", "by", "nth", "streaming", "done"}
  /\ e.key # NoKey /\ rq[e.by].pc # "new" /\ (e.done => ~e.streaming)

(* A request that works has its entry, unfinished; one that waits waits for its like; one that was
   paid for has ended and left its entry. *)
LlmServed(r) ==
  /\ Working(r) /\ LlmOnce(r) => \E e \in entries : e.by = r /\ ~e.done
  /\ rq[r].from # NoKey =>
       rq[r].from \in Requests /\ Req[rq[r].from].key = Req[r].key /\ Req[rq[r].from].body = Req[r].body
  /\ rq[r].pc = "record" /\ ~Req[r].stream => rq[r].answer \in {"ok", "final"}
  /\ LlmLasting /\ rows[r] > 0 /\ LlmOnce(r) => rq[r].pc = "done" /\ \E e \in entries : e.by = r

LlmStore ==
  /\ \A e \in entries : LlmEntry(e)
  /\ \A e, f \in entries : e.key = f.key => e = f
  /\ \A r \in Requests : LlmServed(r)

LlmInv == LlmBudget /\ LlmStore

(* What _evict leaves. *)
LEMMA LlmEvicted ==
  ASSUME NEW es \in _evict
  PROVE  /\ es \subseteq entries /\ \A e \in entries : ~e.done /\ ~e.streaming => e \in es
         /\ LlmLasting => es = entries
  BY Zenon DEF _evict, MayGo, LlmLasting

(* What _add leaves of it: an unfinished entry, and every one when there is room. *)
LEMMA LlmAdded ==
  ASSUME NEW es, NEW e, NEW new, new = _add(es, e)
  PROVE  /\ e \in new /\ new \subseteq es \cup {e} /\ \A x \in es : ~x.done => x \in new
         /\ IsFiniteSet(es) /\ MaxEntries \in Nat /\ Cardinality(es) < MaxEntries => new = es \cup {e}
<1> DEFINE over == Cardinality(es) - MaxEntries + 1
           old == {x \in es : x.done}
           older(x) == {y \in old : y.nth < x.nth}
           drop == {x \in old : Cardinality(older(x)) < over}
<1>0. new = (es \ drop) \cup {e}
  BY Zenon DEF _add
<1>1. /\ e \in new /\ new \subseteq es \cup {e} /\ \A x \in es : ~x.done => x \in new
  BY Zenon, <1>0
<1>2. ASSUME IsFiniteSet(es), MaxEntries \in Nat, Cardinality(es) < MaxEntries PROVE new = es \cup {e}
  <2>1. Cardinality(es) \in Nat
    BY Zenon, <1>2, FS_CardinalityType
  <2>2. \A x : IsFiniteSet(older(x))
    BY Zenon, <1>2, FS_Subset
  <2> HIDE DEF older
  <2>3. \A x : Cardinality(older(x)) \in Nat
    BY Zenon, <2>2, FS_CardinalityType
  <2>4. over \in Int /\ over <= 0
    BY <1>2, <2>1
  <2> HIDE DEF over
  <2>5. drop = {}
    BY <2>3, <2>4
  <2> QED BY Zenon, <1>0, <2>5
<1> QED BY Zenon, <1>1, <1>2

(* Entries have keys of their own, so there is room for one more key. *)
LEMMA LlmRoom ==
  ASSUME LlmParameters, LlmStore, LlmLasting, NEW r \in Requests, Req[r].key # NoKey, Keyed(entries, Req[r].key) = {}
  PROVE  IsFiniteSet(entries) /\ Cardinality(entries) < MaxEntries
<1> DEFINE others == LlmKeys \ {Req[r].key}
<1>1. IsFiniteSet(LlmKeys)
  <2>1. [s \in Requests |-> Req[s].key] \in Surjection(Requests, {Req[s].key : s \in Requests})
    BY Zenon DEF Surjection
  <2>2. IsFiniteSet({Req[s].key : s \in Requests})
    BY Zenon, <2>1, FS_Surjection DEF LlmParameters
  <2> QED BY Zenon, <2>2, FS_RemoveElement DEF LlmKeys
<1>2. Req[r].key \in LlmKeys
  BY Zenon DEF LlmKeys
<1>3. IsFiniteSet(others) /\ Cardinality(others) = Cardinality(LlmKeys) - 1 /\ Cardinality(LlmKeys) \in Nat
  BY Zenon, <1>1, <1>2, FS_RemoveElement, FS_CardinalityType
<1>4. PICK f : f = [e \in entries |-> e.key]
  BY ZenonT(30)
<1>5. f \in Injection(entries, others)
  <2>1. \A e \in entries : e.key \in others
    BY Zenon DEF LlmStore, LlmEntry, LlmKeys, Keyed
  <2>2. \A e, g \in entries : e.key = g.key => e = g
    BY Zenon DEF LlmStore
  <2> HIDE DEF others
  <2> QED BY Zenon, <1>4, <2>1, <2>2 DEF Injection, IsInjective
<1> HIDE DEF others
<1>6. IsFiniteSet(entries) /\ Cardinality(entries) <= Cardinality(others)
  BY Zenon, <1>3, <1>5, FS_Injection
<1>7. Cardinality(entries) \in Nat /\ MaxEntries \in Nat /\ Cardinality(LlmKeys) <= MaxEntries
  BY Zenon, <1>6, FS_CardinalityType DEF LlmLasting
<1> QED BY <1>3, <1>6, <1>7

(* A step of one request that spares the entries of the others that work. *)
LEMMA LlmSpares ==
  ASSUME LlmTypes, LlmStore, NEW r \in Requests, LlmMoved(r), rq[r].pc # "done",
         \A e \in entries' : LlmEntry(e)',
         \A e, f \in entries' : e.key = f.key => e = f,
         \A e \in entries : e.by # r /\ ~e.done /\ ~e.streaming => e \in entries',
         LlmLasting => \A e \in entries : e.by # r => e \in entries',
         \A s \in Requests \ {r} : rows'[s] = rows[s],
         Working(r)' /\ LlmOnce(r) => \E e \in entries' : e.by = r /\ ~e.done,
         rq'[r].from # NoKey =>
           rq'[r].from \in Requests /\ Req[rq'[r].from].key = Req[r].key /\ Req[rq'[r].from].body = Req[r].body,
         rq'[r].pc = "record" /\ ~Req[r].stream => rq'[r].answer \in {"ok", "final"},
         LlmLasting /\ LlmOnce(r) =>
           rows'[r] = rows[r] \/ (rq'[r].pc = "done" /\ \E e \in entries' : e.by = r)
  PROVE  LlmStore'
<1>1. ASSUME NEW s \in Requests \ {r} PROVE LlmServed(s)'
  <2>1. rq'[s] = rq[s] /\ rows'[s] = rows[s] /\ LlmServed(s)
    BY Zenon DEF LlmMoved, LlmStore
  <2>2. Working(s)' /\ LlmOnce(s) => \E e \in entries' : e.by = s /\ ~e.done
    <3> SUFFICES ASSUME Working(s)', LlmOnce(s) PROVE \E e \in entries' : e.by = s /\ ~e.done
      BY Zenon
    <3>1. PICK e \in entries : e.by = s /\ ~e.done
      BY Zenon, <2>1 DEF LlmServed, Working
    <3>2. ~e.streaming
      BY Zenon, <3>1 DEF LlmStore, LlmEntry, LlmOnce
    <3> QED BY Zenon, <3>1, <3>2
  <2>3. LlmLasting /\ rows'[s] > 0 /\ LlmOnce(s) => rq'[s].pc = "done" /\ \E e \in entries' : e.by = s
    BY ZenonT(30), <2>1 DEF LlmServed
  <2> QED BY Zenon, <2>1, <2>2, <2>3 DEF LlmServed, LlmOnce, LlmLasting, LlmKeys
<1>2. LlmServed(r)'
  <2>1. LlmLasting /\ rows[r] > 0 /\ LlmOnce(r) => FALSE
    BY Zenon DEF LlmStore, LlmServed
  <2> QED BY ZenonT(30), <2>1 DEF LlmServed, LlmOnce, LlmLasting, LlmKeys
<1> QED BY Zenon, <1>1, <1>2 DEF LlmStore

(* A handler that goes on, its entry untouched. *)
LEMMA LlmContinues ==
  ASSUME LlmTypes, LlmStore, NEW r \in Requests, LlmMoved(r), rq[r].pc # "done", UNCHANGED entries,
         \A s \in Requests \ {r} : rows'[s] = rows[s], rows'[r] = rows[r] \/ Req[r].stream,
         rq'[r].from = rq[r].from, rq'[r].pc # "new",
         Working(r)' /\ LlmOnce(r) => Working(r),
         rq'[r].pc = "record" /\ ~Req[r].stream => rq'[r].answer \in {"ok", "final"}
  PROVE  LlmStore'
<1>1. LlmServed(r) /\ (\A e \in entries : LlmEntry(e)) /\ \A e, f \in entries : e.key = f.key => e = f
  BY Zenon DEF LlmStore
<1>2. \A e \in entries' : LlmEntry(e)'
  BY Zenon, <1>1 DEF LlmEntry, LlmMoved
<1>3. Working(r)' /\ LlmOnce(r) => \E e \in entries' : e.by = r /\ ~e.done
  BY Zenon, <1>1 DEF LlmServed
<1>4. rq'[r].from # NoKey =>
        rq'[r].from \in Requests /\ Req[rq'[r].from].key = Req[r].key /\ Req[rq'[r].from].body = Req[r].body
  BY Zenon, <1>1 DEF LlmServed
<1> QED BY ZenonT(30), <1>1, <1>2, <1>3, <1>4, LlmSpares DEF LlmOnce

(* A handler that ends: its entry is marked or forgotten. *)
LEMMA LlmSettled ==
  ASSUME LlmTypes, LlmStore, NEW r \in Requests, NEW a, Settle(r, a), rq[r].pc \notin {"new", "done"},
         \A s \in Requests \ {r} : rows'[s] = rows[s],
         LlmLasting /\ LlmOnce(r) => rows'[r] = rows[r] \/ (a \in {"ok", "final"} /\ Working(r))
  PROVE  LlmStore'
<1>0. /\ LlmServed(r) /\ (\A e \in entries : LlmEntry(e)) /\ \A e, f \in entries : e.key = f.key => e = f
  BY Zenon DEF LlmStore
<1>1. LlmMoved(r) /\ rq'[r].pc = "done" /\ rq'[r].from = rq[r].from
  BY Zenon, LlmSettles DEF LlmGoes
<1>2. CASE a \in {"ok", "final"} /\ ~Req[r].stream
  <2> DEFINE mark(e) == IF e.by = r THEN [e EXCEPT !.done = TRUE] ELSE e
  <2>1. entries' = {mark(e) : e \in entries}
    BY Zenon, <1>2 DEF Settle
  <2>2. ASSUME NEW e \in entries
        PROVE  /\ mark(e).by = e.by /\ mark(e).key = e.key /\ mark(e).body = e.body /\ DOMAIN mark(e) = DOMAIN e
               /\ mark(e).streaming = e.streaming /\ (e.by # r => mark(e) = e)
               /\ mark(e).done => e.done \/ e.by = r
    BY Zenon, <1>0 DEF LlmEntry
  <2> HIDE DEF mark
  <2>3. \A e \in entries' : LlmEntry(e)'
    BY <1>0, <1>1, <1>2, <2>1, <2>2 DEF LlmEntry, LlmMoved
  <2>4. \A e, f \in entries' : e.key = f.key => e = f
    BY <1>0, <2>1, <2>2
  <2>5. \A e \in entries : e.by # r => e \in entries'
    BY <2>1, <2>2
  <2>6. Working(r) /\ LlmOnce(r) => \E e \in entries' : e.by = r
    BY <1>0, <2>1, <2>2 DEF LlmServed
  <2>7. ~Working(r)'
    BY Zenon, <1>1 DEF Working
  <2> QED BY Zenon, <1>0, <1>1, <2>3, <2>4, <2>5, <2>6, <2>7, LlmSpares DEF LlmServed
<1>3. CASE ~(a \in {"ok", "final"} /\ ~Req[r].stream)
  <2>1. entries' = {e \in entries : e.by # r}
    BY Zenon, <1>3 DEF Settle, _forget
  <2>2. \A e \in entries' : LlmEntry(e)'
    BY <1>0, <1>1, <2>1 DEF LlmEntry, LlmMoved
  <2>3. ~Working(r)'
    BY Zenon, <1>1 DEF Working
  <2>4. LlmLasting /\ LlmOnce(r) => rows'[r] = rows[r]
    BY Zenon, <1>3 DEF LlmOnce
  <2> QED BY Zenon, <1>0, <1>1, <2>1, <2>2, <2>3, <2>4, LlmSpares DEF LlmServed
<1> QED BY Zenon, <1>2, <1>3

(* A request that finds its key in use, or a stored result beside which a stream runs. *)
LEMMA LlmFinds ==
  ASSUME LlmTypes, LlmStore, NEW r \in Requests, LlmMoved(r), rq[r].pc = "new", entries' \in _evict,
         UNCHANGED rows, rq'[r].pc \in {"done", "wait"} \/ (rq'[r].pc = "resolve" /\ Req[r].stream),
         \/ rq'[r].from = rq[r].from
         \/ \E e \in entries' : e.key = Req[r].key /\ Same(e, r) /\ rq'[r].from = e.by
  PROVE  LlmStore'
<1>0. /\ LlmServed(r) /\ (\A e \in entries : LlmEntry(e)) /\ \A e, f \in entries : e.key = f.key => e = f
  BY Zenon DEF LlmStore
<1>1. PICK es \in _evict : es = entries'
  BY Zenon
<1>2. /\ es \subseteq entries /\ (\A e \in entries : ~e.done /\ ~e.streaming => e \in es)
      /\ LlmLasting => es = entries
  BY Zenon, LlmEvicted
<1>3. \A e \in entries' : LlmEntry(e)'
  BY <1>0, <1>1, <1>2 DEF LlmEntry, LlmMoved
<1>4. rq'[r].from # NoKey =>
        rq'[r].from \in Requests /\ Req[rq'[r].from].key = Req[r].key /\ Req[rq'[r].from].body = Req[r].body
  BY <1>0, <1>1, <1>2 DEF LlmServed, LlmEntry, Same
<1>5. Working(r)' /\ LlmOnce(r) => FALSE
  BY Zenon DEF Working, LlmOnce
<1> QED BY ZenonT(30), <1>0, <1>1, <1>2, <1>3, <1>4, <1>5, LlmSpares

(* A request that takes its key. *)
LEMMA LlmClaims ==
  ASSUME LlmParameters, LlmTypes, LlmStore, NEW r \in Requests, LlmGoes(r, "resolve"), rq'[r].from = rq[r].from,
         rq[r].pc = "new", UNCHANGED rows, Req[r].key # NoKey, NEW es \in _evict,
         Keyed(es, Req[r].key) = {}, entries' = _add(es, Entry(r))
  PROVE  LlmStore'
<1>0. /\ LlmServed(r) /\ (\A e \in entries : LlmEntry(e)) /\ \A e, f \in entries : e.key = f.key => e = f
  BY Zenon DEF LlmStore
<1>1. /\ es \subseteq entries /\ (\A e \in entries : ~e.done /\ ~e.streaming => e \in es)
      /\ LlmLasting => es = entries
  BY Zenon, LlmEvicted
<1>2. PICK new : new = entries'
  BY Zenon
<1>3. PICK mine : mine = Entry(r)
  BY Zenon
<1>4. /\ mine.by = r /\ mine.key = Req[r].key /\ mine.body = Req[r].body /\ mine.streaming = Req[r].stream /\ ~mine.done
      /\ DOMAIN mine = {"key", "body", "by", "nth", "streaming", "done"}
  BY Zenon, <1>3 DEF Entry
<1>5. /\ mine \in new /\ new \subseteq es \cup {mine} /\ \A x \in es : ~x.done => x \in new
      /\ IsFiniteSet(es) /\ MaxEntries \in Nat /\ Cardinality(es) < MaxEntries => new = es \cup {mine}
  BY <1>2, <1>3, LlmAdded
<1>6. LlmLasting => new = es \cup {mine}
  BY Zenon, <1>1, <1>5, LlmRoom DEF LlmLasting
<1>7. LlmMoved(r) /\ rq'[r].pc = "resolve"
  BY Zenon DEF LlmGoes
<1>8. \A e \in new : LlmEntry(e)'
  BY ZenonT(30), <1>0, <1>1, <1>4, <1>5, <1>7 DEF LlmEntry, LlmMoved
<1>9. \A e, f \in new : e.key = f.key => e = f
  BY Zenon, <1>0, <1>1, <1>4, <1>5 DEF Keyed
<1> QED BY ZenonT(30), <1>0, <1>1, <1>2, <1>4, <1>5, <1>6, <1>7, <1>8, <1>9, LlmSpares DEF LlmServed

LEMMA LlmStoreArrives ==
  ASSUME LlmParameters, LlmInv, NEW r \in Requests,
         RunKeyed(r) \/ ClaimStream(r) \/ Unkeyed(r) \/ Replay(r)
  PROVE  LlmStore'
<1>0. LlmTypes /\ LlmStore /\ DOMAIN rq = Requests /\ DOMAIN rq[r] = LlmFields
  BY Zenon DEF LlmInv, LlmBudget, LlmTypes, LlmRow
<1>1. CASE RunKeyed(r)
  <2>0. rq[r].pc = "new" /\ Req[r].key # NoKey /\ UNCHANGED rows
    BY Zenon, <1>1 DEF RunKeyed, LlmAt
  <2>1. PICK es \in _evict :
          \/ Keyed(es, Req[r].key) = {} /\ entries' = _add(es, Entry(r)) /\ LlmGoto(r, "resolve")
          \/ /\ entries' = es
             /\ \/ \E a : LlmAnswer(r, a)
                \/ \E e \in Keyed(es, Req[r].key) :
                     Same(e, r) /\ rq' = [rq EXCEPT ![r].pc = "wait", ![r].from = e.by]
    BY Zenon, <1>1 DEF RunKeyed
  <2>2. CASE Keyed(es, Req[r].key) = {} /\ entries' = _add(es, Entry(r)) /\ LlmGoto(r, "resolve")
    BY Zenon, <1>0, <2>0, <2>2, LlmMoves, LlmClaims
  <2>3. CASE entries' = es /\ \E a : LlmAnswer(r, a)
    <3>1. LlmMoved(r) /\ rq'[r].pc = "done" /\ rq'[r].from = rq[r].from
      BY Zenon, <1>0, <2>3, LlmMoves DEF LlmGoes
    <3> QED BY Zenon, <1>0, <2>0, <2>3, <3>1, LlmFinds
  <2>4. ASSUME entries' = es, NEW e \in Keyed(es, Req[r].key), Same(e, r),
               rq' = [rq EXCEPT ![r].pc = "wait", ![r].from = e.by]
        PROVE  LlmStore'
    <3>1. LlmMoved(r) /\ rq'[r].pc = "wait" /\ rq'[r].from = e.by
      BY Zenon, <1>0, <2>4 DEF LlmMoved, LlmFields
    <3>2. e \in entries' /\ e.key = Req[r].key
      BY Zenon, <2>4 DEF Keyed
    <3> QED BY Zenon, <1>0, <2>0, <2>4, <3>1, <3>2, LlmFinds
  <2> QED BY Zenon, <2>1, <2>2, <2>3, <2>4
<1>2. CASE ClaimStream(r)
  <2>0. rq[r].pc = "new" /\ Req[r].key # NoKey /\ Req[r].stream /\ UNCHANGED rows
    BY Zenon, <1>2 DEF ClaimStream, LlmAt
  <2>1. PICK es \in _evict :
          \/ Keyed(es, Req[r].key) = {} /\ entries' = _add(es, Entry(r)) /\ LlmGoto(r, "resolve")
          \/ entries' = es /\ (LlmGoto(r, "resolve") \/ \E a : LlmAnswer(r, a))
    BY Zenon, <1>2 DEF ClaimStream
  <2>2. CASE Keyed(es, Req[r].key) = {} /\ entries' = _add(es, Entry(r)) /\ LlmGoto(r, "resolve")
    BY Zenon, <1>0, <2>0, <2>2, LlmMoves, LlmClaims
  <2>3. CASE entries' = es /\ (LlmGoto(r, "resolve") \/ \E a : LlmAnswer(r, a))
    <3>1. LlmMoved(r) /\ rq'[r].pc \in {"done", "resolve"} /\ rq'[r].from = rq[r].from
      BY Zenon, <1>0, <2>3, LlmMoves DEF LlmGoes
    <3> QED BY Zenon, <1>0, <2>0, <2>3, <3>1, LlmFinds
  <2> QED BY Zenon, <2>1, <2>2, <2>3
<1>3. CASE Unkeyed(r)
  <2>1. rq[r].pc = "new" /\ Req[r].key = NoKey /\ LlmGoto(r, "resolve") /\ UNCHANGED <<entries, rows>>
    BY Zenon, <1>3 DEF Unkeyed, LlmAt
  <2>2. LlmMoved(r) /\ rq'[r].pc = "resolve" /\ rq'[r].from = rq[r].from
    BY Zenon, <1>0, <2>1, LlmMoves DEF LlmGoes
  <2> QED BY Zenon, <1>0, <2>1, <2>2, LlmContinues DEF LlmOnce
<1>4. CASE Replay(r)
  <2>1. rq[r].pc = "wait" /\ (\E a : LlmAnswer(r, a)) /\ UNCHANGED <<entries, rows>>
    BY Zenon, <1>4 DEF Replay, LlmAt
  <2>2. LlmMoved(r) /\ rq'[r].pc = "done" /\ rq'[r].from = rq[r].from
    BY Zenon, <1>0, <2>1, LlmMoves DEF LlmGoes
  <2> QED BY Zenon, <1>0, <2>1, <2>2, LlmContinues DEF Working
<1> QED BY Zenon, <1>1, <1>2, <1>3, <1>4

LEMMA LlmStoreChecks ==
  ASSUME LlmInv, NEW r \in Requests, LlmPrepare(r) \/ Query(r) \/ Decide(r) \/ Adapter(r)
  PROVE  LlmStore'
<1>0. /\ LlmTypes /\ LlmStore /\ DOMAIN rq = Requests /\ DOMAIN rq[r] = LlmFields /\ UNCHANGED rows
      /\ rq[r].pc \in {"resolve", "check"} /\ Working(r)
  BY Zenon DEF LlmInv, LlmBudget, LlmTypes, LlmRow, LlmPrepare, Query, Decide, Adapter, LlmAt, Working
<1>1. CASE Settle(r, "error")
  BY Zenon, <1>0, <1>1, LlmSettled
<1>2. \/ Settle(r, "error")
      \/ /\ UNCHANGED entries
         /\ \/ \E to \in {"check", "ready", "call"} : LlmGoto(r, to)
            \/ \E n : rq' = [rq EXCEPT ![r].read = n]
            \/ rq' = [rq EXCEPT ![r].i = @ + 1, ![r].read = -1]
  BY Zenon DEF LlmPrepare, Query, Decide, Adapter
<1>3. ASSUME UNCHANGED entries, NEW to \in {"check", "ready", "call"}, LlmGoto(r, to) PROVE LlmStore'
  <2>1. LlmMoved(r) /\ rq'[r].pc = to /\ rq'[r].from = rq[r].from
    BY Zenon, <1>0, <1>3, LlmMoves DEF LlmGoes
  <2> QED BY Zenon, <1>0, <1>3, <2>1, LlmContinues
<1>4. ASSUME UNCHANGED entries, NEW n, rq' = [rq EXCEPT ![r].read = n] PROVE LlmStore'
  <2>1. LlmMoved(r) /\ rq'[r].pc = rq[r].pc /\ rq'[r].from = rq[r].from
    BY Zenon, <1>0, <1>4 DEF LlmMoved, LlmFields
  <2> QED BY Zenon, <1>0, <1>4, <2>1, LlmContinues
<1>5. ASSUME UNCHANGED entries, rq' = [rq EXCEPT ![r].i = @ + 1, ![r].read = -1] PROVE LlmStore'
  <2>1. LlmMoved(r) /\ rq'[r].pc = rq[r].pc /\ rq'[r].from = rq[r].from
    BY Zenon, <1>0, <1>5 DEF LlmMoved, LlmFields
  <2> QED BY Zenon, <1>0, <1>5, <2>1, LlmContinues
<1> QED BY Zenon, <1>1, <1>2, <1>3, <1>4, <1>5

LEMMA LlmStoreChat ==
  ASSUME LlmInv, NEW r \in Requests, ChatReturns(r) \/ ChatFails(r) \/ ChatRecords(r)
  PROVE  LlmStore'
<1>0. /\ LlmTypes /\ LlmStore /\ LlmServed(r) /\ DOMAIN rq = Requests /\ DOMAIN rq[r] = LlmFields /\ DOMAIN rows = Requests
      /\ rq[r].pc \in {"call", "record"} /\ Working(r) /\ ~Req[r].stream
  BY Zenon DEF LlmInv, LlmBudget, LlmTypes, LlmRow, LlmStore, ChatReturns, ChatFails, ChatRecords,
         LlmAt, Working
<1>1. CASE ChatReturns(r)
  <2>1. PICK t \in 0 .. Req[r].est, a \in {"ok", "final"} :
          rq' = [rq EXCEPT ![r].pc = "record", ![r].tok = t, ![r].answer = a]
    BY Zenon, <1>1 DEF ChatReturns
  <2>2. LlmMoved(r) /\ rq'[r].pc = "record" /\ rq'[r].from = rq[r].from /\ rq'[r].answer = a
    BY Zenon, <1>0, <2>1 DEF LlmMoved, LlmFields
  <2>3. UNCHANGED <<entries, rows>>
    BY ZenonT(30), <1>1 DEF ChatReturns
  <2> QED BY Zenon, <1>0, <2>2, <2>3, LlmContinues
<1>2. CASE ChatFails(r)
  <2>1. Settle(r, "error") /\ UNCHANGED rows
    BY Zenon, <1>2 DEF ChatFails
  <2> QED BY Zenon, <1>0, <2>1, LlmSettled
<1>3. CASE ChatRecords(r)
  <2>1. Settle(r, rq[r].answer) /\ rq[r].pc = "record" /\ rows' = [rows EXCEPT ![r] = @ + 1]
    BY Zenon, <1>3 DEF ChatRecords, _record, LlmAt
  <2>2. rq[r].answer \in {"ok", "final"} /\ \A s \in Requests \ {r} : rows'[s] = rows[s]
    BY Zenon, <1>0, <2>1 DEF LlmServed
  <2> QED BY Zenon, <1>0, <2>1, <2>2, LlmSettled
<1> QED BY Zenon, <1>1, <1>2, <1>3

LEMMA LlmStoreStream ==
  ASSUME LlmInv, NEW r \in Requests,
         \/ StreamBegins(r) \/ StreamReturns(r) \/ StreamRecords(r)
         \/ StreamEnds(r) \/ StreamBreaks(r) \/ Abandon(r)
  PROVE  LlmStore'
<1>0. /\ LlmTypes /\ LlmStore /\ DOMAIN rq = Requests /\ DOMAIN rq[r] = LlmFields /\ DOMAIN rows = Requests
      /\ rq[r].pc \notin {"new", "done"} /\ Working(r)
  BY Zenon DEF LlmInv, LlmBudget, LlmTypes, LlmRow, StreamBegins, StreamReturns, StreamRecords,
         StreamEnds, StreamBreaks, Abandon, LlmAt, Working
<1>1. (\A s \in Requests \ {r} : rows'[s] = rows[s]) /\ (rows'[r] = rows[r] \/ Req[r].stream)
  BY Zenon, <1>0 DEF StreamBegins, StreamReturns, StreamRecords, StreamEnds, StreamBreaks,
              Abandon, _record
<1>2. \/ \E a : Settle(r, a)
      \/ /\ UNCHANGED entries
         /\ \/ \E to \in {"call", "sent"} : LlmGoto(r, to)
            \/ \E a : LlmAnswer(r, a)
            \/ Req[r].stream /\ \E t : rq' = [rq EXCEPT ![r].pc = "record", ![r].tok = t]
  BY Zenon DEF StreamBegins, StreamReturns, StreamRecords, StreamEnds, StreamBreaks, Abandon
<1>3. ASSUME NEW a, Settle(r, a) PROVE LlmStore'
  BY Zenon, <1>0, <1>1, <1>3, LlmSettled DEF LlmOnce
<1>4. ASSUME \/ \E to \in {"call", "sent"} : LlmGoto(r, to)
             \/ \E a : LlmAnswer(r, a)
             \/ Req[r].stream /\ \E t : rq' = [rq EXCEPT ![r].pc = "record", ![r].tok = t]
      PROVE  LlmMoved(r) /\ rq'[r].pc # "new" /\ rq'[r].from = rq[r].from
             /\ (rq'[r].pc = "record" => Req[r].stream)
  <2>1. ASSUME NEW t, rq' = [rq EXCEPT ![r].pc = "record", ![r].tok = t]
        PROVE  LlmMoved(r) /\ rq'[r].pc # "new" /\ rq'[r].from = rq[r].from
    BY Zenon, <1>0, <2>1 DEF LlmMoved, LlmFields
  <2> QED BY Zenon, <1>0, <1>4, <2>1, LlmMoves DEF LlmGoes
<1>5. ASSUME UNCHANGED entries,
             LlmMoved(r) /\ rq'[r].pc # "new" /\ rq'[r].from = rq[r].from /\ (rq'[r].pc = "record" => Req[r].stream)
      PROVE  LlmStore'
  BY Zenon, <1>0, <1>1, <1>5, LlmContinues
<1> QED BY Zenon, <1>2, <1>3, <1>4, <1>5

LEMMA LlmStoreCancel == ASSUME LlmInv, NEW r \in Requests, LlmCancel(r) PROVE LlmStore'
<1>0. /\ LlmTypes /\ LlmStore /\ DOMAIN rows = Requests /\ rq[r].pc \notin {"new", "done"} /\ ~LlmLasting
      /\ rq[r].pc = "wait" => ~LlmAt(r, "record")
  BY Zenon DEF LlmInv, LlmBudget, LlmTypes, LlmCancel, LlmAt, LlmLasting
<1>1. \A s \in Requests \ {r} : rows'[s] = rows[s]
  BY Zenon, <1>0 DEF LlmCancel, _record
<1>2. CASE Settle(r, "lost")
  BY Zenon, <1>0, <1>1, <1>2, LlmSettled
<1>3. CASE rq[r].pc = "wait" /\ LlmAnswer(r, "cancelled") /\ UNCHANGED <<entries, rows>>
  <2>1. LlmMoved(r) /\ rq'[r].pc = "done" /\ rq'[r].from = rq[r].from
    BY Zenon, <1>0, <1>3, LlmMoves DEF LlmGoes
  <2> QED BY Zenon, <1>0, <1>1, <1>3, <2>1, LlmContinues DEF Working
<1> QED BY Zenon, <1>0, <1>2, <1>3 DEF LlmCancel, LlmAt

LEMMA LlmStoreRestart == ASSUME LlmInv, LlmRestart PROVE LlmStore'
<1>1. /\ entries' = {} /\ ~LlmLasting
      /\ \A r \in Requests : rq'[r].pc \in {"new", "done"} /\ rq'[r].from = rq[r].from
  BY Zenon DEF LlmInv, LlmBudget, LlmTypes, LlmRow, LlmFields, LlmRestart, LlmLasting, LlmAt
<1>2. ASSUME NEW r \in Requests PROVE LlmServed(r)'
  <2>1. LlmServed(r) /\ rq'[r].pc \in {"new", "done"} /\ rq'[r].from = rq[r].from /\ ~Working(r)'
    BY Zenon, <1>1 DEF LlmInv, LlmStore, Working
  <2>2. ~LlmLasting'
    BY Zenon, <1>1 DEF LlmLasting, LlmKeys
  <2> QED BY Zenon, <2>1, <2>2 DEF LlmServed
<1> QED BY Zenon, <1>1, <1>2 DEF LlmStore

LEMMA LlmInvInit == ASSUME LlmParameters, LlmInit PROVE LlmInv
<1>1. \A r \in Requests : rq[r].pc = "new" /\ rq[r].from = NoKey /\ rows[r] = 0
  BY Zenon DEF LlmInit, LlmIdle
<1>2. \A r \in Requests : LlmServed(r)
  BY <1>1 DEF LlmServed, Working
<1> QED BY Zenon, <1>2, LlmBudgetInit DEF LlmInv, LlmStore, LlmInit

LEMMA LlmInvNext == ASSUME LlmParameters, LlmInv, [LlmNext]_llmVars PROVE LlmInv'
<1>0. LlmBudget /\ LlmStore
  BY Zenon DEF LlmInv
<1>1. CASE UNCHANGED llmVars
  <2>1. UNCHANGED <<rq, entries, rows>>
    BY Zenon, <1>1 DEF llmVars
  <2>2. LlmStore'
    BY ZenonT(30), <1>0, <2>1 DEF LlmStore, LlmEntry, LlmServed, LlmLasting, LlmKeys, LlmOnce, Working
  <2> QED BY Zenon, <1>0, <1>1, <2>2, LlmBudgetNext DEF LlmInv
<1>2. ASSUME NEW r \in Requests, LlmStep(r) PROVE LlmStore'
  <2>1. CASE \/ StreamBegins(r) \/ StreamReturns(r) \/ StreamRecords(r)
             \/ StreamEnds(r) \/ StreamBreaks(r)
    BY Zenon, <2>1, LlmStoreStream
  <2> QED BY Zenon, <1>2, <2>1, LlmStoreArrives, LlmStoreChecks, LlmStoreChat DEF LlmStep
<1> QED BY Zenon, <1>0, <1>1, <1>2, LlmBudgetNext, LlmStoreCancel, LlmStoreStream, LlmStoreRestart DEF LlmNext, LlmInv

(* However requests with one key, their retries, cancellations and restarts interleave, one of them
   works at a time: IdempotencyStore.run takes the key before its first await, and neither _evict
   nor the room made for another key drops an entry whose request still runs. *)
THEOREM LlmOneWorks == ASSUME LlmParameters PROVE LlmSpec => []OneWorksPerKey
<1>1. LlmInv => OneWorksPerKey
  BY DEF LlmInv, LlmStore, LlmServed, LlmEntry, LlmOnce, OneWorksPerKey
<1> QED BY <1>1, LlmInvInit, LlmInvNext, PTL DEF LlmSpec

(* As long as what run has stored lasts (LlmLasting), a provider's result is paid for once per key,
   and every replayed answer is that of a request with the same key and body. *)
THEOREM LlmPaidOnce == ASSUME LlmParameters, LlmLasting PROVE LlmSpec => []PaidOnce
<1>1. LlmInv => PaidOnce
  <2> SUFFICES ASSUME LlmInv, NEW r \in Requests, NEW s \in Requests
               PROVE  /\ rq[r].from = s => Req[r].key = Req[s].key /\ Req[r].body = Req[s].body
                      /\ rows[r] > 0 /\ rows[s] > 0 /\ r # s /\ Req[r].key = Req[s].key
                           /\ Req[r].key # NoKey => Req[r].stream \/ Req[s].stream
    BY Zenon DEF PaidOnce
  <2>1. LlmServed(r) /\ LlmServed(s) /\ NoKey \notin Requests
    BY Zenon DEF LlmInv, LlmStore, LlmParameters
  <2>2. \A e, f \in entries : Req[e.by].key = Req[f.by].key => e = f
    BY DEF LlmInv, LlmStore, LlmEntry
  <2> QED BY Zenon, <2>1, <2>2 DEF LlmServed, LlmOnce
<1> QED BY <1>1, LlmInvInit, LlmInvNext, PTL DEF LlmSpec
=============================================================================
