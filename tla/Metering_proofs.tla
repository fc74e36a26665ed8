--------------------------- MODULE Metering_proofs ---------------------------
(***************************************************************************)
(* The overshoot bounds of Metering, for any number of requests and calls, *)
(* any plans and any limits.  A request that has passed its check and not  *)
(* yet recorded its use is a claim on the quota; recorded uses and claims  *)
(* together stay within the bound: a check that passes sees less than the  *)
(* limit, and beside it there are no more claims than other requests.      *)
(* The same holds of the money: what calls under way will still cost is    *)
(* claimed from the budget.  Last, the window of OrgRateLimiter.           *)
(***************************************************************************)
EXTENDS Metering, OrgRateLimiter, FiniteSetTheorems, TLAPS

RequestRecords == [at : {"idle", "planned", "admitted", "created"},
                   quota : Quotas, limit : Int]
CallRecords == [at : {"idle", "asked", "answered"}, cost : 0 .. MaxCost]

(* Requests and calls past their check, and executions not yet metered. *)
Claims(k) == {q \in Requests : request[q].at \in {"admitted", "created"} /\ request[q].quota = k}
Created == {q \in Requests : request[q].at = "created"}
Asked == {c \in Calls : call[c].at # "idle"}

ClaimOf(r, k) == IF r.at \in {"admitted", "created"} /\ r.quota = k THEN 1 ELSE 0
CreatedOf(r) == IF r.at = "created" THEN 1 ELSE 0
AskedOf(r) == IF r.at # "idle" THEN 1 ELSE 0

LimitsAreRead ==
  \A q \in Requests : request[q].at # "idle" =>
    \A n \in Highest(request[q].quota) : 0 <= request[q].limit /\ request[q].limit <= n

(* A limit of zero admits nobody, not even when a month begins. *)
ClaimantsHadRoom ==
  \A q \in Requests : request[q].at \in {"admitted", "created"} => request[q].limit # 0

CreatedAreExecutions ==
  \A q \in Requests : request[q].at = "created" => request[q].quota = "executions"

ClaimsFit ==
  \A k \in Quotas : \A n \in Highest(k) :
    used[k] + Cardinality(Claims(k)) <= n + Cardinality(Requests) - 1

LaunchesAreClaimed ==
  launched <= used["executions"] + Cardinality(Created) + unmetered

SpendFits ==
  Cap > 0 =>
    spent + Cardinality(Asked) * MaxCost <= Cap - 1 + Cardinality(Calls) * MaxCost

IInv ==
  /\ TypeOK
  /\ LimitsAreRead
  /\ ClaimantsHadRoom
  /\ CreatedAreExecutions
  /\ ClaimsFit
  /\ LaunchesAreClaimed
  /\ SpendFits

-----------------------------------------------------------------------------
LEMMA HighestIsNat ==
  ASSUME NEW k \in Quotas, NEW n \in Highest(k)
  PROVE  n \in Nat
BY MeteringAssumption DEF Highest

(* How the number of members changes when x is put in or taken out. *)
LEMMA OneMoves ==
  ASSUME NEW S, IsFiniteSet(S), NEW T \in SUBSET S, NEW U \in SUBSET S, NEW x \in S,
         T \ {x} = U \ {x}
  PROVE  /\ Cardinality(T) \in Nat /\ Cardinality(U) \in Nat
         /\ Cardinality(T) <= Cardinality(S) /\ Cardinality(U) <= Cardinality(S)
         /\ Cardinality(S) \in Nat
         /\ Cardinality(U) = Cardinality(T) + (IF x \in U THEN 1 ELSE 0)
                                            - (IF x \in T THEN 1 ELSE 0)
<1>1. IsFiniteSet(T) /\ IsFiniteSet(U)
      /\ Cardinality(T) <= Cardinality(S) /\ Cardinality(U) <= Cardinality(S)
  BY FS_Subset
<1>2. Cardinality(T) \in Nat /\ Cardinality(U) \in Nat /\ Cardinality(S) \in Nat
  BY <1>1, FS_CardinalityType
<1>3. Cardinality(T \ {x}) = IF x \in T THEN Cardinality(T) - 1 ELSE Cardinality(T)
  BY <1>1, FS_RemoveElement
<1>4. Cardinality(U \ {x}) = IF x \in U THEN Cardinality(U) - 1 ELSE Cardinality(U)
  BY <1>1, FS_RemoveElement
<1>5. Cardinality(T \ {x}) = Cardinality(U \ {x})
  OBVIOUS
<1>6. CASE x \in T
  <2>1. CASE x \in U BY <1>1, <1>2, <1>3, <1>4, <1>5, <1>6, <2>1
  <2>2. CASE x \notin U BY <1>1, <1>2, <1>3, <1>4, <1>5, <1>6, <2>2
  <2> QED BY <2>1, <2>2
<1>7. CASE x \notin T
  <2>1. CASE x \in U BY <1>1, <1>2, <1>3, <1>4, <1>5, <1>7, <2>1
  <2>2. CASE x \notin U BY <1>1, <1>2, <1>3, <1>4, <1>5, <1>7, <2>2
  <2> QED BY <2>1, <2>2
<1> QED BY <1>6, <1>7

(* One request changes its state: what that does to the counts. *)
LEMMA RequestMoves ==
  ASSUME TypeOK, NEW q \in Requests, NEW r \in RequestRecords,
         request' = [request EXCEPT ![q] = r], NEW k \in Quotas
  PROVE  /\ Cardinality(Claims(k)) \in Nat /\ Cardinality(Claims(k))' \in Nat
         /\ Cardinality(Claims(k))' <= Cardinality(Requests)
         /\ Cardinality(Requests) \in Nat
         /\ Cardinality(Claims(k))' =
              Cardinality(Claims(k)) + ClaimOf(r, k) - ClaimOf(request[q], k)
         /\ Cardinality(Created) \in Nat /\ Cardinality(Created)' \in Nat
         /\ Cardinality(Created)' =
              Cardinality(Created) + CreatedOf(r) - CreatedOf(request[q])
<1>1. Claims(k) \in SUBSET Requests /\ Claims(k)' \in SUBSET Requests
      /\ Claims(k) \ {q} = Claims(k)' \ {q}
      /\ (q \in Claims(k) <=> ClaimOf(request[q], k) = 1)
      /\ (q \in Claims(k)' <=> ClaimOf(r, k) = 1)
  BY DEF TypeOK, Claims, ClaimOf
<1>2. Created \in SUBSET Requests /\ Created' \in SUBSET Requests
      /\ Created \ {q} = Created' \ {q}
      /\ (q \in Created <=> CreatedOf(request[q]) = 1)
      /\ (q \in Created' <=> CreatedOf(r) = 1)
  BY DEF TypeOK, Created, CreatedOf
<1>3. IsFiniteSet(Requests)
  BY MeteringAssumption
<1>4. /\ Cardinality(Claims(k)) \in Nat /\ Cardinality(Claims(k)') \in Nat
      /\ Cardinality(Claims(k)') <= Cardinality(Requests)
      /\ Cardinality(Requests) \in Nat
      /\ Cardinality(Claims(k)') = Cardinality(Claims(k))
           + (IF q \in Claims(k)' THEN 1 ELSE 0) - (IF q \in Claims(k) THEN 1 ELSE 0)
  BY <1>1, <1>3, OneMoves
<1>5. /\ Cardinality(Created) \in Nat /\ Cardinality(Created') \in Nat
      /\ Cardinality(Created') = Cardinality(Created)
           + (IF q \in Created' THEN 1 ELSE 0) - (IF q \in Created THEN 1 ELSE 0)
  BY <1>2, <1>3, OneMoves
<1> QED BY <1>1, <1>2, <1>4, <1>5 DEF ClaimOf, CreatedOf

LEMMA CallMoves ==
  ASSUME TypeOK, NEW c \in Calls, NEW r \in CallRecords,
         call' = [call EXCEPT ![c] = r]
  PROVE  /\ Cardinality(Asked) \in Nat /\ Cardinality(Asked)' \in Nat
         /\ Cardinality(Asked)' <= Cardinality(Calls)
         /\ Cardinality(Calls) \in Nat
         /\ Cardinality(Asked)' = Cardinality(Asked) + AskedOf(r) - AskedOf(call[c])
<1>1. Asked \in SUBSET Calls /\ Asked' \in SUBSET Calls
      /\ Asked \ {c} = Asked' \ {c}
      /\ (c \in Asked <=> AskedOf(call[c]) = 1)
      /\ (c \in Asked' <=> AskedOf(r) = 1)
  BY DEF TypeOK, Asked, AskedOf
<1>2. /\ Cardinality(Asked) \in Nat /\ Cardinality(Asked') \in Nat
      /\ Cardinality(Asked') <= Cardinality(Calls)
      /\ Cardinality(Calls) \in Nat
      /\ Cardinality(Asked') = Cardinality(Asked)
           + (IF c \in Asked' THEN 1 ELSE 0) - (IF c \in Asked THEN 1 ELSE 0)
  BY <1>1, MeteringAssumption, OneMoves
<1> QED BY <1>1, <1>2 DEF AskedOf

-----------------------------------------------------------------------------
LEMMA NoMembers ==
  ASSUME NEW S, IsFiniteSet(S)
  PROVE  Cardinality(S) \in Nat /\ (S # {} => Cardinality(S) >= 1)
BY FS_CardinalityType, FS_EmptySet

LEMMA InitInv == Init => IInv
<1> SUFFICES ASSUME Init PROVE IInv
  OBVIOUS
<1>1. TypeOK /\ LimitsAreRead /\ ClaimantsHadRoom /\ CreatedAreExecutions
  BY MeteringAssumption DEF Init, TypeOK, LimitsAreRead, ClaimantsHadRoom,
     CreatedAreExecutions, NoRequest, NoCall, Quotas
<1>2. Created = {} /\ Asked = {} /\ \A k \in Quotas : Claims(k) = {}
  BY DEF Init, Created, Asked, Claims, NoRequest, NoCall
<1>3. Cardinality({}) = 0
  BY FS_EmptySet
<1>4. Cardinality(Requests) \in Nat /\ Cardinality(Requests) >= 1
      /\ Cardinality(Calls) \in Nat /\ Cardinality(Calls) >= 1
  BY MeteringAssumption, NoMembers
<1>5. ClaimsFit
  <2> SUFFICES ASSUME NEW k \in Quotas, NEW n \in Highest(k)
               PROVE  used[k] + Cardinality(Claims(k)) <= n + Cardinality(Requests) - 1
    BY DEF ClaimsFit
  <2>1. n \in Nat /\ used[k] = 0 /\ Cardinality(Claims(k)) = 0
    BY <1>2, <1>3, HighestIsNat DEF Init
  <2> QED BY <2>1, <1>4
<1>6. LaunchesAreClaimed
  BY <1>2, <1>3 DEF Init, LaunchesAreClaimed, Quotas
<1>7. SpendFits
  <2> SUFFICES ASSUME Cap > 0
               PROVE  spent + Cardinality(Asked) * MaxCost
                        <= Cap - 1 + Cardinality(Calls) * MaxCost
    BY DEF SpendFits
  <2>1. Cardinality(Calls) * MaxCost \in Nat
    BY <1>4, MeteringAssumption
  <2>2. Cardinality(Asked) * MaxCost = 0 /\ spent = 0
    BY <1>2, <1>3, MeteringAssumption DEF Init
  <2> QED BY <2>1, <2>2, MeteringAssumption
<1> QED BY <1>1, <1>5, <1>6, <1>7 DEF IInv

(* A step of a request that puts r in its place. *)
LEMMA RequestStep ==
  ASSUME IInv, NEW q \in Requests, NEW r \in RequestRecords,
         request' = [request EXCEPT ![q] = r],
         UNCHANGED <<planSlug, callVars, month>>,
         used' \in [Quotas -> Nat], launched' \in Nat, unmetered' \in Nat,
         r.at # "idle" => \A n \in Highest(r.quota) : 0 <= r.limit /\ r.limit <= n,
         r.at \in {"admitted", "created"} => r.limit # 0,
         r.at = "created" => r.quota = "executions",
         \/ \A k \in Quotas : used'[k] + ClaimOf(r, k) <= used[k] + ClaimOf(request[q], k)
         \/ /\ used' = used
            /\ r.at = "admitted"
            /\ r.limit < 0 \/ used[r.quota] < r.limit
            /\ request[q].at = "planned",
         launched' - used'["executions"] - CreatedOf(r) - unmetered'
           <= launched - used["executions"] - CreatedOf(request[q]) - unmetered
  PROVE  IInv'
<1> USE DEF IInv
<1>1. TypeOK'
  BY DEF TypeOK, RequestRecords, callVars
<1>2. LimitsAreRead' /\ ClaimantsHadRoom' /\ CreatedAreExecutions'
  BY DEF TypeOK, LimitsAreRead, ClaimantsHadRoom, CreatedAreExecutions
<1>3. ASSUME NEW k \in Quotas, NEW n \in Highest(k)
      PROVE  (used[k] + Cardinality(Claims(k)))' <= n + Cardinality(Requests) - 1
  <2>1. /\ Cardinality(Claims(k)) \in Nat /\ Cardinality(Claims(k))' \in Nat
        /\ Cardinality(Claims(k))' <= Cardinality(Requests)
        /\ Cardinality(Requests) \in Nat
        /\ Cardinality(Claims(k))' =
             Cardinality(Claims(k)) + ClaimOf(r, k) - ClaimOf(request[q], k)
    BY RequestMoves
  <2>2. used[k] + Cardinality(Claims(k)) <= n + Cardinality(Requests) - 1
    BY DEF ClaimsFit
  <2>3. n \in Nat /\ used[k] \in Nat /\ used'[k] \in Nat
    BY HighestIsNat DEF TypeOK
  <2>4. ClaimOf(r, k) \in 0 .. 1 /\ ClaimOf(request[q], k) \in 0 .. 1
    BY DEF ClaimOf
  <2>5. CASE used'[k] + ClaimOf(r, k) <= used[k] + ClaimOf(request[q], k)
    BY <2>1, <2>2, <2>3, <2>4, <2>5
  <2>6. CASE /\ used' = used
             /\ r.at = "admitted"
             /\ r.limit < 0 \/ used[r.quota] < r.limit
             /\ request[q].at = "planned"
    <3>1. CASE r.quota = k
      <4>1. used[k] < n
        BY <2>3, <2>6, <3>1 DEF RequestRecords
      <4> QED BY <4>1, <2>1, <2>3, <2>6
    <3>2. CASE r.quota # k
      <4>1. ClaimOf(r, k) = 0 /\ ClaimOf(request[q], k) = 0
        BY <2>6, <3>2 DEF ClaimOf
      <4> QED BY <4>1, <2>1, <2>2, <2>3, <2>6
    <3> QED BY <3>1, <3>2
  <2> QED BY <2>5, <2>6
<1>4. ClaimsFit'
  BY <1>3 DEF ClaimsFit
<1>5. LaunchesAreClaimed'
  <2>1. /\ Cardinality(Created) \in Nat /\ Cardinality(Created)' \in Nat
        /\ Cardinality(Created)' =
             Cardinality(Created) + CreatedOf(r) - CreatedOf(request[q])
    BY RequestMoves DEF Quotas
  <2>2. /\ used["executions"] \in Nat /\ used'["executions"] \in Nat
        /\ launched \in Nat /\ unmetered \in Nat
    BY DEF TypeOK, Quotas
  <2>3. CreatedOf(r) \in 0 .. 1 /\ CreatedOf(request[q]) \in 0 .. 1
    BY DEF CreatedOf
  <2>4. launched <= used["executions"] + Cardinality(Created) + unmetered
    BY DEF LaunchesAreClaimed
  <2>5. launched' <= used'["executions"] + Cardinality(Created)' + unmetered'
    BY <2>1, <2>2, <2>3, <2>4
  <2> QED BY <2>5 DEF LaunchesAreClaimed
<1>6. SpendFits'
  BY DEF SpendFits, Asked, callVars
<1> QED BY <1>1, <1>2, <1>4, <1>5, <1>6

(* A step that ends a request. *)
LEMMA ReturnStep ==
  ASSUME IInv, NEW q \in Requests, Return(q),
         UNCHANGED <<planSlug, callVars, month>>,
         used' \in [Quotas -> Nat], launched' \in Nat, unmetered' \in Nat,
         \A k \in Quotas : used'[k] <= used[k] + ClaimOf(request[q], k),
         launched' - used'["executions"] - unmetered'
           <= launched - used["executions"] - CreatedOf(request[q]) - unmetered
  PROVE  IInv'
<1> DEFINE r == NoRequest
<1>1. /\ r \in RequestRecords /\ r.at = "idle"
      /\ \A k \in Quotas : ClaimOf(r, k) = 0
      /\ CreatedOf(r) = 0
      /\ request' = [request EXCEPT ![q] = r]
  BY DEF NoRequest, RequestRecords, Quotas, ClaimOf, CreatedOf, Return
<1>2. used'["executions"] \in Nat /\ \A k \in Quotas : used'[k] \in Nat
  BY DEF Quotas
<1> HIDE DEF r
<1>3. \A k \in Quotas : used'[k] + ClaimOf(r, k) <= used[k] + ClaimOf(request[q], k)
  BY <1>1, <1>2
<1>4. launched' - used'["executions"] - CreatedOf(r) - unmetered'
        <= launched - used["executions"] - CreatedOf(request[q]) - unmetered
  BY <1>1, <1>2
<1> QED BY <1>1, <1>3, <1>4, RequestStep

LEMMA HandleInv ==
  ASSUME IInv, NEW q \in Requests, Handle(q)
  PROVE  IInv'
<1> USE DEF callVars
<1>2. /\ request[q] \in RequestRecords
      /\ used \in [Quotas -> Nat] /\ launched \in Nat /\ unmetered \in Nat
      /\ \A k \in Quotas : ClaimOf(request[q], k) \in 0 .. 1
      /\ CreatedOf(request[q]) \in 0 .. 1
  BY DEF IInv, TypeOK, RequestRecords, ClaimOf, CreatedOf
<1>3. "executions" \in Quotas /\ "workflows" \in Quotas
  BY DEF Quotas
<1>4. CASE \E k \in Quotas : GetPlan(q, k)
  <2>1. PICK k \in Quotas : GetPlan(q, k)
    BY <1>4
  <2> DEFINE r == [at |-> "planned", quota |-> k, limit |-> Limit[planSlug][k]]
  <2>2. r \in RequestRecords /\ request' = [request EXCEPT ![q] = r]
    BY <2>1, MeteringAssumption DEF GetPlan, RequestRecords, IInv, TypeOK
  <2>3. \A n \in Highest(r.quota) : 0 <= r.limit /\ r.limit <= n
    BY DEF Highest, IInv, TypeOK
  <2>4. ClaimOf(r, "executions") = 0 /\ ClaimOf(r, "workflows") = 0 /\ CreatedOf(r) = 0
    BY DEF ClaimOf, CreatedOf
  <2>5. \A j \in Quotas : used'[j] + ClaimOf(r, j) <= used[j] + ClaimOf(request[q], j)
    BY <1>2, <2>1, <2>4 DEF GetPlan, Quotas
  <2>6. launched' - used'["executions"] - CreatedOf(r) - unmetered'
          <= launched - used["executions"] - CreatedOf(request[q]) - unmetered
    BY <1>2, <1>3, <2>1, <2>4 DEF GetPlan, CreatedOf
  <2> HIDE DEF r
  <2>7. r.at = "planned"
    BY DEF r
  <2> QED BY <1>2, <2>1, <2>2, <2>3, <2>5, <2>6, <2>7, RequestStep DEF GetPlan
<1>5. CASE GetUsage(q)
  <2>1. CASE Within(q)
    <3> DEFINE r == [request[q] EXCEPT !.at = "admitted"]
    <3>1. /\ r \in RequestRecords /\ request' = [request EXCEPT ![q] = r]
          /\ r.at = "admitted" /\ r.quota = request[q].quota /\ r.limit = request[q].limit
      BY <1>2, <1>5, <2>1 DEF GetUsage, RequestRecords
    <3>2. request[q].at = "planned" /\ (r.limit < 0 \/ used[r.quota] < r.limit)
      BY <1>5, <2>1, <3>1 DEF GetUsage, Within
    <3>3. r.limit # 0
      BY <1>2, <3>1, <3>2 DEF RequestRecords
    <3>4. \A n \in Highest(r.quota) : 0 <= r.limit /\ r.limit <= n
      BY <3>1, <3>2 DEF IInv, LimitsAreRead
    <3>5. CreatedOf(r) = 0 /\ CreatedOf(request[q]) = 0
      BY <3>1, <3>2 DEF CreatedOf
    <3>6. launched' - used'["executions"] - CreatedOf(r) - unmetered'
            <= launched - used["executions"] - CreatedOf(request[q]) - unmetered
      BY <1>2, <1>3, <1>5, <3>5 DEF GetUsage
    <3> HIDE DEF r
    <3> QED BY <1>2, <1>5, <3>1, <3>2, <3>3, <3>4, <3>6, RequestStep DEF GetUsage
  <2>2. CASE ~Within(q)
    <3>1. request[q].at = "planned" /\ CreatedOf(request[q]) = 0
      BY <1>5 DEF GetUsage, CreatedOf
    <3> QED BY <1>2, <1>3, <1>5, <2>2, <3>1, ReturnStep DEF GetUsage
  <2> QED BY <2>1, <2>2
<1>6. CASE Abandon(q)
  <2>1. CreatedOf(request[q]) = 0
    BY <1>6 DEF Abandon, CreatedOf
  <2>2. used["executions"] \in Nat /\ \A k \in Quotas : used[k] \in Nat
    BY <1>2, <1>3
  <2>3. /\ \A k \in Quotas : used'[k] <= used[k] + ClaimOf(request[q], k)
        /\ launched' - used'["executions"] - unmetered'
             <= launched - used["executions"] - CreatedOf(request[q]) - unmetered
    BY <1>2, <1>6, <2>1, <2>2 DEF Abandon
  <2> QED BY <1>2, <1>6, <2>3, ReturnStep DEF Abandon
<1>7. CASE InsertWorkflow(q)
  <2>1. /\ ClaimOf(request[q], "workflows") = 1 /\ CreatedOf(request[q]) = 0
        /\ used'["workflows"] = used["workflows"] + 1
        /\ used'["executions"] = used["executions"]
        /\ used' \in [Quotas -> Nat]
    BY <1>2, <1>7 DEF InsertWorkflow, ClaimOf, CreatedOf, Quotas
  <2>2. /\ \A k \in Quotas : used'[k] <= used[k] + ClaimOf(request[q], k)
        /\ launched' - used'["executions"] - unmetered'
             <= launched - used["executions"] - CreatedOf(request[q]) - unmetered
    BY <1>2, <1>7, <2>1 DEF Quotas, InsertWorkflow
  <2> QED BY <1>2, <1>7, <2>1, <2>2, ReturnStep DEF InsertWorkflow
<1>8. CASE InsertExecution(q)
  <2> DEFINE r == [request[q] EXCEPT !.at = "created"]
  <2>1. /\ r \in RequestRecords /\ request' = [request EXCEPT ![q] = r]
        /\ r.at = "created" /\ r.quota = "executions" /\ r.limit = request[q].limit
        /\ request[q].at = "admitted" /\ request[q].quota = "executions"
    BY <1>2, <1>8 DEF InsertExecution, RequestRecords
  <2>2. /\ \A j \in Quotas : ClaimOf(r, j) = ClaimOf(request[q], j)
        /\ CreatedOf(r) = 1 /\ CreatedOf(request[q]) = 0
    BY <2>1 DEF ClaimOf, CreatedOf
  <2>3. \A n \in Highest(r.quota) : 0 <= r.limit /\ r.limit <= n
    BY <2>1 DEF IInv, LimitsAreRead
  <2>4. r.limit # 0
    BY <2>1 DEF IInv, ClaimantsHadRoom
  <2> HIDE DEF r
  <2>5. \A j \in Quotas : used'[j] + ClaimOf(r, j) <= used[j] + ClaimOf(request[q], j)
    BY <1>2, <1>8, <2>2 DEF InsertExecution
  <2>6. launched' - used'["executions"] - CreatedOf(r) - unmetered'
          <= launched - used["executions"] - CreatedOf(request[q]) - unmetered
    BY <1>2, <1>3, <1>8, <2>2 DEF InsertExecution
  <2>7. launched' \in Nat
    BY <1>2, <1>8 DEF InsertExecution
  <2> QED BY <1>2, <1>8, <2>1, <2>3, <2>4, <2>5, <2>6, <2>7, RequestStep DEF InsertExecution
<1>9. CASE RecordUsage(q)
  <2>1. request[q].at = "created" /\ request[q].quota = "executions"
    BY <1>9 DEF RecordUsage, IInv, CreatedAreExecutions
  <2>2. /\ ClaimOf(request[q], "executions") = 1 /\ CreatedOf(request[q]) = 1
        /\ used'["executions"] = used["executions"] + 1
        /\ used'["workflows"] = used["workflows"]
        /\ used' \in [Quotas -> Nat]
    BY <1>2, <1>9, <2>1 DEF RecordUsage, ClaimOf, CreatedOf, Quotas
  <2>3. /\ \A k \in Quotas : used'[k] <= used[k] + ClaimOf(request[q], k)
        /\ launched' - used'["executions"] - unmetered'
             <= launched - used["executions"] - CreatedOf(request[q]) - unmetered
    BY <1>2, <1>9, <2>2 DEF Quotas, RecordUsage
  <2> QED BY <1>2, <1>9, <2>2, <2>3, ReturnStep DEF RecordUsage
<1>10. CASE MissUsage(q)
  <2>1. CreatedOf(request[q]) = 1 /\ unmetered' = unmetered + 1 /\ unmetered' \in Nat
    BY <1>2, <1>10 DEF MissUsage, CreatedOf
  <2>2. used["executions"] \in Nat /\ \A k \in Quotas : used[k] \in Nat
    BY <1>2, <1>3
  <2>3. /\ \A k \in Quotas : used'[k] <= used[k] + ClaimOf(request[q], k)
        /\ launched' - used'["executions"] - unmetered'
             <= launched - used["executions"] - CreatedOf(request[q]) - unmetered
    BY <1>2, <1>10, <2>1, <2>2 DEF MissUsage
  <2> QED BY <1>2, <1>10, <2>1, <2>3, ReturnStep DEF MissUsage
<1> QED BY <1>4, <1>5, <1>6, <1>7, <1>8, <1>9, <1>10 DEF Handle

-----------------------------------------------------------------------------
LEMMA Distribute ==
  ASSUME NEW a \in Nat, NEW b \in Nat, NEW m \in Nat, NEW x \in 0 .. 1, NEW y \in 0 .. 1,
         b = a + x - y
  PROVE  b * m = a * m + x * m - y * m
<1>1. CASE x = y
  <2>1. b = a /\ x * m \in Nat /\ x * m = y * m /\ a * m \in Nat
    BY <1>1
  <2> QED BY <2>1
<1>2. CASE x = 1 /\ y = 0
  <2>1. b = a + 1
    BY <1>2
  <2>2. (a + 1) * m = a * m + m /\ x * m = m /\ y * m = 0 /\ a * m \in Nat
    BY <1>2
  <2> QED BY <2>1, <2>2
<1>3. CASE x = 0 /\ y = 1
  <2>1. a = b + 1
    BY <1>3
  <2>2. (b + 1) * m = b * m + m /\ x * m = 0 /\ y * m = m /\ b * m \in Nat
    BY <1>3
  <2> QED BY <2>1, <2>2
<1> QED BY <1>1, <1>2, <1>3

LEMMA Monotone ==
  ASSUME NEW a \in Nat, NEW b \in Nat, NEW m \in Nat, a <= b
  PROVE  a * m <= b * m
<1>1. PICK d \in Nat : b = a + d
  BY b - a \in Nat
<1>2. (a + d) * m = a * m + d * m /\ a * m \in Nat /\ d * m \in Nat
  OBVIOUS
<1> QED BY <1>1, <1>2

(* s is what is spent, a the calls under way, before the step; s1 and b    *)
(* after it; n all calls, m the cost of one, cap the budget.               *)
LEMMA SpendArithmetic ==
  ASSUME NEW s \in Nat, NEW s1 \in Nat, NEW a \in Nat, NEW b \in Nat, NEW n \in Nat,
         NEW m \in Nat, NEW cap \in Nat \ {0}, NEW x \in 0 .. 1, NEW y \in 0 .. 1,
         b <= n, b = a + x - y,
         s + a * m <= cap - 1 + n * m,
         \/ s1 + x * m <= s + y * m
         \/ s1 = s /\ x = 1 /\ (cap > 0 => s < cap)
  PROVE  s1 + b * m <= cap - 1 + n * m
<1>1. b * m = a * m + x * m - y * m
  BY Distribute
<1>2. b * m <= n * m
  BY Monotone
<1>3. a * m \in Nat /\ b * m \in Nat /\ n * m \in Nat /\ x * m \in Nat /\ y * m \in Nat
  OBVIOUS
<1>4. CASE s1 + x * m <= s + y * m
  BY <1>1, <1>3, <1>4
<1>5. CASE s1 = s /\ (cap > 0 => s < cap)
  BY <1>2, <1>3, <1>5
<1> QED BY <1>4, <1>5

(* A step of an AI call that puts r in its place. *)
LEMMA CallStep ==
  ASSUME IInv, NEW c \in Calls, NEW r \in CallRecords,
         call' = [call EXCEPT ![c] = r],
         UNCHANGED <<planSlug, requestVars, month>>,
         spent' \in Nat, charged' \in Nat, unrecorded' \in Nat,
         \/ spent' + AskedOf(r) * MaxCost <= spent + AskedOf(call[c]) * MaxCost
         \/ spent' = spent /\ AskedOf(r) = 1 /\ (Cap > 0 => spent < Cap)
  PROVE  IInv'
<1> USE DEF IInv
<1>1. TypeOK'
  BY DEF TypeOK, CallRecords, requestVars
<1>2. LimitsAreRead' /\ ClaimantsHadRoom' /\ CreatedAreExecutions'
      /\ ClaimsFit' /\ LaunchesAreClaimed'
  BY DEF requestVars, LimitsAreRead, ClaimantsHadRoom, CreatedAreExecutions,
     ClaimsFit, LaunchesAreClaimed, Claims, Created
<1>3. ASSUME Cap > 0
      PROVE  spent' + Cardinality(Asked)' * MaxCost
               <= Cap - 1 + Cardinality(Calls) * MaxCost
  <2> DEFINE a == Cardinality(Asked)
             b == Cardinality(Asked)'
             n == Cardinality(Calls)
  <2>1. /\ a \in Nat /\ b \in Nat /\ b <= n /\ n \in Nat
        /\ b = a + AskedOf(r) - AskedOf(call[c])
    BY CallMoves
  <2>2. spent + a * MaxCost <= Cap - 1 + n * MaxCost
    BY <1>3 DEF SpendFits
  <2>3. /\ AskedOf(r) \in 0 .. 1 /\ AskedOf(call[c]) \in 0 .. 1
        /\ spent \in Nat /\ MaxCost \in Nat /\ Cap \in Nat
    BY MeteringAssumption DEF AskedOf, TypeOK
  <2>4. Cap \in Nat \ {0}
    BY <1>3, <2>3
  <2> HIDE DEF a, b, n
  <2>5. spent' + b * MaxCost <= Cap - 1 + n * MaxCost
    BY <2>1, <2>2, <2>3, <2>4, SpendArithmetic
  <2> QED BY <2>5 DEF b, n
<1>4. SpendFits'
  BY <1>3 DEF SpendFits
<1> QED BY <1>1, <1>2, <1>4

LEMMA CallInv ==
  ASSUME IInv, NEW c \in Calls, Call(c)
  PROVE  IInv'
<1> USE DEF requestVars
<1>1. /\ call[c] \in CallRecords
      /\ spent \in Nat /\ charged \in Nat /\ unrecorded \in Nat /\ MaxCost \in Nat
  BY MeteringAssumption DEF IInv, TypeOK, CallRecords
<1>2. NoCall \in CallRecords /\ AskedOf(NoCall) * MaxCost = 0
  BY <1>1 DEF NoCall, CallRecords, AskedOf
<1>3. AskedOf(call[c]) * MaxCost \in Nat
      /\ (call[c].at # "idle" => AskedOf(call[c]) * MaxCost = MaxCost)
  BY <1>1 DEF AskedOf
<1>4. CASE CheckBudget(c)
  <2> DEFINE r == [call[c] EXCEPT !.at = "asked"]
  <2>1. r \in CallRecords /\ r.at = "asked" /\ call' = [call EXCEPT ![c] = r]
    BY <1>1, <1>4 DEF CheckBudget, CallRecords
  <2>2. AskedOf(r) = 1 /\ (Cap > 0 => spent < Cap)
    BY <1>4, <2>1 DEF CheckBudget, WithinBudget, AskedOf
  <2> HIDE DEF r
  <2> QED BY <1>1, <1>4, <2>1, <2>2, CallStep DEF CheckBudget
<1>5. CASE \E usd \in 0 .. MaxCost : ProviderAnswers(c, usd)
  <2>1. PICK usd \in 0 .. MaxCost : ProviderAnswers(c, usd)
    BY <1>5
  <2> DEFINE r == [at |-> "answered", cost |-> usd]
  <2>2. r \in CallRecords /\ call' = [call EXCEPT ![c] = r]
        /\ AskedOf(r) = 1 /\ AskedOf(call[c]) = 1
    BY <2>1 DEF ProviderAnswers, CallRecords, AskedOf
  <2>3. charged' \in Nat
    BY <1>1, <2>1 DEF ProviderAnswers
  <2> HIDE DEF r
  <2>4. spent' + AskedOf(r) * MaxCost <= spent + AskedOf(call[c]) * MaxCost
    BY <1>1, <2>1, <2>2 DEF ProviderAnswers
  <2> QED BY <1>1, <2>1, <2>2, <2>3, <2>4, CallStep DEF ProviderAnswers
<1>6. ASSUME Hangup(c), call[c].at # "idle", UNCHANGED <<planSlug, requestVars, month>>,
             spent' \in Nat, charged' \in Nat, unrecorded' \in Nat,
             spent' <= spent + MaxCost
      PROVE  IInv'
  <2>1. spent' + AskedOf(NoCall) * MaxCost <= spent + AskedOf(call[c]) * MaxCost
    BY <1>1, <1>2, <1>3, <1>6
  <2> QED BY <1>2, <1>6, <2>1, CallStep DEF Hangup
<1>7. CASE \E usd \in 0 .. MaxCost : LoseAnswer(c, usd)
  <2>1. PICK usd \in 0 .. MaxCost : LoseAnswer(c, usd)
    BY <1>7
  <2>2. charged' \in Nat /\ unrecorded' \in Nat
    BY <1>1, <2>1 DEF LoseAnswer
  <2> QED BY <1>1, <1>6, <2>1, <2>2 DEF LoseAnswer
<1>8. CASE ProviderFails(c)
  BY <1>1, <1>6, <1>8 DEF ProviderFails
<1>9. CASE RecordCall(c)
  BY <1>1, <1>6, <1>9 DEF RecordCall, CallRecords
<1>10. CASE MissCall(c)
  BY <1>1, <1>6, <1>10 DEF MissCall
<1> QED BY <1>4, <1>5, <1>7, <1>8, <1>9, <1>10 DEF Call

LEMMA ChangePlanInv ==
  ASSUME IInv, NEW plan \in Plans, ChangePlan(plan)
  PROVE  IInv'
BY DEF IInv, ChangePlan, requestVars, callVars, TypeOK, LimitsAreRead, ClaimantsHadRoom,
   CreatedAreExecutions, ClaimsFit, LaunchesAreClaimed, SpendFits, Claims, Created, Asked

(* A month begins: the sums are reset, the claims stay. *)
LEMMA BeginMonthInv ==
  ASSUME IInv, BeginMonth
  PROVE  IInv'
<1> USE DEF IInv, BeginMonth
<1>1. TypeOK'
  BY DEF TypeOK, Quotas
<1>2. LimitsAreRead' /\ ClaimantsHadRoom' /\ CreatedAreExecutions'
  BY DEF LimitsAreRead, ClaimantsHadRoom, CreatedAreExecutions
<1>3. /\ \A k \in Quotas : Claims(k)' = Claims(k)
      /\ Created' = Created /\ Asked' = Asked
  BY DEF Claims, Created, Asked
<1>4. Cardinality(Requests) \in Nat /\ Cardinality(Requests) >= 1
      /\ Cardinality(Calls) \in Nat
  BY MeteringAssumption, NoMembers
<1>5. ASSUME NEW k \in Quotas, NEW n \in Highest(k)
      PROVE  (used[k] + Cardinality(Claims(k)))' <= n + Cardinality(Requests) - 1
  <2>1. n \in Nat /\ used[k] \in Nat
    BY HighestIsNat DEF TypeOK
  <2>2. used[k] + Cardinality(Claims(k)) <= n + Cardinality(Requests) - 1
    BY DEF ClaimsFit
  <2>3. Claims(k) \in SUBSET Requests
    BY DEF Claims
  <2>4. Cardinality(Claims(k)) \in Nat /\ Cardinality(Claims(k)) <= Cardinality(Requests)
    BY <2>3, MeteringAssumption, FS_Subset, FS_CardinalityType
  <2>5. CASE k = "workflows"
    <3>1. used'[k] = used[k]
      BY <2>5 DEF TypeOK, Quotas
    <3> QED BY <1>3, <2>2, <3>1
  <2>6. CASE k = "executions" /\ n = 0
    <3>1. Claims(k) = {}
      BY <2>6, <2>1 DEF Claims, LimitsAreRead, ClaimantsHadRoom, TypeOK
    <3>2. used'[k] = 0 /\ Cardinality(Claims(k)') = 0
      BY <1>3, <2>6, <3>1, FS_EmptySet DEF TypeOK, Quotas
    <3> QED BY <1>4, <2>1, <3>2
  <2>7. CASE k = "executions" /\ n # 0
    <3>1. used'[k] = 0
      BY <2>7 DEF TypeOK, Quotas
    <3> QED BY <1>3, <1>4, <2>1, <2>4, <2>7, <3>1
  <2> QED BY <2>5, <2>6, <2>7 DEF Quotas
<1>6. ClaimsFit'
  BY <1>5 DEF ClaimsFit
<1>7. LaunchesAreClaimed'
  <2>1. Created \in SUBSET Requests
    BY DEF Created
  <2>2. Cardinality(Created) \in Nat
    BY <2>1, MeteringAssumption, FS_Subset, FS_CardinalityType
  <2>3. used'["executions"] = 0
    BY DEF TypeOK, Quotas
  <2> QED BY <1>3, <2>2, <2>3 DEF LaunchesAreClaimed
<1>8. SpendFits'
  <2> SUFFICES ASSUME Cap > 0
               PROVE  0 + Cardinality(Asked) * MaxCost <= Cap - 1 + Cardinality(Calls) * MaxCost
    BY <1>3 DEF SpendFits
  <2>1. Asked \in SUBSET Calls
    BY DEF Asked
  <2>2. Cardinality(Asked) \in Nat /\ Cardinality(Asked) <= Cardinality(Calls)
    BY <2>1, MeteringAssumption, FS_Subset, FS_CardinalityType
  <2>3. Cardinality(Asked) * MaxCost <= Cardinality(Calls) * MaxCost
        /\ Cardinality(Asked) * MaxCost \in Nat /\ Cardinality(Calls) * MaxCost \in Nat
    BY <1>4, <2>2, Monotone, MeteringAssumption
  <2> QED BY <2>3, MeteringAssumption
<1> QED BY <1>1, <1>2, <1>6, <1>7, <1>8

LEMMA StepInv == IInv /\ [Next]_vars => IInv'
<1> SUFFICES ASSUME IInv, [Next]_vars PROVE IInv'
  OBVIOUS
<1>1. CASE UNCHANGED vars
  BY <1>1 DEF IInv, vars, requestVars, callVars, TypeOK, LimitsAreRead, ClaimantsHadRoom,
     CreatedAreExecutions, ClaimsFit, LaunchesAreClaimed, SpendFits, Claims, Created, Asked
<1>2. CASE Next
  BY <1>2, HandleInv, CallInv, ChangePlanInv, BeginMonthInv DEF Next
<1> QED BY <1>1, <1>2

-----------------------------------------------------------------------------
(* The invariant holds in every reachable state. *)
LEMMA Invariance == Spec => []IInv
BY InitInv, StepInv, PTL DEF Spec

(* However many requests run beside each other, a quota that every plan    *)
(* limits is overshot by fewer than there are requests.                    *)
THEOREM Overshoot == Spec => []OvershootIsBounded
<1>1. IInv => OvershootIsBounded
  <2> SUFFICES ASSUME IInv, NEW k \in Quotas, NEW n \in Highest(k)
               PROVE  used[k] <= n + Cardinality(Requests) - 1
    BY DEF OvershootIsBounded
  <2>1. Claims(k) \in SUBSET Requests
    BY DEF Claims
  <2>2. Cardinality(Claims(k)) \in Nat /\ Cardinality(Requests) \in Nat
    BY <2>1, MeteringAssumption, FS_Subset, FS_CardinalityType
  <2>3. used[k] + Cardinality(Claims(k)) <= n + Cardinality(Requests) - 1
        /\ used[k] \in Nat /\ n \in Nat
    BY HighestIsNat DEF IInv, ClaimsFit, TypeOK
  <2> QED BY <2>2, <2>3
<1> QED BY <1>1, Invariance, PTL

(* Executions launched in a month pass the limit by no more than that and  *)
(* the requests that failed before their usage event.                      *)
THEOREM Launches == Spec => []LaunchesAreBounded
<1>1. IInv => LaunchesAreBounded
  <2> SUFFICES ASSUME IInv, NEW n \in Highest("executions")
               PROVE  launched <= n + Cardinality(Requests) - 1 + unmetered
    BY DEF LaunchesAreBounded
  <2> DEFINE k == "executions"
  <2>1. Created \in SUBSET Claims(k) /\ Claims(k) \in SUBSET Requests
    BY DEF IInv, CreatedAreExecutions, Created, Claims
  <2>2. IsFiniteSet(Claims(k)) /\ Cardinality(Claims(k)) \in Nat
    BY <2>1, MeteringAssumption, FS_Subset, FS_CardinalityType
  <2>3. Cardinality(Created) \in Nat /\ Cardinality(Created) <= Cardinality(Claims(k))
    BY <2>1, <2>2, FS_Subset, FS_CardinalityType
  <2>4. /\ used[k] + Cardinality(Claims(k)) <= n + Cardinality(Requests) - 1
        /\ launched <= used[k] + Cardinality(Created) + unmetered
        /\ used[k] \in Nat /\ launched \in Nat /\ unmetered \in Nat
    BY DEF IInv, ClaimsFit, LaunchesAreClaimed, TypeOK, Quotas
  <2>5. n \in Nat /\ Cardinality(Requests) \in Nat
    BY HighestIsNat, MeteringAssumption, FS_CardinalityType DEF Quotas
  <2> QED BY <2>2, <2>3, <2>4, <2>5
<1> QED BY <1>1, Invariance, PTL

(* The recorded spend of a month stays below the cap but for one call per  *)
(* loop, whatever a call costs up to MaxCost.                              *)
SpendIsBounded == Cap > 0 => spent <= Cap - 1 + Cardinality(Calls) * MaxCost

THEOREM Spend == Spec => []SpendIsBounded
<1>1. IInv => SpendIsBounded
  <2> SUFFICES ASSUME IInv, Cap > 0
               PROVE  spent <= Cap - 1 + Cardinality(Calls) * MaxCost
    BY DEF SpendIsBounded
  <2>1. Asked \in SUBSET Calls
    BY DEF Asked
  <2>2. Cardinality(Asked) \in Nat /\ Cardinality(Calls) \in Nat
    BY <2>1, MeteringAssumption, FS_Subset, FS_CardinalityType
  <2>3. Cardinality(Asked) * MaxCost \in Nat /\ Cardinality(Calls) * MaxCost \in Nat
    BY <2>2, MeteringAssumption
  <2>4. spent + Cardinality(Asked) * MaxCost <= Cap - 1 + Cardinality(Calls) * MaxCost
        /\ spent \in Nat
    BY DEF IInv, SpendFits, TypeOK
  <2> QED BY <2>3, <2>4, MeteringAssumption
<1> QED BY <1>1, Invariance, PTL

-----------------------------------------------------------------------------
(* What the provider charges needs more than a count of the calls under    *)
(* way: a call that is recorded gives back what it cost, not MaxCost.  An  *)
(* amount is counted as a set, one element per call and unit.              *)
Units(w) == {p \in Calls \X (1 .. MaxCost) : p[2] <= w[p[1]]}

Amounts == [Calls -> 0 .. MaxCost]

(* Charged and not yet recorded; and what is still to be recorded at most. *)
OwedOf(r) == IF r.at = "answered" THEN r.cost ELSE 0
DueOf(r) == IF r.at = "asked" THEN MaxCost ELSE OwedOf(r)
Owed == [c \in Calls |-> OwedOf(call[c])]
Due == [c \in Calls |-> DueOf(call[c])]

ChargesAreOwed == charged <= spent + Cardinality(Units(Owed)) + unrecorded * MaxCost

DueFits ==
  Cap > 0 => spent + Cardinality(Units(Due)) <= Cap - 1 + Cardinality(Calls) * MaxCost

BudgetInv == IInv /\ ChargesAreOwed /\ DueFits

LEMMA UnitsType ==
  ASSUME NEW w \in Amounts
  PROVE  /\ IsFiniteSet(Units(w)) /\ Cardinality(Units(w)) \in Nat
         /\ Cardinality(Units(w)) <= Cardinality(Calls) * MaxCost
         /\ Cardinality(Calls) \in Nat /\ Cardinality(Calls) * MaxCost \in Nat
<1>1. IsFiniteSet(Calls) /\ IsFiniteSet(1 .. MaxCost) /\ MaxCost \in Nat
      /\ Cardinality(1 .. MaxCost) = MaxCost
  BY MeteringAssumption, FS_Interval
<1>2. /\ IsFiniteSet(Calls \X (1 .. MaxCost))
      /\ Cardinality(Calls \X (1 .. MaxCost)) = Cardinality(Calls) * MaxCost
  BY <1>1, FS_Product
<1>3. Units(w) \in SUBSET (Calls \X (1 .. MaxCost))
  BY DEF Units
<1>4. Cardinality(Calls) \in Nat
  BY <1>1, FS_CardinalityType
<1>5. Cardinality(Calls) * MaxCost \in Nat
  BY <1>1, <1>4
<1> QED BY <1>2, <1>3, <1>4, <1>5, FS_Subset, FS_CardinalityType

(* The units of one call are as many as its amount says. *)
LEMMA UnitsOfOne ==
  ASSUME NEW w \in Amounts, NEW c \in Calls,
         NEW R, R = {p \in Units(w) : p[1] # c}
  PROVE  Cardinality(R) \in Nat /\ Cardinality(Units(w)) = Cardinality(R) + w[c]
<1>1. PICK k \in 0 .. MaxCost : k = w[c]
  BY DEF Amounts
<1> DEFINE O == {c} \X (1 .. k)
<1>2. /\ k \in Nat /\ MaxCost \in Nat
      /\ IsFiniteSet(1 .. k) /\ Cardinality(1 .. k) = k
  <2>1. k \in Nat /\ MaxCost \in Nat /\ k \in Int /\ ~(1 > k /\ k > 0)
    BY MeteringAssumption
  <2>2. IsFiniteSet(1 .. k) /\ Cardinality(1 .. k) = IF 1 > k THEN 0 ELSE k - 1 + 1
    BY <2>1, FS_Interval
  <2> QED BY <2>1, <2>2
<1>3. IsFiniteSet({c}) /\ Cardinality({c}) = 1
  BY FS_Singleton
<1>4. IsFiniteSet(O) /\ Cardinality(O) = k
  <2>1. IsFiniteSet(O) /\ Cardinality(O) = Cardinality({c}) * Cardinality(1 .. k)
    BY <1>2, <1>3, FS_Product
  <2> QED BY <1>2, <1>3, <2>1
<1>5. R \in SUBSET Units(w) /\ IsFiniteSet(Units(w))
  BY UnitsType
<1>6. IsFiniteSet(R) /\ Cardinality(R) \in Nat
  BY <1>5, FS_Subset, FS_CardinalityType
<1>7. Units(w) = R \union O /\ R \intersect O = {}
  <2>1. O \subseteq Units(w)
    BY <1>1, <1>2 DEF Units
  <2>2. \A p \in Units(w) : p[1] = c => p \in O
    BY <1>1, <1>2 DEF Units
  <2>3. \A p \in O : p[1] = c
    OBVIOUS
  <2> HIDE DEF O
  <2> QED BY <1>5, <2>1, <2>2, <2>3
<1> HIDE DEF O
<1>8. Cardinality(R \union O) = Cardinality(R) + Cardinality(O) - Cardinality(R \intersect O)
  BY <1>4, <1>6, FS_Union
<1>9. Cardinality({}) = 0
  BY FS_EmptySet
<1>10. Cardinality(R \intersect O) = 0 /\ Cardinality(Units(w)) = Cardinality(R \union O)
  BY <1>7, <1>9
<1> QED BY <1>1, <1>2, <1>4, <1>6, <1>8, <1>10

LEMMA UnitsMove ==
  ASSUME NEW w \in Amounts, NEW v \in Amounts, NEW c \in Calls,
         \A d \in Calls \ {c} : v[d] = w[d]
  PROVE  /\ Cardinality(Units(w)) \in Nat /\ Cardinality(Units(v)) \in Nat
         /\ Cardinality(Units(v)) = Cardinality(Units(w)) + v[c] - w[c]
<1> DEFINE R == {p \in Units(w) : p[1] # c}
<1>1. R = {p \in Units(v) : p[1] # c}
  BY DEF Units
<1>2. Cardinality(R) \in Nat /\ Cardinality(Units(w)) = Cardinality(R) + w[c]
  BY UnitsOfOne
<1>3. Cardinality(Units(v)) = Cardinality(R) + v[c]
  <2> HIDE DEF R
  <2> QED BY <1>1, UnitsOfOne
<1>4. w[c] \in Nat /\ v[c] \in Nat
  BY DEF Amounts
<1>5. Cardinality(Units(w)) \in Nat /\ Cardinality(Units(v)) \in Nat
  BY UnitsType
<1> HIDE DEF R
<1> QED BY <1>2, <1>3, <1>4, <1>5

LEMMA AmountTypes ==
  ASSUME TypeOK
  PROVE  Owed \in Amounts /\ Due \in Amounts /\ \A c \in Calls : Owed[c] <= Due[c]
BY MeteringAssumption DEF TypeOK, Owed, Due, OwedOf, DueOf, Amounts

(* A step of an AI call that puts r in its place: it may not charge more   *)
(* than it comes to owe, nor leave more due than the budget's check saw.   *)
LEMMA CallBudget ==
  ASSUME BudgetInv, IInv', NEW c \in Calls, NEW r \in CallRecords,
         call' = [call EXCEPT ![c] = r],
         unrecorded' \in {unrecorded, unrecorded + 1},
         charged' + spent + OwedOf(call[c])
           <= charged + spent' + OwedOf(r) + (unrecorded' - unrecorded) * MaxCost,
         \/ spent' + DueOf(r) <= spent + DueOf(call[c])
         \/ spent' = spent /\ (Cap > 0 => spent < Cap)
  PROVE  BudgetInv'
<1> USE DEF BudgetInv, IInv
<1>1. /\ Owed \in Amounts /\ Owed' \in Amounts /\ Due \in Amounts /\ Due' \in Amounts
  <2>1. Owed \in Amounts /\ Due \in Amounts
    BY AmountTypes
  <2>2. /\ \A d \in Calls : call'[d] \in CallRecords
        /\ MaxCost \in Nat
    BY MeteringAssumption DEF TypeOK, CallRecords
  <2>3. Owed' \in Amounts /\ Due' \in Amounts
    BY <2>2 DEF Owed, Due, OwedOf, DueOf, Amounts, CallRecords
  <2> QED BY <2>1, <2>3
<1>2. /\ \A d \in Calls \ {c} : Owed'[d] = Owed[d] /\ Due'[d] = Due[d]
      /\ Owed[c] = OwedOf(call[c]) /\ Due[c] = DueOf(call[c])
      /\ Owed'[c] = OwedOf(r) /\ Due'[c] = DueOf(r)
  <2>1. call'[c] = r /\ \A d \in Calls \ {c} : call'[d] = call[d]
    BY DEF TypeOK
  <2> QED BY <2>1 DEF Owed, Due, OwedOf, DueOf
<1> DEFINE o == Cardinality(Units(Owed))
           o1 == Cardinality(Units(Owed'))
           d == Cardinality(Units(Due))
           d1 == Cardinality(Units(Due'))
           N == Cardinality(Calls)
<1>3. /\ o \in Nat /\ o1 \in Nat /\ o1 = o + OwedOf(r) - OwedOf(call[c])
      /\ d \in Nat /\ d1 \in Nat /\ d1 = d + DueOf(r) - DueOf(call[c])
  BY <1>1, <1>2, UnitsMove
<1>4. /\ N \in Nat /\ N * MaxCost \in Nat /\ d1 <= N * MaxCost
  BY <1>1, UnitsType
<1>5. /\ OwedOf(r) \in Nat /\ OwedOf(call[c]) \in Nat
      /\ DueOf(r) \in Nat /\ DueOf(call[c]) \in Nat
      /\ spent \in Nat /\ charged \in Nat /\ unrecorded \in Nat /\ Cap \in Nat /\ MaxCost \in Nat
      /\ spent' \in Nat /\ charged' \in Nat
  BY MeteringAssumption DEF TypeOK, OwedOf, DueOf, CallRecords
<1>6. /\ ChargesAreOwed' <=> charged' <= spent' + o1 + unrecorded' * MaxCost
      /\ DueFits' <=> (Cap > 0 => spent' + d1 <= Cap - 1 + N * MaxCost)
      /\ ChargesAreOwed <=> charged <= spent + o + unrecorded * MaxCost
      /\ DueFits <=> (Cap > 0 => spent + d <= Cap - 1 + N * MaxCost)
  BY DEF ChargesAreOwed, DueFits, Units
<1> HIDE DEF o, o1, d, d1, N
<1>7. ChargesAreOwed'
  <2>1. unrecorded' * MaxCost = unrecorded * MaxCost + (unrecorded' - unrecorded) * MaxCost
        /\ unrecorded * MaxCost \in Nat /\ (unrecorded' - unrecorded) * MaxCost \in Nat
    <3>1. CASE unrecorded' = unrecorded
      BY <1>5, <3>1
    <3>2. CASE unrecorded' = unrecorded + 1
      <4>1. (unrecorded + 1) * MaxCost = unrecorded * MaxCost + 1 * MaxCost - 0 * MaxCost
        BY <1>5, Distribute
      <4> QED BY <1>5, <3>2, <4>1
    <3> QED BY <3>1, <3>2
  <2>2. charged <= spent + o + unrecorded * MaxCost
    BY <1>6
  <2> HIDE DEF BudgetInv, IInv
  <2> QED BY <1>3, <1>5, <1>6, <2>1, <2>2
<1>8. DueFits'
  <2>1. Cap > 0 => spent + d <= Cap - 1 + N * MaxCost
    BY <1>6
  <2> HIDE DEF BudgetInv, IInv
  <2>2. CASE spent' + DueOf(r) <= spent + DueOf(call[c])
    BY <1>3, <1>4, <1>5, <1>6, <2>1, <2>2
  <2>3. CASE spent' = spent /\ (Cap > 0 => spent < Cap)
    BY <1>4, <1>3, <1>5, <1>6, <2>3
  <2> QED BY <2>2, <2>3
<1> QED BY <1>7, <1>8

LEMMA CallStepBudget ==
  ASSUME BudgetInv, IInv', NEW c \in Calls, Call(c)
  PROVE  BudgetInv'
<1> USE DEF BudgetInv
<1>1. /\ call[c] \in CallRecords
      /\ spent \in Nat /\ charged \in Nat /\ unrecorded \in Nat /\ MaxCost \in Nat
  BY MeteringAssumption DEF IInv, TypeOK, CallRecords
<1>2. /\ NoCall \in CallRecords /\ OwedOf(NoCall) = 0 /\ DueOf(NoCall) = 0
      /\ OwedOf(call[c]) \in Nat /\ DueOf(call[c]) \in Nat /\ OwedOf(call[c]) <= DueOf(call[c])
      /\ (unrecorded - unrecorded) * MaxCost = 0
      /\ (unrecorded + 1 - unrecorded) * MaxCost = MaxCost
  <2>1. /\ NoCall \in CallRecords /\ OwedOf(NoCall) = 0 /\ DueOf(NoCall) = 0
        /\ OwedOf(call[c]) \in Nat /\ DueOf(call[c]) \in Nat
        /\ OwedOf(call[c]) <= DueOf(call[c])
    BY <1>1 DEF NoCall, CallRecords, OwedOf, DueOf
  <2>2. unrecorded - unrecorded = 0 /\ unrecorded + 1 - unrecorded = 1
        /\ 0 * MaxCost = 0 /\ 1 * MaxCost = MaxCost
    BY <1>1
  <2> QED BY <2>1, <2>2
<1>3. CASE CheckBudget(c)
  <2> DEFINE r == [call[c] EXCEPT !.at = "asked"]
  <2>1. r \in CallRecords /\ r.at = "asked" /\ call' = [call EXCEPT ![c] = r]
    BY <1>1, <1>3 DEF CheckBudget, CallRecords
  <2>2. OwedOf(r) = 0 /\ OwedOf(call[c]) = 0
    BY <1>3, <2>1 DEF CheckBudget, OwedOf
  <2>3. UNCHANGED <<spent, charged, unrecorded>> /\ (Cap > 0 => spent < Cap)
    BY <1>3 DEF CheckBudget, WithinBudget
  <2> HIDE DEF r, BudgetInv
  <2>4. charged' + spent + OwedOf(call[c])
          <= charged + spent' + OwedOf(r) + (unrecorded' - unrecorded) * MaxCost
    BY <1>1, <1>2, <2>2, <2>3
  <2> QED BY <2>1, <2>3, <2>4, CallBudget
<1>4. CASE \E usd \in 0 .. MaxCost : ProviderAnswers(c, usd)
  <2>1. PICK usd \in 0 .. MaxCost : ProviderAnswers(c, usd)
    BY <1>4
  <2> DEFINE r == [at |-> "answered", cost |-> usd]
  <2>2. /\ r \in CallRecords /\ call' = [call EXCEPT ![c] = r]
        /\ OwedOf(r) = usd /\ DueOf(r) = usd
        /\ OwedOf(call[c]) = 0 /\ DueOf(call[c]) = MaxCost
    BY <2>1 DEF ProviderAnswers, CallRecords, OwedOf, DueOf
  <2>3. charged' = charged + usd /\ UNCHANGED <<spent, unrecorded>>
    BY <2>1 DEF ProviderAnswers
  <2> HIDE DEF r, BudgetInv
  <2>4. /\ charged' + spent + OwedOf(call[c])
             <= charged + spent' + OwedOf(r) + (unrecorded' - unrecorded) * MaxCost
        /\ spent' + DueOf(r) <= spent + DueOf(call[c])
    BY <1>1, <1>2, <2>2, <2>3
  <2> QED BY <2>2, <2>3, <2>4, CallBudget
<1>5. ASSUME Hangup(c), unrecorded' \in {unrecorded, unrecorded + 1},
             charged' + spent + OwedOf(call[c])
               <= charged + spent' + (unrecorded' - unrecorded) * MaxCost,
             spent' <= spent + DueOf(call[c]), spent' \in Nat, charged' \in Nat
      PROVE  BudgetInv'
  <2>1. (unrecorded' - unrecorded) * MaxCost \in Nat
    <3>1. CASE unrecorded' = unrecorded
      BY <1>1, <1>2, <3>1
    <3>2. CASE unrecorded' = unrecorded + 1
      BY <1>1, <1>2, <3>2
    <3> QED BY <1>5, <3>1, <3>2
  <2>2. /\ charged' + spent + OwedOf(call[c])
             <= charged + spent' + OwedOf(NoCall) + (unrecorded' - unrecorded) * MaxCost
        /\ spent' + DueOf(NoCall) <= spent + DueOf(call[c])
    BY <1>1, <1>2, <1>5, <2>1
  <2>3. call' = [call EXCEPT ![c] = NoCall]
    BY <1>5 DEF Hangup
  <2> HIDE DEF BudgetInv
  <2> QED BY <1>2, <1>5, <2>2, <2>3, CallBudget
<1>6. CASE \E usd \in 0 .. MaxCost : LoseAnswer(c, usd)
  <2>1. PICK usd \in 0 .. MaxCost : LoseAnswer(c, usd)
    BY <1>6
  <2>2. /\ OwedOf(call[c]) = 0 /\ charged' = charged + usd
        /\ spent' = spent /\ unrecorded' = unrecorded + 1 /\ Hangup(c)
    BY <2>1 DEF LoseAnswer, OwedOf
  <2> QED BY <1>1, <1>2, <1>5, <2>2
<1>7. CASE ProviderFails(c)
  <2>1. /\ OwedOf(call[c]) = 0 /\ UNCHANGED <<spent, charged, unrecorded>> /\ Hangup(c)
    BY <1>7 DEF ProviderFails, OwedOf
  <2> QED BY <1>1, <1>2, <1>5, <2>1
<1>8. CASE RecordCall(c)
  <2>1. /\ OwedOf(call[c]) = call[c].cost /\ DueOf(call[c]) = call[c].cost
        /\ spent' = spent + call[c].cost /\ UNCHANGED <<charged, unrecorded>> /\ Hangup(c)
    BY <1>8 DEF RecordCall, OwedOf, DueOf
  <2> QED BY <1>1, <1>2, <1>5, <2>1
<1>9. CASE MissCall(c)
  <2>1. /\ OwedOf(call[c]) <= MaxCost
        /\ UNCHANGED <<spent, charged>> /\ unrecorded' = unrecorded + 1 /\ Hangup(c)
    BY <1>1, <1>9 DEF MissCall, OwedOf, CallRecords
  <2> QED BY <1>1, <1>2, <1>5, <2>1
<1> QED BY <1>3, <1>4, <1>6, <1>7, <1>8, <1>9 DEF Call

LEMMA BudgetInit == Init => BudgetInv
<1> SUFFICES ASSUME Init PROVE BudgetInv
  OBVIOUS
<1>1. IInv
  BY InitInv
<1>2. Owed \in Amounts /\ Due \in Amounts
  BY <1>1, AmountTypes DEF IInv
<1>3. \A c \in Calls : Owed[c] = 0 /\ Due[c] = 0
  BY DEF Init, NoCall, Owed, Due, OwedOf, DueOf
<1>4. Units(Owed) = {} /\ Units(Due) = {}
  BY <1>3, MeteringAssumption DEF Units
<1>5. Cardinality(Units(Owed)) = 0 /\ Cardinality(Units(Due)) = 0
  BY <1>4, FS_EmptySet
<1>6. Cardinality(Calls) * MaxCost \in Nat /\ unrecorded * MaxCost = 0
  BY <1>2, UnitsType, MeteringAssumption DEF Init
<1> QED BY <1>1, <1>5, <1>6, MeteringAssumption DEF BudgetInv, ChargesAreOwed, DueFits, Init

LEMMA BudgetStep == BudgetInv /\ [Next]_vars => BudgetInv'
<1> SUFFICES ASSUME BudgetInv, [Next]_vars PROVE BudgetInv'
  OBVIOUS
<1>1. IInv /\ IInv' /\ TypeOK
  BY StepInv DEF BudgetInv, IInv
<1>2. ASSUME UNCHANGED callVars PROVE BudgetInv'
  BY <1>1, <1>2 DEF BudgetInv, callVars, ChargesAreOwed, DueFits, Owed, Due
<1>3. CASE BeginMonth
  <2>1. Owed \in Amounts /\ Due \in Amounts /\ Owed' = Owed /\ Due' = Due
    BY <1>1, <1>3, AmountTypes DEF BeginMonth, Owed, Due
  <2>2. /\ Cardinality(Units(Owed)) \in Nat /\ Cardinality(Units(Due)) \in Nat
        /\ Cardinality(Units(Due)) <= Cardinality(Calls) * MaxCost
        /\ Cardinality(Calls) * MaxCost \in Nat
    BY <2>1, UnitsType
  <2>3. spent' = 0 /\ charged' = 0 /\ unrecorded' = 0 /\ 0 * MaxCost = 0
    BY <1>3, MeteringAssumption DEF BeginMonth
  <2>4. ChargesAreOwed'
    BY <2>1, <2>2, <2>3 DEF ChargesAreOwed
  <2>5. DueFits'
    BY <2>1, <2>2, <2>3, MeteringAssumption DEF DueFits
  <2> QED BY <1>1, <2>4, <2>5 DEF BudgetInv
<1>4. CASE UNCHANGED vars
  BY <1>2, <1>4 DEF vars
<1>5. CASE \E q \in Requests : Handle(q)
  BY <1>2, <1>5 DEF Handle, GetPlan, GetUsage, Abandon, InsertWorkflow, InsertExecution,
                    RecordUsage, MissUsage
<1>6. CASE \E c \in Calls : Call(c)
  BY <1>1, <1>6, CallStepBudget
<1>7. CASE \E plan \in Plans : ChangePlan(plan)
  BY <1>2, <1>7 DEF ChangePlan
<1> QED BY <1>3, <1>4, <1>5, <1>6, <1>7 DEF Next

(* The provider's charges of a month stay below the cap but for one call   *)
(* per loop and one for every call whose cost was never recorded.          *)
THEOREM Budget == Spec => []BudgetHolds
<1>1. BudgetInv => BudgetHolds
  <2> SUFFICES ASSUME BudgetInv, Cap > 0
               PROVE  charged <= Cap - 1 + (Cardinality(Calls) + unrecorded) * MaxCost
    BY DEF BudgetHolds
  <2>1. TypeOK /\ ChargesAreOwed /\ DueFits
    BY DEF BudgetInv, IInv
  <2>2. Owed \in Amounts /\ Due \in Amounts /\ \A c \in Calls : Owed[c] <= Due[c]
    BY <2>1, AmountTypes
  <2>3. Units(Owed) \in SUBSET Units(Due)
    BY <2>2 DEF Units, Amounts
  <2>4. /\ Cardinality(Units(Owed)) \in Nat /\ Cardinality(Units(Due)) \in Nat
        /\ Cardinality(Units(Owed)) <= Cardinality(Units(Due))
        /\ Cardinality(Calls) \in Nat /\ Cardinality(Calls) * MaxCost \in Nat
    BY <2>2, <2>3, UnitsType, FS_Subset
  <2>5. /\ charged <= spent + Cardinality(Units(Owed)) + unrecorded * MaxCost
        /\ spent + Cardinality(Units(Due)) <= Cap - 1 + Cardinality(Calls) * MaxCost
        /\ charged \in Nat /\ spent \in Nat /\ unrecorded \in Nat /\ MaxCost \in Nat /\ Cap \in Nat
    BY <2>1, MeteringAssumption DEF ChargesAreOwed, DueFits, TypeOK
  <2>6. (Cardinality(Calls) + unrecorded) * MaxCost
          = Cardinality(Calls) * MaxCost + unrecorded * MaxCost
        /\ unrecorded * MaxCost \in Nat
    BY <2>4, <2>5
  <2> QED BY <2>4, <2>5, <2>6
<1> QED BY <1>1, BudgetInit, BudgetStep, PTL DEF Spec

-----------------------------------------------------------------------------
(* The sliding window of OrgRateLimiter.                                   *)
LimiterTypeOK ==
  /\ clock \in Nat /\ WindowMs <= clock
  /\ admitted \in SUBSET [at : Nat, nr : Nat] /\ IsFiniteSet(admitted)
  /\ hits \in SUBSET admitted
  /\ refused \in SUBSET Nat

(* Entries have their own numbers and are not of the future; one that is   *)
(* no longer kept is too old for every window that ends now or later.      *)
EntriesKept ==
  /\ \A a \in admitted : a.at <= clock /\ a.nr < Cardinality(admitted)
  /\ \A a \in admitted \ hits : a.at <= clock - WindowMs
  /\ \A t \in refused : t <= clock

LimiterInv == LimiterTypeOK /\ EntriesKept /\ WindowHolds

LEMMA WithinType ==
  ASSUME LimiterTypeOK, NEW t \in Int
  PROVE  /\ IsFiniteSet(AdmittedWithin(t)) /\ Cardinality(AdmittedWithin(t)) \in Nat
         /\ IsFiniteSet(Entries(t)) /\ Cardinality(Entries(t)) \in Nat
<1>1. AdmittedWithin(t) \in SUBSET admitted /\ Entries(t) \in SUBSET admitted
  BY DEF AdmittedWithin, Entries, LimiterTypeOK
<1> QED BY <1>1, FS_Subset, FS_CardinalityType DEF LimiterTypeOK

LEMMA LimiterInitInv == LimiterInit => LimiterInv
<1> SUFFICES ASSUME LimiterInit PROVE LimiterInv
  OBVIOUS
<1>1. LimiterTypeOK /\ EntriesKept
  BY LimiterAssumption, FS_EmptySet DEF LimiterInit, LimiterTypeOK, EntriesKept
<1>2. \A t \in 0 .. MaxClock : Cardinality(AdmittedWithin(t)) = 0
  BY FS_EmptySet DEF LimiterInit, AdmittedWithin
<1> QED BY <1>1, <1>2, LimiterAssumption DEF LimiterInv, WindowHolds, LimiterInit

LEMMA AdmitInv ==
  ASSUME LimiterInv, NEW later \in {clock, clock + 1}, Admit(later)
  PROVE  LimiterInv'
<1> DEFINE e == NewEntry(later)
           N == Cardinality(admitted)
<1>1. /\ LimiterTypeOK /\ EntriesKept /\ WindowHolds
      /\ clock' = later /\ later \in Nat /\ clock <= later
      /\ hits' = Entries(clock) \union {e}
      /\ admitted' = admitted \union {e} /\ UNCHANGED refused
  BY DEF LimiterInv, LimiterTypeOK, Admit
<1>2. N \in Nat /\ e \in [at : Nat, nr : Nat] /\ e.at = later /\ e.nr = N /\ e \notin admitted
  <2>1. N \in Nat
    BY <1>1, FS_CardinalityType DEF LimiterTypeOK
  <2>2. e \in [at : Nat, nr : Nat] /\ e.at = later /\ e.nr = N
    BY <1>1, <2>1 DEF NewEntry
  <2> QED BY <1>1, <2>1, <2>2 DEF EntriesKept
<1>3. IsFiniteSet(admitted') /\ Cardinality(admitted') = N + 1
  BY <1>1, <1>2, FS_AddElement DEF LimiterTypeOK
<1>4. LimiterTypeOK'
  <2> HIDE DEF e
  <2> QED BY <1>1, <1>2, <1>3, LimiterAssumption DEF LimiterTypeOK, Entries
<1>5. EntriesKept'
  <2>1. ASSUME NEW a \in admitted' PROVE a.at <= clock' /\ a.nr < N + 1
    <3>1. CASE a = e BY <1>1, <1>2, <3>1
    <3>2. CASE a \in admitted
      BY <1>1, <1>2, <3>2 DEF EntriesKept, LimiterTypeOK
    <3> QED BY <1>1, <3>1, <3>2
  <2>2. ASSUME NEW a \in admitted' \ hits' PROVE a.at <= clock' - WindowMs
    <3>1. a \in admitted /\ a \notin Entries(clock) /\ a.at \in Nat /\ clock \in Nat
      BY <1>1, <2>2 DEF LimiterTypeOK
    <3>2. a.at <= clock - WindowMs
      BY <1>1, <3>1, LimiterAssumption DEF EntriesKept, Entries
    <3> QED BY <1>1, <3>1, <3>2, LimiterAssumption
  <2>3. \A t \in refused' : t <= clock'
    BY <1>1 DEF EntriesKept, LimiterTypeOK
  <2> HIDE DEF e, N
  <2> QED BY <1>3, <2>1, <2>2, <2>3 DEF EntriesKept
(* A window that ends before the new entry is as it was; a later one holds *)
(* no more than the entries kept and the new one.                          *)
<1>6. ASSUME NEW t \in 0 .. MaxClock PROVE Cardinality(AdmittedWithin(t)') <= MaxHits
  <2>1. CASE t < later
    <3>1. AdmittedWithin(t)' = AdmittedWithin(t)
      BY <1>1, <1>2, <2>1 DEF AdmittedWithin
    <3> QED BY <1>1, <3>1 DEF WindowHolds
  <2>2. CASE t >= later
    <3>1. AdmittedWithin(t)' \subseteq Entries(clock) \union {e}
      <4> SUFFICES ASSUME NEW a \in admitted, t - WindowMs < a.at PROVE a \in Entries(clock)
        BY <1>1 DEF AdmittedWithin
      <4>1. a.at \in Nat /\ clock \in Nat /\ ~(a.at <= clock - WindowMs)
        BY <1>1, <2>2, LimiterAssumption DEF LimiterTypeOK
      <4> QED BY <1>1, <4>1, LimiterAssumption DEF EntriesKept, Entries
    <3>2. /\ IsFiniteSet(Entries(clock)) /\ Cardinality(Entries(clock)) \in Nat
          /\ Cardinality(Entries(clock)) < MaxHits /\ e \notin Entries(clock)
      <4>1. clock \in Int
        BY <1>1 DEF LimiterTypeOK
      <4>2. e \notin Entries(clock)
        BY <1>1, <1>2 DEF Entries, LimiterTypeOK
      <4> QED BY <1>1, <4>1, <4>2, WithinType DEF Admit
    <3>3. /\ IsFiniteSet(Entries(clock) \union {e})
          /\ Cardinality(Entries(clock) \union {e}) = Cardinality(Entries(clock)) + 1
      BY <3>2, FS_AddElement
    <3>4. /\ Cardinality(AdmittedWithin(t)') <= Cardinality(Entries(clock) \union {e})
          /\ Cardinality(AdmittedWithin(t)') \in Nat
      BY <3>1, <3>3, FS_Subset, FS_CardinalityType
    <3> QED BY <3>2, <3>3, <3>4, LimiterAssumption
  <2> QED BY <1>1, <2>1, <2>2
<1>7. ASSUME NEW t \in refused' PROVE Cardinality(AdmittedWithin(t)') >= MaxHits
  <2>1. t \in refused /\ t \in Int /\ Cardinality(AdmittedWithin(t)) >= MaxHits
    BY <1>1 DEF WindowHolds, LimiterTypeOK
  <2>2. AdmittedWithin(t) \in SUBSET (AdmittedWithin(t)') /\ AdmittedWithin(t)' \in SUBSET admitted'
    BY <1>1 DEF AdmittedWithin
  <2>3. IsFiniteSet(AdmittedWithin(t)')
    BY <1>3, <2>2, FS_Subset
  <2>4. /\ Cardinality(AdmittedWithin(t)) <= Cardinality(AdmittedWithin(t)')
        /\ Cardinality(AdmittedWithin(t)) \in Nat /\ Cardinality(AdmittedWithin(t)') \in Nat
    BY <2>2, <2>3, FS_Subset, FS_CardinalityType
  <2> QED BY <2>1, <2>4, LimiterAssumption
<1> QED BY <1>4, <1>5, <1>6, <1>7 DEF LimiterInv, WindowHolds

LEMMA RefuseInv == ASSUME LimiterInv, Refuse PROVE LimiterInv'
<1>1. /\ LimiterTypeOK /\ EntriesKept /\ WindowHolds
      /\ UNCHANGED <<clock, hits, admitted>> /\ refused' = refused \union {clock}
      /\ clock \in Nat
  BY DEF LimiterInv, LimiterTypeOK, Refuse
<1>2. LimiterTypeOK' /\ EntriesKept'
  BY <1>1 DEF LimiterTypeOK, EntriesKept
<1>3. Cardinality(AdmittedWithin(clock)) >= MaxHits
  <2>1. Entries(clock) \in SUBSET AdmittedWithin(clock)
    BY <1>1 DEF Entries, AdmittedWithin, LimiterTypeOK, EntriesKept
  <2>2. /\ Cardinality(Entries(clock)) <= Cardinality(AdmittedWithin(clock))
        /\ Cardinality(Entries(clock)) \in Nat /\ Cardinality(AdmittedWithin(clock)) \in Nat
    BY <1>1, <2>1, WithinType, FS_Subset
  <2> QED BY <2>2, LimiterAssumption DEF Refuse
<1>4. \A t : AdmittedWithin(t)' = AdmittedWithin(t)
  BY <1>1 DEF AdmittedWithin
<1> QED BY <1>1, <1>2, <1>3, <1>4 DEF LimiterInv, WindowHolds

LEMMA LaterInv == ASSUME LimiterInv, Later \/ UNCHANGED limiterVars PROVE LimiterInv'
<1>1. /\ LimiterTypeOK /\ EntriesKept /\ WindowHolds
      /\ UNCHANGED <<hits, admitted, refused>>
      /\ clock \in Nat /\ clock' \in Nat /\ clock <= clock'
  BY DEF LimiterInv, LimiterTypeOK, Later, limiterVars
<1>2. LimiterTypeOK'
  BY <1>1, LimiterAssumption DEF LimiterTypeOK
<1>3. EntriesKept'
  <2>1. \A a \in admitted : a.at \in Nat
    BY <1>1 DEF LimiterTypeOK
  <2>2. \A t \in refused : t <= clock'
    BY <1>1 DEF EntriesKept, LimiterTypeOK
  <2>3. \A a \in admitted : a.at <= clock'
    BY <1>1, <2>1 DEF EntriesKept
  <2>4. \A a \in admitted \ hits : a.at <= clock' - WindowMs
    BY <1>1, <2>1, LimiterAssumption DEF EntriesKept
  <2> QED BY <1>1, <2>2, <2>3, <2>4 DEF EntriesKept
<1>4. \A t : AdmittedWithin(t)' = AdmittedWithin(t)
  BY <1>1 DEF AdmittedWithin
<1> QED BY <1>1, <1>2, <1>3, <1>4 DEF LimiterInv, WindowHolds

(* The limiter keeps its promise for any limit, any window and any checks. *)
THEOREM LimiterWindow == LimiterSpec => []WindowHolds
<1>1. LimiterInv /\ [LimiterNext]_limiterVars => LimiterInv'
  BY AdmitInv, RefuseInv, LaterInv DEF LimiterNext
<1> QED BY <1>1, LimiterInitInv, PTL DEF LimiterSpec, LimiterInv
=============================================================================
