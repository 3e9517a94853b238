--------------------------- MODULE PlatformProofs ---------------------------
(***************************************************************************)
(* Proofs about the parts around the instances: the way of a request to    *)
(* its handler, for any callers, limits and number of requests, the slots  *)
(* of the inference gateway, for any prompts, backends and sizes, the      *)
(* launches of GPU instances, for any nodes, devices and restarts, the     *)
(* Kubernetes objects of an instance, for any orders, failing calls and    *)
(* turns of its pods, and the start of the control plane, with any         *)
(* settings.                                                               *)
(***************************************************************************)
EXTENDS RequestPath, GpuLaunches, InferenceGateway, StartUp, PodObjects, SumTheorems, TLAPS

-----------------------------------------------------------------------------
(***************************************************************************)
(* Requests.  What is let through in a window was counted in it, and what  *)
(* was counted is compared before the next one is let through.             *)
(***************************************************************************)
RequestSpec == RequestInit /\ [][RequestNext]_traffic

Traffic == [counted : [Addresses -> Nat], created : [Addresses -> Nat],
            second : [Addresses -> Nat], minute : [Addresses -> Nat],
            session : BOOLEAN, redis : BOOLEAN, blind : BOOLEAN, calls : Nat,
            agent : [end : Asked, open : BOOLEAN]]

WindowsCounted ==
  /\ ~traffic.redis => traffic.blind
  /\ ~traffic.blind /\ ~DryRun =>
       \A c \in Addresses :
         /\ traffic.second[c] <= traffic.counted[c] /\ traffic.second[c] <= TierLimit
         /\ traffic.minute[c] <= traffic.created[c] /\ traffic.minute[c] <= CreateLimit

TrafficInv == traffic \in Traffic /\ WindowsCounted /\ AgentsConfined

LEMMA AskedKnown ==
  /\ Asked = {"health", "attach", "create", "complete", "approve", "prices"}
  /\ \A e \in Asked : HasLimit(e) => e = "create" /\ Ends[e].limit = CreateLimit
  /\ \A e \in Asked : Ends[e].agent => e \in {"create", "complete"}
  /\ \A e \in Asked : Ends[e].who = "anyone" => e = "health"
  /\ \A e \in Asked : HasLimit(e) => ~Exempt(e)
BY RateAssumption DEF Asked, Ends, End, HasLimit, Exempt

LEMMA TrafficFields ==
  ASSUME NEW x \in Traffic
  PROVE  /\ x.counted \in [Addresses -> Nat] /\ x.created \in [Addresses -> Nat]
         /\ x.second \in [Addresses -> Nat] /\ x.minute \in [Addresses -> Nat]
         /\ x.session \in BOOLEAN /\ x.redis \in BOOLEAN /\ x.blind \in BOOLEAN
         /\ x.calls \in Nat /\ x.agent \in [end : Asked, open : BOOLEAN]
         /\ x = [counted |-> x.counted, created |-> x.created, second |-> x.second,
                 minute |-> x.minute, session |-> x.session, redis |-> x.redis,
                 blind |-> x.blind, calls |-> x.calls, agent |-> x.agent]
BY DEF Traffic

LEMMA RequestInitHolds == RequestInit => TrafficInv
<1> SUFFICES ASSUME RequestInit PROVE TrafficInv
  OBVIOUS
<1>1. Quiet \in [Addresses -> Nat] /\ Unasked \in [end : Asked, open : BOOLEAN]
  BY AskedKnown DEF Quiet, Unasked
<1>2. traffic \in Traffic
  BY <1>1 DEF RequestInit, Traffic
<1>3. WindowsCounted
  BY RateAssumption DEF RequestInit, WindowsCounted, Quiet
<1>4. AgentsConfined
  BY DEF RequestInit, AgentsConfined, Unasked
<1> QED BY <1>2, <1>3, <1>4 DEF TrafficInv

\* What the limiter counts, and when it lets a request through.
LEMMA LimiterCounts ==
  ASSUME traffic \in Traffic, NEW c \in Addresses, NEW e \in Asked
  PROVE  LET x == Counted(c, e) IN
         /\ x \in Traffic
         /\ x.second = traffic.second /\ x.minute = traffic.minute /\ x.calls = traffic.calls
         /\ x.session = traffic.session /\ x.redis = traffic.redis /\ x.blind = traffic.blind
         /\ x.agent = traffic.agent
         /\ \A a \in Addresses : /\ traffic.counted[a] <= x.counted[a]
                                 /\ traffic.created[a] <= x.created[a]
         /\ Allowed(c, e) /\ traffic.redis /\ ~DryRun =>
              /\ ~Exempt(e) => x.counted[c] = traffic.counted[c] + 1 /\ traffic.counted[c] < TierLimit
              /\ HasLimit(e) => x.created[c] = traffic.created[c] + 1 /\ traffic.created[c] < CreateLimit
<1> DEFINE x == Counted(c, e)
           counted == [traffic.counted EXCEPT ![c] = IF OverEndpoint(c, e) THEN @ ELSE @ + 1]
           created == [traffic.created EXCEPT ![c] = IF HasLimit(e) THEN @ + 1 ELSE @]
<1>1. counted \in [Addresses -> Nat] /\ created \in [Addresses -> Nat]
  BY TrafficFields
<1>2. CASE Exempt(e) \/ ~traffic.redis
  <2>1. x = traffic
    BY <1>2 DEF Counted
  <2>2. \A n \in Nat : n <= n
    OBVIOUS
  <2> QED BY <1>2, <2>1, <2>2, AskedKnown, TrafficFields
<1>3. CASE ~(Exempt(e) \/ ~traffic.redis)
  <2>1. x = [traffic EXCEPT !.created = created, !.counted = counted]
    BY <1>3 DEF Counted
  <2> HIDE DEF counted, created, x
  <2>2. /\ x \in Traffic /\ x.counted = counted /\ x.created = created
        /\ x.second = traffic.second /\ x.minute = traffic.minute /\ x.calls = traffic.calls
        /\ x.session = traffic.session /\ x.redis = traffic.redis /\ x.blind = traffic.blind
        /\ x.agent = traffic.agent
    BY <1>1, <2>1, TrafficFields DEF Traffic
  <2> USE DEF counted, created
  <2>3. \A a \in Addresses : /\ traffic.counted[a] <= x.counted[a]
                             /\ traffic.created[a] <= x.created[a]
    BY <2>2, TrafficFields
  <2>4. ASSUME Allowed(c, e), ~DryRun
        PROVE  /\ x.counted[c] = traffic.counted[c] + 1 /\ traffic.counted[c] < TierLimit
               /\ HasLimit(e) => x.created[c] = traffic.created[c] + 1 /\ traffic.created[c] < CreateLimit
    <3>1. ~OverEndpoint(c, e) /\ ~OverTier(c)
      BY <1>3, <2>4 DEF Allowed
    <3> QED BY <2>2, <3>1, AskedKnown, TrafficFields, RateAssumption DEF OverEndpoint, OverTier
  <2> QED BY <2>2, <2>3, <2>4 DEF x
<1> QED BY <1>2, <1>3

LEMMA ArrivesHolds ==
  ASSUME TrafficInv, NEW c \in Addresses, NEW e \in Asked, NEW cred \in Credentials,
         NEW project \in BOOLEAN, Arrives(c, e, cred, project)
  PROVE  TrafficInv'
<1>1. traffic \in Traffic /\ WindowsCounted /\ AgentsConfined
  BY DEF TrafficInv
<1> DEFINE x == Counted(c, e)
           second == [x.second EXCEPT ![c] = IF Exempt(e) THEN @ ELSE @ + 1]
           minute == [x.minute EXCEPT ![c] = IF HasLimit(e) THEN @ + 1 ELSE @]
           agent == IF cred = "agent" /\ MayReach(cred, e, project)
                    THEN [end |-> e, open |-> traffic.session] ELSE x.agent
<1>2. /\ x \in Traffic
      /\ x.second = traffic.second /\ x.minute = traffic.minute /\ x.calls = traffic.calls
      /\ x.session = traffic.session /\ x.redis = traffic.redis /\ x.blind = traffic.blind
      /\ x.agent = traffic.agent
      /\ \A a \in Addresses : /\ traffic.counted[a] <= x.counted[a]
                              /\ traffic.created[a] <= x.created[a]
      /\ Allowed(c, e) /\ traffic.redis /\ ~DryRun =>
           /\ ~Exempt(e) => x.counted[c] = traffic.counted[c] + 1 /\ traffic.counted[c] < TierLimit
           /\ HasLimit(e) => x.created[c] = traffic.created[c] + 1 /\ traffic.created[c] < CreateLimit
  BY <1>1, LimiterCounts
<1>3. /\ second \in [Addresses -> Nat] /\ minute \in [Addresses -> Nat]
      /\ agent \in [end : Asked, open : BOOLEAN]
  <2>1. x.second \in [Addresses -> Nat] /\ x.minute \in [Addresses -> Nat]
        /\ x.agent \in [end : Asked, open : BOOLEAN] /\ traffic.session \in BOOLEAN
    BY <1>1, <1>2, TrafficFields
  <2> HIDE DEF x
  <2> QED BY <2>1
<1>4. traffic' = IF Allowed(c, e)
                 THEN [x EXCEPT !.calls = @ + 1, !.second = second, !.minute = minute, !.agent = agent]
                 ELSE [x EXCEPT !.calls = @ + 1]
  <2>1. x \in Traffic
    BY <1>2
  <2>2. x = [counted |-> x.counted, created |-> x.created, second |-> x.second,
             minute |-> x.minute, session |-> x.session, redis |-> x.redis,
             blind |-> x.blind, calls |-> x.calls, agent |-> x.agent]
    BY <2>1, TrafficFields
  <2> QED BY <2>2 DEF Arrives
<1> HIDE DEF x, second, minute, agent
<1>5. /\ traffic' \in Traffic
      /\ traffic'.counted = x.counted /\ traffic'.created = x.created
      /\ traffic'.redis = x.redis /\ traffic'.blind = x.blind
      /\ traffic'.second = IF Allowed(c, e) THEN second ELSE x.second
      /\ traffic'.minute = IF Allowed(c, e) THEN minute ELSE x.minute
      /\ traffic'.agent = IF Allowed(c, e) THEN agent ELSE x.agent
  <2>1. /\ x.counted \in [Addresses -> Nat] /\ x.created \in [Addresses -> Nat]
        /\ x.second \in [Addresses -> Nat] /\ x.minute \in [Addresses -> Nat]
        /\ x.session \in BOOLEAN /\ x.redis \in BOOLEAN /\ x.blind \in BOOLEAN
        /\ x.calls + 1 \in Nat /\ x.agent \in [end : Asked, open : BOOLEAN]
        /\ x = [counted |-> x.counted, created |-> x.created, second |-> x.second,
                minute |-> x.minute, session |-> x.session, redis |-> x.redis,
                blind |-> x.blind, calls |-> x.calls, agent |-> x.agent]
    BY <1>2, TrafficFields
  <2>2. PICK n \in Nat : n = x.calls + 1
    BY <2>1
  <2>3. traffic' = IF Allowed(c, e)
                   THEN [x EXCEPT !.calls = n, !.second = second, !.minute = minute, !.agent = agent]
                   ELSE [x EXCEPT !.calls = n]
    BY <1>4, <2>2
  <2>4. CASE Allowed(c, e)
    BY <1>3, <2>1, <2>3, <2>4 DEF Traffic
  <2>5. CASE ~Allowed(c, e)
    BY <1>3, <2>1, <2>3, <2>5 DEF Traffic
  <2> QED BY <2>4, <2>5
<1>6. WindowsCounted'
  <2>1. ~traffic'.redis => traffic'.blind
    BY <1>1, <1>2, <1>5 DEF WindowsCounted
  <2>2. ASSUME ~traffic'.blind, ~DryRun, NEW a \in Addresses
        PROVE  /\ traffic'.second[a] <= traffic'.counted[a] /\ traffic'.second[a] <= TierLimit
               /\ traffic'.minute[a] <= traffic'.created[a] /\ traffic'.minute[a] <= CreateLimit
    <3>1. traffic.redis
      BY <1>1, <1>2, <1>5, <2>2 DEF WindowsCounted
    <3>2. /\ traffic.second[a] <= traffic.counted[a] /\ traffic.second[a] <= TierLimit
          /\ traffic.minute[a] <= traffic.created[a] /\ traffic.minute[a] <= CreateLimit
      BY <1>1, <1>2, <1>5, <2>2 DEF WindowsCounted
    <3>3. /\ traffic.second[a] \in Nat /\ traffic.counted[a] \in Nat
          /\ traffic.minute[a] \in Nat /\ traffic.created[a] \in Nat
          /\ x.counted[a] \in Nat /\ x.created[a] \in Nat
          /\ TierLimit \in Nat /\ CreateLimit \in Nat
      BY <1>1, <1>2, TrafficFields, RateAssumption
    <3>4. second[a] = IF Exempt(e) \/ a # c THEN traffic.second[a] ELSE traffic.second[a] + 1
      BY <1>1, <1>2, TrafficFields DEF second
    <3>5. minute[a] = IF ~HasLimit(e) \/ a # c THEN traffic.minute[a] ELSE traffic.minute[a] + 1
      BY <1>1, <1>2, TrafficFields DEF minute
    <3>6. CASE ~Allowed(c, e)
      BY <1>2, <1>5, <3>2, <3>3, <3>6
    <3>7. CASE Allowed(c, e)
      <4>1. second[a] <= x.counted[a] /\ second[a] <= TierLimit
        BY <1>2, <2>2, <3>1, <3>2, <3>3, <3>4, <3>7
      <4>2. minute[a] <= x.created[a] /\ minute[a] <= CreateLimit
        BY <1>2, <2>2, <3>1, <3>2, <3>3, <3>5, <3>7
      <4> QED BY <1>5, <3>7, <4>1, <4>2
    <3> QED BY <3>6, <3>7
  <2> QED BY <2>1, <2>2 DEF WindowsCounted
<1>7. AgentsConfined'
  <2>1. CASE traffic'.agent = traffic.agent
    BY <1>1, <2>1 DEF AgentsConfined
  <2>2. CASE cred = "agent" /\ MayReach(cred, e, project) /\ traffic'.agent = [end |-> e, open |-> traffic.session]
    <3>1. Ends[e].who \in {"anyone", "ticket", "operator", "project"}
      BY DEF Ends, End, Asked
    <3>2. e = "health" \/ (traffic.session /\ Ends[e].agent)
      BY <2>2, <3>1, AskedKnown DEF MayReach, Signed
    <3> QED BY <2>2, <3>2, AskedKnown DEF AgentsConfined
  <2> QED BY <1>2, <1>5, <2>1, <2>2 DEF agent
<1> QED BY <1>5, <1>6, <1>7 DEF TrafficInv

\* A window that passes takes what was let through with what was counted.
LEMMA WindowsReset ==
  ASSUME TrafficInv, traffic' \in Traffic, traffic'.agent = traffic.agent,
         \/ traffic'.second = traffic.second /\ traffic'.counted = traffic.counted
         \/ traffic'.second = Quiet /\ traffic'.counted = Quiet,
         \/ traffic'.minute = traffic.minute /\ traffic'.created = traffic.created
         \/ traffic'.minute = Quiet /\ traffic'.created = Quiet,
         ~traffic'.redis => traffic'.blind, traffic.blind => traffic'.blind
  PROVE  TrafficInv'
<1>1. traffic \in Traffic /\ WindowsCounted /\ AgentsConfined
  BY DEF TrafficInv
<1>2. \A a \in Addresses : Quiet[a] = 0
  BY DEF Quiet
<1>3. ASSUME ~traffic'.blind, ~DryRun, NEW a \in Addresses
      PROVE  /\ traffic'.second[a] <= traffic'.counted[a] /\ traffic'.second[a] <= TierLimit
             /\ traffic'.minute[a] <= traffic'.created[a] /\ traffic'.minute[a] <= CreateLimit
  <2>1. /\ traffic.second[a] <= traffic.counted[a] /\ traffic.second[a] <= TierLimit
        /\ traffic.minute[a] <= traffic.created[a] /\ traffic.minute[a] <= CreateLimit
    BY <1>1, <1>3 DEF WindowsCounted
  <2> QED BY <1>2, <2>1, RateAssumption
<1>4. WindowsCounted'
  BY <1>3 DEF WindowsCounted
<1>5. AgentsConfined'
  BY <1>1 DEF AgentsConfined
<1> QED BY <1>4, <1>5 DEF TrafficInv

LEMMA WindowPassesHolds ==
  ASSUME TrafficInv, SecondPasses \/ MinutePasses \/ RedisFails \/ EndSession
  PROVE  TrafficInv'
<1>1. traffic \in Traffic /\ Quiet \in [Addresses -> Nat] /\ (~traffic.redis => traffic.blind)
  BY DEF TrafficInv, WindowsCounted, Quiet
<1>2. /\ traffic.counted \in [Addresses -> Nat] /\ traffic.created \in [Addresses -> Nat]
      /\ traffic.second \in [Addresses -> Nat] /\ traffic.minute \in [Addresses -> Nat]
      /\ traffic.session \in BOOLEAN /\ traffic.redis \in BOOLEAN /\ traffic.blind \in BOOLEAN
      /\ traffic = [counted |-> traffic.counted, created |-> traffic.created,
                    second |-> traffic.second, minute |-> traffic.minute,
                    session |-> traffic.session, redis |-> traffic.redis,
                    blind |-> traffic.blind, calls |-> traffic.calls, agent |-> traffic.agent]
  BY <1>1, TrafficFields
<1>3. CASE SecondPasses
  <2>1. traffic' = [counted |-> Quiet, created |-> traffic.created, second |-> Quiet,
                    minute |-> traffic.minute, session |-> traffic.session,
                    redis |-> traffic.redis, blind |-> traffic.blind,
                    calls |-> traffic.calls, agent |-> traffic.agent]
    BY <1>2, <1>3 DEF SecondPasses
  <2>2. traffic' \in Traffic
    BY <1>1, <1>2, <2>1, TrafficFields DEF Traffic
  <2> QED BY <1>1, <1>2, <2>1, <2>2, WindowsReset
<1>4. CASE MinutePasses
  <2>1. traffic' = [counted |-> Quiet, created |-> Quiet, second |-> Quiet, minute |-> Quiet,
                    session |-> traffic.session, redis |-> traffic.redis,
                    blind |-> traffic.blind, calls |-> traffic.calls, agent |-> traffic.agent]
    BY <1>2, <1>4 DEF MinutePasses
  <2>2. traffic' \in Traffic
    BY <1>1, <1>2, <2>1, TrafficFields DEF Traffic
  <2> QED BY <1>1, <1>2, <2>1, <2>2, WindowsReset
<1>5. CASE RedisFails
  <2>1. traffic' = [counted |-> traffic.counted, created |-> traffic.created,
                    second |-> traffic.second, minute |-> traffic.minute,
                    session |-> traffic.session, redis |-> FALSE, blind |-> TRUE,
                    calls |-> traffic.calls, agent |-> traffic.agent]
    BY <1>2, <1>5 DEF RedisFails
  <2>2. traffic' \in Traffic
    BY <1>1, <1>2, <2>1, TrafficFields DEF Traffic
  <2> QED BY <1>1, <1>2, <2>1, <2>2, WindowsReset
<1>6. CASE EndSession
  <2>1. traffic' = [counted |-> traffic.counted, created |-> traffic.created,
                    second |-> traffic.second, minute |-> traffic.minute,
                    session |-> FALSE, redis |-> traffic.redis, blind |-> traffic.blind,
                    calls |-> traffic.calls, agent |-> traffic.agent]
    BY <1>2, <1>6 DEF EndSession
  <2>2. traffic' \in Traffic
    BY <1>1, <1>2, <2>1, TrafficFields DEF Traffic
  <2> QED BY <1>1, <1>2, <2>1, <2>2, WindowsReset
<1> QED BY <1>3, <1>4, <1>5, <1>6

\* While Redis has always answered and the limits are enforced, no caller gets
\* more requests through in a second, or instances created in a minute, than
\* the limits say, whatever it mixes; and an agent reaches only its own routes,
\* while its session is open (ratelimit/middleware.go, auth/middleware.go).
THEOREM RequestsLimited == RequestSpec => []RequestsHeld
<1>1. TrafficInv /\ [RequestNext]_traffic => TrafficInv'
  <2> SUFFICES ASSUME TrafficInv, [RequestNext]_traffic PROVE TrafficInv'
    OBVIOUS
  <2>1. CASE UNCHANGED traffic
    BY <2>1 DEF TrafficInv, WindowsCounted, AgentsConfined
  <2> QED BY <2>1, ArrivesHolds, WindowPassesHolds DEF RequestNext
<1>2. TrafficInv => RequestsHeld
  BY DEF TrafficInv, WindowsCounted, RequestsHeld, RatesHold
<1> QED BY RequestInitHolds, <1>1, <1>2, PTL DEF RequestSpec

-----------------------------------------------------------------------------
(***************************************************************************)
(* Slots.  A request holds its account's slot, its backend's count and a   *)
(* token of one of the backend's channels in exactly the states in which   *)
(* it still has to give them back.                                         *)
(***************************************************************************)
AccountPcs == {"slotted", "queued", "tokened", "serving", "answered", "released", "counted"}
BackendPcs == {"serving", "answered", "released"}
TokenPcs   == {"tokened", "serving", "answered"}

Pcs == {"idle", "reading", "admitted", "billing", "drawn"} \cup AccountPcs

Request == [pc : Pcs, read : Int, on : Backends \cup {NoBackend}, sem : Nat, cost : Nat]
Channel == [cap : Nat, used : Int]

GatewayTypeOK ==
  /\ reqs \in [Prompts -> Request]
  /\ accountInFlight \in [Accounts -> Int]
  /\ inFlight \in [Backends -> Int]
  /\ sems \in [Backends -> Seq(Channel)]
  /\ mounts \in [Backends -> Nat]
  /\ credit \in [Accounts -> Nat]
  /\ cached \in [Accounts -> Seq(Int)]
  /\ grants \in Nat
  /\ remounts \in Nat

\* Who has a place at a backend has a channel of it; who has not been admitted
\* has none.
Placed(x) ==
  \/ x.on = NoBackend /\ x.sem = 0 /\ x.pc \notin {"queued", "tokened", "released"}
  \/ /\ x.on \in Backends /\ x.sem \in 1 .. Len(sems[x.on])
     /\ x.pc \in AccountPcs \ {"slotted"}

AtAccount(x, r, a) == x.pc \in AccountPcs /\ Asker[r] = a
AtBackend(x, b)    == x.pc \in BackendPcs /\ x.on = b
AtChannel(x, b, s) == x.pc \in TokenPcs /\ x.on = b /\ x.sem = s

OfAccount(a)    == {r \in Prompts : AtAccount(reqs[r], r, a)}
OfBackend(b)    == {r \in Prompts : AtBackend(reqs[r], b)}
OfChannel(b, s) == {r \in Prompts : AtChannel(reqs[r], b, s)}

Exact ==
  /\ \A a \in Accounts : accountInFlight[a] = Cardinality(OfAccount(a))
  /\ \A b \in Backends : inFlight[b] = Cardinality(OfBackend(b))
  /\ \A b \in Backends : \A s \in 1 .. Len(sems[b]) :
       sems[b][s].used = Cardinality(OfChannel(b, s))

NotOverfull == \A b \in Backends : \A s \in 1 .. Len(sems[b]) : sems[b][s].used <= sems[b][s].cap

SlotsInv ==
  /\ GatewayTypeOK
  /\ \A r \in Prompts : Placed(reqs[r])
  /\ Exact
  /\ NotOverfull

LEMMA ExactIsSlotsExact ==
  ASSUME GatewayTypeOK, Exact, NotOverfull
  PROVE  SlotsExact
<1>1. \A a \in Accounts : OfAccount(a) = {r \in Holding({"slotted", "queued", "tokened",
        "serving", "answered", "released", "counted"}) : Asker[r] = a}
  BY DEF OfAccount, AtAccount, AccountPcs, Holding
<1>2. \A b \in Backends : OfBackend(b) = {r \in Holding({"serving", "answered", "released"}) :
                                             reqs[r].on = b}
  BY DEF OfBackend, AtBackend, BackendPcs, Holding
<1>3. \A b \in Backends : \A s \in 1 .. Len(sems[b]) :
        OfChannel(b, s) = {r \in Holding({"tokened", "serving", "answered"}) :
                             reqs[r].on = b /\ reqs[r].sem = s}
  BY DEF OfChannel, AtChannel, TokenPcs, Holding
<1>4. \A b \in Backends : DOMAIN sems[b] = 1 .. Len(sems[b])
  BY DEF GatewayTypeOK
<1>5. \A a \in Accounts :
        accountInFlight[a] = Cardinality({r \in Holding({"slotted", "queued", "tokened",
             "serving", "answered", "released", "counted"}) : Asker[r] = a})
  BY <1>1 DEF Exact
<1>6. \A b \in Backends :
        inFlight[b] = Cardinality({r \in Holding({"serving", "answered", "released"}) :
                                         reqs[r].on = b})
  BY <1>2 DEF Exact
<1>7. ASSUME NEW b \in Backends, NEW s \in DOMAIN sems[b]
      PROVE  /\ sems[b][s].used = Cardinality({r \in Holding({"tokened", "serving", "answered"}) :
                                                  reqs[r].on = b /\ reqs[r].sem = s})
             /\ sems[b][s].used <= sems[b][s].cap
  <2>1. s \in 1 .. Len(sems[b])
    BY <1>4
  <2>2. sems[b][s].used = Cardinality(OfChannel(b, s))
    BY <2>1 DEF Exact
  <2>3. OfChannel(b, s) = {r \in Holding({"tokened", "serving", "answered"}) :
                             reqs[r].on = b /\ reqs[r].sem = s}
    BY <1>3, <2>1
  <2>4. sems[b][s].used <= sems[b][s].cap
    BY <2>1 DEF NotOverfull
  <2> QED BY <2>2, <2>3, <2>4
<1> QED BY <1>5, <1>6, <1>7 DEF SlotsExact

\* How one element more or less counts.
One(b) == IF b THEN 1 ELSE 0

LEMMA CountMoves ==
  ASSUME NEW S, S \subseteq Prompts, NEW T, NEW r \in Prompts, T \subseteq Prompts,
         \A x \in Prompts : x # r => (x \in T <=> x \in S)
  PROVE  /\ Cardinality(S) \in Nat
         /\ Cardinality(T) = Cardinality(S) + One(r \in T) - One(r \in S)
         /\ One(r \in S) <= Cardinality(S)
<1>1. IsFiniteSet(S) /\ Cardinality(S) \in Nat
  BY GatewayAssumption, FS_Subset, FS_CardinalityType
<1>2. CASE (r \in T) = (r \in S)
  <2>1. T = S
    BY <1>2
  <2>2. Cardinality(S) = 0 <=> S = {}
    BY <1>1, FS_EmptySet
  <2> QED BY <1>1, <1>2, <2>1, <2>2 DEF One
<1>3. CASE r \in T /\ r \notin S
  <2>1. T = S \cup {r}
    BY <1>3
  <2>2. Cardinality(T) = Cardinality(S) + 1
    BY <1>1, <1>3, <2>1, FS_AddElement
  <2> QED BY <1>1, <1>3, <2>2 DEF One
<1>4. CASE r \notin T /\ r \in S
  <2>1. T = S \ {r}
    BY <1>4
  <2>2. Cardinality(T) = Cardinality(S) - 1
    BY <1>1, <1>4, <2>1, FS_RemoveElement
  <2>3. Cardinality(S) # 0
    BY <1>1, <1>4, FS_EmptySet
  <2> QED BY <1>1, <1>4, <2>2, <2>3 DEF One
<1> QED BY <1>2, <1>3, <1>4

\* The counters move with request r, which becomes q, and a channel that is
\* new has nobody else.
AccountsFollow(r, q) ==
  \A a \in Accounts :
    accountInFlight'[a] = accountInFlight[a] + One(AtAccount(q, r, a)) - One(AtAccount(reqs[r], r, a))

BackendsFollow(r, q) ==
  \A b \in Backends :
    inFlight'[b] = inFlight[b] + One(AtBackend(q, b)) - One(AtBackend(reqs[r], b))

ChannelsFollow(r, q) ==
  \A b \in Backends :
    /\ Len(sems[b]) <= Len(sems'[b])
    /\ \A s \in 1 .. Len(sems[b]) :
         sems'[b][s].used = sems[b][s].used + One(AtChannel(q, b, s)) - One(AtChannel(reqs[r], b, s))
    /\ \A s \in 1 .. Len(sems'[b]) :
         s > Len(sems[b]) => sems'[b][s].used = One(AtChannel(q, b, s))

LEMMA RequestMoves ==
  ASSUME SlotsInv, GatewayTypeOK', NEW r \in Prompts, NEW q \in Request,
         reqs' = [reqs EXCEPT ![r] = q], AccountsFollow(r, q), BackendsFollow(r, q), ChannelsFollow(r, q),
         Placed(q)', NotOverfull'
  PROVE  SlotsInv'
<1>1. GatewayTypeOK /\ Exact /\ \A x \in Prompts : Placed(reqs[x])
  BY DEF SlotsInv
<1>2. reqs'[r] = q /\ \A x \in Prompts : x # r => reqs'[x] = reqs[x]
  BY <1>1 DEF GatewayTypeOK
<1>3. \A b \in Backends : /\ Len(sems[b]) \in Nat /\ Len(sems'[b]) \in Nat
                          /\ \A s \in 1 .. Len(sems[b]) : s \in 1 .. Len(sems'[b])
  BY <1>1 DEF GatewayTypeOK, ChannelsFollow
<1>4. ASSUME NEW x \in Prompts PROVE Placed(reqs[x])'
  <2>1. CASE x = r
    BY <1>2, <2>1 DEF Placed
  <2>2. CASE x # r
    <3>1. reqs'[x] = reqs[x] /\ Placed(reqs[x])
      BY <1>1, <1>2, <2>2
    <3> QED BY <1>3, <3>1 DEF Placed
  <2> QED BY <2>1, <2>2
<1>5. ASSUME NEW a \in Accounts PROVE accountInFlight'[a] = Cardinality(OfAccount(a))'
  <2> DEFINE S == OfAccount(a)
             T == OfAccount(a)'
  <2>1. S \subseteq Prompts /\ T \subseteq Prompts
    BY DEF OfAccount
  <2>2. \A x \in Prompts : x # r => (x \in T <=> x \in S)
    BY <1>2 DEF OfAccount
  <2>3. (r \in S <=> AtAccount(reqs[r], r, a)) /\ (r \in T <=> AtAccount(q, r, a))
    BY <1>2 DEF OfAccount, AtAccount
  <2>4. accountInFlight[a] = Cardinality(S)
    BY <1>1 DEF Exact
  <2> HIDE DEF S, T
  <2>5. Cardinality(T) = Cardinality(S) + One(r \in T) - One(r \in S)
    BY <2>1, <2>2, CountMoves
  <2>6. One(r \in T) = One(AtAccount(q, r, a)) /\ One(r \in S) = One(AtAccount(reqs[r], r, a))
    BY <2>3 DEF One
  <2>7. accountInFlight'[a] = Cardinality(T)
    BY <2>4, <2>5, <2>6 DEF AccountsFollow
  <2> QED BY <2>7 DEF T
<1>6. ASSUME NEW b \in Backends PROVE inFlight'[b] = Cardinality(OfBackend(b))'
  <2> DEFINE S == OfBackend(b)
             T == OfBackend(b)'
  <2>1. S \subseteq Prompts /\ T \subseteq Prompts
    BY DEF OfBackend
  <2>2. \A x \in Prompts : x # r => (x \in T <=> x \in S)
    BY <1>2 DEF OfBackend
  <2>3. (r \in S <=> AtBackend(reqs[r], b)) /\ (r \in T <=> AtBackend(q, b))
    BY <1>2 DEF OfBackend, AtBackend
  <2>4. inFlight[b] = Cardinality(S)
    BY <1>1 DEF Exact
  <2> HIDE DEF S, T
  <2>5. Cardinality(T) = Cardinality(S) + One(r \in T) - One(r \in S)
    BY <2>1, <2>2, CountMoves
  <2>6. One(r \in T) = One(AtBackend(q, b)) /\ One(r \in S) = One(AtBackend(reqs[r], b))
    BY <2>3 DEF One
  <2>7. inFlight'[b] = Cardinality(T)
    BY <2>4, <2>5, <2>6 DEF BackendsFollow
  <2> QED BY <2>7 DEF T
<1>7. ASSUME NEW b \in Backends, NEW s \in 1 .. Len(sems'[b])
      PROVE  sems'[b][s].used = Cardinality(OfChannel(b, s))'
  <2> DEFINE S == OfChannel(b, s)
             T == OfChannel(b, s)'
  <2>1. S \subseteq Prompts /\ T \subseteq Prompts
    BY DEF OfChannel
  <2>2. \A x \in Prompts : x # r => (x \in T <=> x \in S)
    BY <1>2 DEF OfChannel
  <2>3. (r \in S <=> AtChannel(reqs[r], b, s)) /\ (r \in T <=> AtChannel(q, b, s))
    BY <1>2 DEF OfChannel, AtChannel
  <2>4. s \in 1 .. Len(sems[b]) => sems[b][s].used = Cardinality(S)
    BY <1>1 DEF Exact
  <2>5. s > Len(sems[b]) => S = {}
    <3>1. \A x \in Prompts : reqs[x].on = b /\ reqs[x].sem = s => s \in 1 .. Len(sems[b])
      BY <1>1, GatewayAssumption DEF Placed
    <3> QED BY <1>3, <3>1 DEF OfChannel, AtChannel
  <2> HIDE DEF S, T
  <2>6. /\ Cardinality(T) = Cardinality(S) + One(r \in T) - One(r \in S)
        /\ Cardinality(S) \in Nat
    BY <2>1, <2>2, CountMoves
  <2>7. One(r \in T) = One(AtChannel(q, b, s)) /\ One(r \in S) = One(AtChannel(reqs[r], b, s))
    BY <2>3 DEF One
  <2>8. CASE s \in 1 .. Len(sems[b])
    <3>1. sems'[b][s].used = sems[b][s].used + One(AtChannel(q, b, s)) - One(AtChannel(reqs[r], b, s))
      BY <2>8 DEF ChannelsFollow
    <3>2. sems'[b][s].used = Cardinality(T)
      BY <2>4, <2>6, <2>7, <2>8, <3>1
    <3> QED BY <3>2 DEF T
  <2>9. CASE s > Len(sems[b])
    <3>1. Cardinality(S) = 0 /\ One(r \in S) = 0
      BY <2>5, <2>9, FS_EmptySet DEF One
    <3>2. sems'[b][s].used = One(AtChannel(q, b, s))
      BY <2>9 DEF ChannelsFollow
    <3>3. One(r \in T) \in Nat
      BY DEF One
    <3>4. sems'[b][s].used = Cardinality(T)
      BY <2>6, <2>7, <3>1, <3>2, <3>3
    <3> QED BY <3>4 DEF T
  <2> QED BY <1>3, <2>8, <2>9
<1>8. Exact'
  BY <1>5, <1>6, <1>7 DEF Exact
<1> QED BY <1>4, <1>8 DEF SlotsInv

\* A request that goes on: its fields, and its state alone.
LEMMA RequestParts ==
  ASSUME NEW x \in Request
  PROVE  /\ x.pc \in Pcs /\ x.read \in Int /\ x.on \in Backends \cup {NoBackend}
         /\ x.sem \in Nat /\ x.cost \in Nat
         /\ \A pc \in Pcs : LET q == [x EXCEPT !.pc = pc] IN
              /\ q \in Request /\ q.pc = pc /\ q.on = x.on /\ q.sem = x.sem /\ q.cost = x.cost
<1>1. /\ x.pc \in Pcs /\ x.read \in Int /\ x.on \in Backends \cup {NoBackend}
      /\ x.sem \in Nat /\ x.cost \in Nat
      /\ x = [pc |-> x.pc, read |-> x.read, on |-> x.on, sem |-> x.sem, cost |-> x.cost]
  BY DEF Request
<1> QED BY <1>1 DEF Request

LEMMA RequestReads ==
  ASSUME NEW x \in Request, NEW n \in Int
  PROVE  LET q == [x EXCEPT !.read = n] IN
         q \in Request /\ q.pc = x.pc /\ q.on = x.on /\ q.sem = x.sem
<1>1. /\ x.pc \in Pcs /\ x.read \in Int /\ x.on \in Backends \cup {NoBackend}
      /\ x.sem \in Nat /\ x.cost \in Nat
      /\ x = [pc |-> x.pc, read |-> x.read, on |-> x.on, sem |-> x.sem, cost |-> x.cost]
  BY DEF Request
<1> QED BY <1>1 DEF Request

LEMMA NewRequestParts ==
  /\ NewRequest \in Request /\ NewRequest.pc = "idle"
  /\ NewRequest.on = NoBackend /\ NewRequest.sem = 0
BY DEF NewRequest, Request, Pcs

\* Counters that stay, because r holds what it held.
LEMMA AccountsSame ==
  ASSUME GatewayTypeOK, NEW r \in Prompts, NEW q, UNCHANGED accountInFlight,
         q.pc \in AccountPcs <=> reqs[r].pc \in AccountPcs
  PROVE  AccountsFollow(r, q)
<1>1. \A a \in Accounts : accountInFlight[a] \in Int
  BY DEF GatewayTypeOK
<1>2. \A a \in Accounts : One(AtAccount(q, r, a)) = One(AtAccount(reqs[r], r, a))
                          /\ One(AtAccount(q, r, a)) \in Int
  BY DEF AtAccount, One
<1> QED BY <1>1, <1>2 DEF AccountsFollow

LEMMA BackendsSame ==
  ASSUME GatewayTypeOK, NEW r \in Prompts, NEW q, UNCHANGED inFlight,
         \A b \in Backends : AtBackend(q, b) <=> AtBackend(reqs[r], b)
  PROVE  BackendsFollow(r, q)
<1>1. \A b \in Backends : inFlight[b] \in Int
  BY DEF GatewayTypeOK
<1>2. \A b \in Backends : One(AtBackend(q, b)) = One(AtBackend(reqs[r], b))
                          /\ One(AtBackend(q, b)) \in Int
  BY DEF One
<1> QED BY <1>1, <1>2 DEF BackendsFollow

LEMMA ChannelsSame ==
  ASSUME GatewayTypeOK, NotOverfull, NEW r \in Prompts, NEW q, UNCHANGED sems,
         \A b \in Backends : \A s \in Nat : AtChannel(q, b, s) <=> AtChannel(reqs[r], b, s)
  PROVE  ChannelsFollow(r, q) /\ NotOverfull'
<1>1. \A b \in Backends : sems[b] \in Seq(Channel) /\ Len(sems[b]) \in Nat
  BY DEF GatewayTypeOK
<1>2. \A b \in Backends : \A s \in 1 .. Len(sems[b]) : sems[b][s] \in Channel
  BY <1>1
<1>3. \A b \in Backends : \A s \in 1 .. Len(sems[b]) : sems[b][s].used \in Int
  BY <1>2 DEF Channel
<1>4. \A b \in Backends : \A s \in Nat :
        One(AtChannel(q, b, s)) = One(AtChannel(reqs[r], b, s)) /\ One(AtChannel(q, b, s)) \in Int
  BY DEF One
<1>5. \A b \in Backends : \A s \in 1 .. Len(sems[b]) : s \in Nat
  BY <1>1
<1>6. ChannelsFollow(r, q)
  BY <1>1, <1>3, <1>4, <1>5 DEF ChannelsFollow
<1>7. NotOverfull'
  BY DEF NotOverfull
<1> QED BY <1>6, <1>7

\* A request that holds nothing, before and after.
LEMMA FreeRequestMoves ==
  ASSUME SlotsInv, GatewayTypeOK', NEW r \in Prompts, NEW q \in Request,
         reqs' = [reqs EXCEPT ![r] = q], UNCHANGED <<accountInFlight, inFlight, sems>>,
         reqs[r].pc \notin AccountPcs, q.pc \notin AccountPcs, q.on = NoBackend, q.sem = 0
  PROVE  SlotsInv'
<1>1. /\ \A b \in Backends : AtBackend(q, b) <=> AtBackend(reqs[r], b)
      /\ \A b \in Backends : \A s \in Nat : AtChannel(q, b, s) <=> AtChannel(reqs[r], b, s)
  BY DEF AtBackend, AtChannel, BackendPcs, TokenPcs, AccountPcs
<1>2. GatewayTypeOK /\ NotOverfull
  BY DEF SlotsInv
<1>3. AccountsFollow(r, q)
  BY <1>2, AccountsSame
<1>4. BackendsFollow(r, q)
  BY <1>1, <1>2, BackendsSame
<1>5. ChannelsFollow(r, q) /\ NotOverfull'
  BY <1>1, <1>2, ChannelsSame
<1>6. Placed(q)'
  BY DEF Placed, AccountPcs
<1> QED BY <1>3, <1>4, <1>5, <1>6, RequestMoves

LEMMA CreditStepsHold ==
  ASSUME SlotsInv, NEW r \in Prompts,
         CheckCached(r) \/ ReadCredit(r) \/ PutBalance(r) \/ Draw(r) \/ Adjust(r)
  PROVE  SlotsInv'
<1> DEFINE x == reqs[r]
           a == Asker[r]
<1>1. GatewayTypeOK /\ x \in Request /\ a \in Accounts /\ Placed(x)
  BY GatewayAssumption DEF SlotsInv, GatewayTypeOK
<1>2. /\ x.pc \notin AccountPcs /\ x.on = NoBackend /\ x.sem = 0
  BY <1>1 DEF CheckCached, ReadCredit, PutBalance, Draw, Adjust, At, AccountPcs, Placed
<1>3. UNCHANGED <<accountInFlight, inFlight, sems, mounts, grants, remounts>>
  BY DEF CheckCached, ReadCredit, PutBalance, Draw, Adjust
<1>4. /\ x.pc \in Pcs /\ x.read \in Int /\ x.sem \in Nat /\ x.cost \in Nat
      /\ x = [pc |-> x.pc, read |-> x.read, on |-> x.on, sem |-> x.sem, cost |-> x.cost]
      /\ credit[a] \in Nat /\ cached[a] \in Seq(Int)
  BY <1>1, RequestParts DEF Request, GatewayTypeOK
<1>5. ASSUME NEW q \in Request, reqs' = [reqs EXCEPT ![r] = q], q.pc \notin AccountPcs,
             q.on = NoBackend, q.sem = 0,
             credit' \in [Accounts -> Nat], cached' \in [Accounts -> Seq(Int)]
      PROVE  SlotsInv'
  <2>1. GatewayTypeOK'
    BY <1>1, <1>3, <1>5 DEF GatewayTypeOK
  <2> QED BY <1>2, <1>3, <1>5, <2>1, FreeRequestMoves
<1>6. credit \in [Accounts -> Nat] /\ cached \in [Accounts -> Seq(Int)]
  BY <1>1 DEF GatewayTypeOK
<1>7. /\ NewRequest \in Request /\ NewRequest.pc \notin AccountPcs /\ NewRequest.on = NoBackend
      /\ NewRequest.sem = 0
  BY NewRequestParts DEF AccountPcs
<1>8. CASE CheckCached(r)
  <2> DEFINE q == [x EXCEPT !.pc = "admitted"]
  <2>1. q \in Request /\ q.pc = "admitted" /\ q.on = x.on /\ q.sem = x.sem
    BY <1>1, RequestParts DEF Pcs
  <2>2. reqs' = [reqs EXCEPT ![r] = q] \/ reqs' = [reqs EXCEPT ![r] = NewRequest]
    BY <1>8 DEF CheckCached, Judge, To, Done
  <2>3. credit' = credit /\ cached' = cached
    BY <1>8 DEF CheckCached
  <2> HIDE DEF q
  <2>4. q.pc \notin AccountPcs
    BY <2>1 DEF AccountPcs
  <2> QED BY <1>2, <1>5, <1>6, <1>7, <2>1, <2>2, <2>3, <2>4
<1>9. CASE ReadCredit(r)
  <2> DEFINE y == [x EXCEPT !.pc = "reading"]
             q == [y EXCEPT !.read = credit[a]]
  <2>1. reqs' = [reqs EXCEPT ![r] = q]
    BY <1>1, <1>9 DEF ReadCredit, GatewayTypeOK
  <2>2. y \in Request /\ y.pc = "reading" /\ y.on = x.on /\ y.sem = x.sem
    BY <1>1, RequestParts DEF Pcs
  <2> HIDE DEF y
  <2>4. q \in Request /\ q.pc = y.pc /\ q.on = y.on /\ q.sem = y.sem
    <3>1. credit[a] \in Int
      BY <1>4
    <3> QED BY <2>2, <3>1, RequestReads
  <2> HIDE DEF q
  <2>5. q.pc \notin AccountPcs /\ q.on = NoBackend /\ q.sem = 0
    BY <1>2, <2>2, <2>4 DEF AccountPcs
  <2>3. credit' = credit /\ cached' = cached
    BY <1>9 DEF ReadCredit
  <2> QED BY <1>5, <1>6, <2>1, <2>3, <2>4, <2>5
<1>10. CASE PutBalance(r)
  <2> DEFINE q == [NewRequest EXCEPT !.pc = "admitted"]
  <2>1. q \in Request /\ q.pc = "admitted" /\ q.on = NoBackend /\ q.sem = 0
    BY NewRequestParts, RequestParts DEF Pcs
  <2>2. reqs' = [reqs EXCEPT ![r] = q] \/ reqs' = [reqs EXCEPT ![r] = NewRequest]
    BY <1>10 DEF PutBalance, Done
  <2>3. credit' = credit /\ cached' = [cached EXCEPT ![a] = <<x.read>>]
    BY <1>10 DEF PutBalance
  <2>4. cached' \in [Accounts -> Seq(Int)]
    <3>1. <<x.read>> \in Seq(Int)
      BY <1>4
    <3> QED BY <1>6, <2>3, <3>1
  <2> HIDE DEF q
  <2>5. q.pc \notin AccountPcs
    BY <2>1 DEF AccountPcs
  <2> QED BY <1>2, <1>5, <1>6, <1>7, <2>1, <2>2, <2>3, <2>4, <2>5
<1>11. CASE Draw(r)
  <2> DEFINE applied == IF x.cost <= credit[a] THEN x.cost ELSE credit[a]
             q == [pc |-> "drawn", read |-> x.read, on |-> x.on, sem |-> x.sem, cost |-> applied]
  <2>1. applied \in Nat /\ credit[a] - applied \in Nat
    BY <1>4
  <2>2. \/ reqs' = [reqs EXCEPT ![r] = NewRequest] /\ credit' = credit
        \/ reqs' = [reqs EXCEPT ![r] = q] /\ credit' = [credit EXCEPT ![a] = @ - applied]
    BY <1>4, <1>11 DEF Draw, Done
  <2>3. cached' = cached
    BY <1>11 DEF Draw
  <2> HIDE DEF applied
  <2>4. q \in Request /\ q.pc \notin AccountPcs /\ q.on = NoBackend /\ q.sem = 0
    BY <1>2, <1>4, <2>1 DEF Request, Pcs, AccountPcs
  <2> HIDE DEF q
  <2>5. credit' \in [Accounts -> Nat]
    BY <1>6, <2>1, <2>2
  <2> QED BY <1>5, <1>6, <1>7, <2>2, <2>3, <2>4, <2>5
<1>12. CASE Adjust(r)
  <2>1. reqs' = [reqs EXCEPT ![r] = NewRequest] /\ credit' = credit
    BY <1>12 DEF Adjust, Done
  <2>2. \/ cached' = cached
        \/ cached[a] # <<>> /\ cached' = [cached EXCEPT ![a] = <<Head(cached[a]) - x.cost>>]
    BY <1>12 DEF Adjust, Uncached
  <2>3. cached[a] # <<>> => <<Head(cached[a]) - x.cost>> \in Seq(Int)
    <3> SUFFICES ASSUME cached[a] # <<>> PROVE <<Head(cached[a]) - x.cost>> \in Seq(Int)
      OBVIOUS
    <3>1. Head(cached[a]) \in Int
      BY <1>4
    <3> QED BY <1>4, <3>1
  <2>4. cached' \in [Accounts -> Seq(Int)]
    BY <1>6, <2>2, <2>3
  <2> QED BY <1>5, <1>6, <1>7, <2>1, <2>4
<1> QED BY <1>8, <1>9, <1>10, <1>11, <1>12

LEMMA RequestTakes ==
  ASSUME GatewayTypeOK, NEW r \in Prompts
  PROVE  reqs[r] \in Request /\ Asker[r] \in Accounts
BY GatewayAssumption DEF GatewayTypeOK

LEMMA GoesTo ==
  ASSUME GatewayTypeOK, NEW r \in Prompts, NEW pc \in Pcs, To(r, pc)
  PROVE  \E q \in Request : /\ reqs' = [reqs EXCEPT ![r] = q]
                            /\ q.pc = pc /\ q.on = reqs[r].on /\ q.sem = reqs[r].sem
<1> DEFINE q == [reqs[r] EXCEPT !.pc = pc]
<1>1. q \in Request /\ q.pc = pc /\ q.on = reqs[r].on /\ q.sem = reqs[r].sem
  BY RequestTakes, RequestParts
<1>2. reqs' = [reqs EXCEPT ![r] = q]
  BY DEF To, GatewayTypeOK
<1> HIDE DEF q
<1> QED BY <1>1, <1>2

\* A slot of the account that is given back, or taken.
LEMMA AccountMoves ==
  ASSUME GatewayTypeOK, NEW r \in Prompts, NEW q,
         \/ /\ accountInFlight' = [accountInFlight EXCEPT ![Asker[r]] = @ - 1]
            /\ reqs[r].pc \in AccountPcs /\ q.pc \notin AccountPcs
         \/ /\ accountInFlight' = [accountInFlight EXCEPT ![Asker[r]] = @ + 1]
            /\ reqs[r].pc \notin AccountPcs /\ q.pc \in AccountPcs
  PROVE  AccountsFollow(r, q) /\ accountInFlight' \in [Accounts -> Int]
<1>1. accountInFlight \in [Accounts -> Int] /\ Asker[r] \in Accounts
  BY RequestTakes DEF GatewayTypeOK
<1>2. \A a \in Accounts : One(AtAccount(q, r, a)) = (IF q.pc \in AccountPcs /\ Asker[r] = a THEN 1 ELSE 0)
  BY DEF One, AtAccount
<1>3. \A a \in Accounts : One(AtAccount(reqs[r], r, a))
                            = (IF reqs[r].pc \in AccountPcs /\ Asker[r] = a THEN 1 ELSE 0)
  BY DEF One, AtAccount
<1>4. accountInFlight' \in [Accounts -> Int]
  BY <1>1
<1>5. ASSUME NEW a \in Accounts
      PROVE  accountInFlight'[a]
               = accountInFlight[a] + One(AtAccount(q, r, a)) - One(AtAccount(reqs[r], r, a))
  <2>1. accountInFlight[a] \in Int
    BY <1>1
  <2>2. CASE Asker[r] = a
    BY <1>1, <1>2, <1>3, <2>1, <2>2
  <2>3. CASE Asker[r] # a
    BY <1>1, <1>2, <1>3, <2>1, <2>3
  <2> QED BY <2>2, <2>3
<1> QED BY <1>4, <1>5 DEF AccountsFollow

\* A request's count at its backend, one more or one less.
LEMMA BackendMoves ==
  ASSUME GatewayTypeOK, NEW r \in Prompts, NEW q, reqs[r].on \in Backends, q.on = reqs[r].on,
         \/ /\ inFlight' = [inFlight EXCEPT ![reqs[r].on] = @ - 1]
            /\ reqs[r].pc \in BackendPcs /\ q.pc \notin BackendPcs
         \/ /\ inFlight' = [inFlight EXCEPT ![reqs[r].on] = @ + 1]
            /\ reqs[r].pc \notin BackendPcs /\ q.pc \in BackendPcs
  PROVE  BackendsFollow(r, q) /\ inFlight' \in [Backends -> Int]
<1>1. inFlight \in [Backends -> Int]
  BY DEF GatewayTypeOK
<1> DEFINE on == reqs[r].on
<1>2. \A b \in Backends : One(AtBackend(q, b)) = (IF q.pc \in BackendPcs /\ on = b THEN 1 ELSE 0)
  BY DEF One, AtBackend
<1>3. \A b \in Backends : One(AtBackend(reqs[r], b))
                            = (IF reqs[r].pc \in BackendPcs /\ on = b THEN 1 ELSE 0)
  BY DEF One, AtBackend
<1>4. inFlight' \in [Backends -> Int]
  BY <1>1
<1>5. ASSUME NEW b \in Backends
      PROVE  inFlight'[b] = inFlight[b] + One(AtBackend(q, b)) - One(AtBackend(reqs[r], b))
  <2>1. inFlight[b] \in Int
    BY <1>1
  <2>2. CASE on = b
    BY <1>1, <1>2, <1>3, <2>1, <2>2
  <2>3. CASE on # b
    BY <1>1, <1>2, <1>3, <2>1, <2>3
  <2> QED BY <2>2, <2>3
<1> QED BY <1>4, <1>5 DEF BackendsFollow

\* A token of its channel, taken while there is one or given back.
LEMMA ChannelMoves ==
  ASSUME GatewayTypeOK, NotOverfull, NEW r \in Prompts, NEW q, NEW b \in Backends,
         NEW s \in 1 .. Len(sems[b]), reqs[r].on = b, q.on = b, reqs[r].sem = s, q.sem = s,
         \/ /\ sems' = [sems EXCEPT ![b][s].used = @ - 1]
            /\ reqs[r].pc \in TokenPcs /\ q.pc \notin TokenPcs
         \/ /\ sems' = [sems EXCEPT ![b][s].used = @ + 1]
            /\ sems[b][s].used < sems[b][s].cap
            /\ reqs[r].pc \notin TokenPcs /\ q.pc \in TokenPcs
  PROVE  /\ ChannelsFollow(r, q) /\ sems' \in [Backends -> Seq(Channel)]
         /\ Len(sems'[b]) = Len(sems[b]) /\ NotOverfull'
<1> DEFINE d == IF q.pc \in TokenPcs THEN 1 ELSE -1
           c == [sems[b][s] EXCEPT !.used = @ + d]
           seq == [sems[b] EXCEPT ![s] = c]
<1>1. sems \in [Backends -> Seq(Channel)] /\ sems[b] \in Seq(Channel) /\ Len(sems[b]) \in Nat
  BY DEF GatewayTypeOK
<1>2. sems[b][s] \in Channel
  BY <1>1
<1>3. sems[b][s].used \in Int /\ sems[b][s].cap \in Nat /\ d \in Int
      /\ sems[b][s] = [cap |-> sems[b][s].cap, used |-> sems[b][s].used]
  BY <1>2 DEF Channel
<1>4. sems' = [sems EXCEPT ![b] = seq]
  BY <1>1, <1>2, <1>3
<1>5. c \in Channel /\ c.used = sems[b][s].used + d /\ c.cap = sems[b][s].cap
  BY <1>3 DEF Channel
<1>6. d = 1 => sems[b][s].used < sems[b][s].cap
  OBVIOUS
<1>11. d = One(q.pc \in TokenPcs) - One(reqs[r].pc \in TokenPcs)
  BY DEF One
<1> HIDE DEF c, d
<1>7. seq \in Seq(Channel) /\ Len(seq) = Len(sems[b]) /\ seq[s] = c
      /\ \A k \in 1 .. Len(sems[b]) : k # s => seq[k] = sems[b][k]
  BY <1>1, <1>5
<1> HIDE DEF seq
<1>8. /\ sems' \in [Backends -> Seq(Channel)] /\ sems'[b] = seq
      /\ \A o \in Backends : o # b => sems'[o] = sems[o]
  BY <1>1, <1>4, <1>7
<1>9. ASSUME NEW o \in Backends, NEW k \in 1 .. Len(sems[o])
      PROVE  /\ sems'[o][k].used = sems[o][k].used + One(AtChannel(q, o, k)) - One(AtChannel(reqs[r], o, k))
             /\ sems'[o][k].used <= sems'[o][k].cap
  <2>1. sems[o] \in Seq(Channel) /\ k \in 1 .. Len(sems[o])
    BY <1>1
  <2>2. sems[o][k] \in Channel
    BY <2>1
  <2>3. sems[o][k].used \in Int /\ sems[o][k].cap \in Nat /\ sems[o][k].used <= sems[o][k].cap
    BY <2>2 DEF Channel, NotOverfull
  <2>4. CASE o = b /\ k = s
    <3>1. One(AtChannel(q, o, k)) = One(q.pc \in TokenPcs)
          /\ One(AtChannel(reqs[r], o, k)) = One(reqs[r].pc \in TokenPcs)
      BY <2>4 DEF AtChannel, One
    <3>2. sems'[o][k] = c
      BY <1>7, <1>8, <2>4
    <3>3. One(q.pc \in TokenPcs) \in Int /\ One(reqs[r].pc \in TokenPcs) \in Int
      BY DEF One
    <3>4. d \in {1, -1}
      BY DEF d
    <3> QED BY <1>5, <1>6, <1>11, <2>3, <2>4, <3>1, <3>2, <3>3, <3>4
  <2>5. CASE ~(o = b /\ k = s)
    <3>1. sems'[o][k] = sems[o][k]
      BY <1>7, <1>8, <2>5
    <3>2. One(AtChannel(q, o, k)) = 0 /\ One(AtChannel(reqs[r], o, k)) = 0
      BY <2>5 DEF AtChannel, One
    <3> QED BY <2>3, <3>1, <3>2
  <2> QED BY <2>4, <2>5
<1>10. \A o \in Backends : Len(sems'[o]) = Len(sems[o]) /\ Len(sems[o]) \in Nat
  BY <1>1, <1>7, <1>8
<1>12. ChannelsFollow(r, q)
  BY <1>9, <1>10 DEF ChannelsFollow
<1>13. NotOverfull'
  BY <1>9, <1>10 DEF NotOverfull
<1> QED BY <1>8, <1>10, <1>12, <1>13

\* A request that fails before it holds anything of a backend.
LEMMA FailsHolds ==
  ASSUME SlotsInv, NEW r \in Prompts, reqs[r].pc \in {"slotted", "queued"}, Fails(r),
         UNCHANGED <<inFlight, sems, mounts, credit, cached, grants, remounts>>
  PROVE  SlotsInv'
<1> DEFINE q == NewRequest
<1>1. GatewayTypeOK /\ NotOverfull
  BY DEF SlotsInv
<1>2. q \in Request /\ q.pc = "idle" /\ q.on = NoBackend /\ q.sem = 0
  BY NewRequestParts
<1>3. reqs' = [reqs EXCEPT ![r] = q]
      /\ accountInFlight' = [accountInFlight EXCEPT ![Asker[r]] = @ - 1]
  BY DEF Fails, Done, FreeAccountSlot
<1> HIDE DEF q
<1>4. AccountsFollow(r, q) /\ accountInFlight' \in [Accounts -> Int]
  BY <1>1, <1>2, <1>3, AccountMoves DEF AccountPcs
<1>5. /\ \A b \in Backends : AtBackend(q, b) <=> AtBackend(reqs[r], b)
      /\ \A b \in Backends : \A s \in Nat : AtChannel(q, b, s) <=> AtChannel(reqs[r], b, s)
  BY <1>2 DEF AtBackend, AtChannel, BackendPcs, TokenPcs
<1>6. BackendsFollow(r, q)
  BY <1>1, <1>5, BackendsSame
<1>7. ChannelsFollow(r, q) /\ NotOverfull'
  BY <1>1, <1>5, ChannelsSame
<1>8. GatewayTypeOK'
  BY <1>1, <1>2, <1>3, <1>4 DEF GatewayTypeOK
<1>9. Placed(q)'
  BY <1>2 DEF Placed
<1> QED BY <1>2, <1>3, <1>4, <1>6, <1>7, <1>8, <1>9, RequestMoves

LEMMA AccountSlotHolds ==
  ASSUME SlotsInv, NEW r \in Prompts, AccountSlot(r)
  PROVE  SlotsInv'
<1>1. GatewayTypeOK /\ NotOverfull /\ Placed(reqs[r])
  BY DEF SlotsInv
<1>2. reqs[r].pc = "admitted"
      /\ UNCHANGED <<inFlight, sems, mounts, credit, cached, grants, remounts>>
  BY DEF AccountSlot, At
<1>3. reqs[r].on = NoBackend /\ reqs[r].sem = 0
  BY <1>1, <1>2 DEF Placed, AccountPcs
<1>4. CASE accountInFlight[Asker[r]] >= AccountCap
  <2> DEFINE q == NewRequest
  <2>1. reqs' = [reqs EXCEPT ![r] = q] /\ UNCHANGED accountInFlight
    BY <1>4 DEF AccountSlot, Done
  <2>2. q \in Request /\ q.pc = "idle" /\ q.on = NoBackend /\ q.sem = 0
    BY NewRequestParts
  <2> HIDE DEF q
  <2>3. GatewayTypeOK'
    BY <1>1, <1>2, <2>1, <2>2 DEF GatewayTypeOK
  <2> QED BY <1>2, <2>1, <2>2, <2>3, FreeRequestMoves DEF AccountPcs
<1>5. CASE ~(accountInFlight[Asker[r]] >= AccountCap)
  <2>1. PICK q \in Request : /\ reqs' = [reqs EXCEPT ![r] = q] /\ q.pc = "slotted"
                             /\ q.on = NoBackend /\ q.sem = 0
    <3>1. To(r, "slotted") /\ "slotted" \in Pcs
      BY <1>5 DEF AccountSlot, Pcs, AccountPcs
    <3> QED BY <1>1, <1>3, <3>1, GoesTo
  <2>2. accountInFlight' = [accountInFlight EXCEPT ![Asker[r]] = @ + 1]
    BY <1>5 DEF AccountSlot
  <2>3. AccountsFollow(r, q) /\ accountInFlight' \in [Accounts -> Int]
    BY <1>1, <1>2, <2>1, <2>2, AccountMoves DEF AccountPcs
  <2>4. /\ \A b \in Backends : AtBackend(q, b) <=> AtBackend(reqs[r], b)
        /\ \A b \in Backends : \A s \in Nat : AtChannel(q, b, s) <=> AtChannel(reqs[r], b, s)
    BY <1>2, <2>1 DEF AtBackend, AtChannel, BackendPcs, TokenPcs
  <2>5. BackendsFollow(r, q)
    BY <1>1, <1>2, <2>4, BackendsSame
  <2>6. ChannelsFollow(r, q) /\ NotOverfull'
    BY <1>1, <1>2, <2>4, ChannelsSame
  <2>7. GatewayTypeOK'
    BY <1>1, <1>2, <2>1, <2>3 DEF GatewayTypeOK
  <2>8. Placed(q)'
    BY <2>1 DEF Placed
  <2> QED BY <2>1, <2>3, <2>5, <2>6, <2>7, <2>8, RequestMoves
<1> QED BY <1>4, <1>5

LEMMA ExternalHolds ==
  ASSUME SlotsInv, NEW r \in Prompts, External(r)
  PROVE  SlotsInv'
<1>1. GatewayTypeOK /\ NotOverfull /\ Placed(reqs[r])
  BY DEF SlotsInv
<1>2. reqs[r].pc = "slotted"
      /\ UNCHANGED <<inFlight, sems, mounts, credit, cached, grants, remounts>>
  BY DEF External, At
<1>3. reqs[r].on = NoBackend /\ reqs[r].sem = 0
  BY <1>1, <1>2 DEF Placed
<1>4. CASE Fails(r)
  BY <1>2, <1>4, FailsHolds
<1>5. CASE To(r, "serving") /\ UNCHANGED accountInFlight
  <2>1. PICK q \in Request : /\ reqs' = [reqs EXCEPT ![r] = q] /\ q.pc = "serving"
                             /\ q.on = NoBackend /\ q.sem = 0
    <3>1. "serving" \in Pcs
      BY DEF Pcs, AccountPcs
    <3> QED BY <1>1, <1>3, <1>5, <3>1, GoesTo
  <2>2. AccountsFollow(r, q)
    BY <1>1, <1>2, <1>5, <2>1, AccountsSame DEF AccountPcs
  <2>3. /\ \A b \in Backends : AtBackend(q, b) <=> AtBackend(reqs[r], b)
        /\ \A b \in Backends : \A s \in Nat : AtChannel(q, b, s) <=> AtChannel(reqs[r], b, s)
    BY <1>3, <2>1, GatewayAssumption DEF AtBackend, AtChannel
  <2>4. BackendsFollow(r, q)
    BY <1>1, <1>2, <2>3, BackendsSame
  <2>5. ChannelsFollow(r, q) /\ NotOverfull'
    BY <1>1, <1>2, <2>3, ChannelsSame
  <2>6. GatewayTypeOK'
    BY <1>1, <1>2, <1>5, <2>1 DEF GatewayTypeOK
  <2>7. Placed(q)'
    BY <2>1 DEF Placed
  <2> QED BY <2>1, <2>2, <2>4, <2>5, <2>6, <2>7, RequestMoves
<1> QED BY <1>4, <1>5 DEF External

\* What a channel is made for is never 0, nor below what it holds.
LEMMA PickHolds ==
  ASSUME SlotsInv, NEW r \in Prompts, Pick(r)
  PROVE  SlotsInv'
<1>1. GatewayTypeOK /\ NotOverfull /\ Placed(reqs[r]) /\ reqs[r] \in Request
  BY RequestTakes DEF SlotsInv
<1>2. reqs[r].pc = "slotted"
      /\ UNCHANGED <<inFlight, mounts, credit, cached, grants, remounts>>
  BY DEF Pick, At
<1>3. reqs[r].on = NoBackend /\ reqs[r].sem = 0
  BY <1>1, <1>2 DEF Placed
<1>4. CASE Mounted = {} /\ Fails(r) /\ UNCHANGED sems
  BY <1>2, <1>4, FailsHolds
<1>5. ASSUME NEW b \in LeastLoaded,
             LET fits == sems[b] # <<>> /\ Newest(b).cap = mounts[b] IN
            /\ sems' = IF fits THEN sems
                       ELSE [sems EXCEPT ![b] = Append(@, [cap |-> mounts[b], used |-> 0])]
            /\ reqs' = [reqs EXCEPT ![r].pc = "queued", ![r].on = b,
                                    ![r].sem = IF fits THEN Len(sems[b]) ELSE Len(sems[b]) + 1]
            /\ UNCHANGED accountInFlight
      PROVE SlotsInv'
  <2> DEFINE fits == sems[b] # <<>> /\ Newest(b).cap = mounts[b]
             s == IF fits THEN Len(sems[b]) ELSE Len(sems[b]) + 1
             x == reqs[r]
             y == [pc |-> "queued", read |-> x.read, on |-> b, sem |-> s, cost |-> x.cost]
             fresh == [cap |-> mounts[b], used |-> 0]
  <2>1. b \in Backends /\ sems[b] \in Seq(Channel) /\ Len(sems[b]) \in Nat
        /\ sems \in [Backends -> Seq(Channel)]
        /\ \A o \in Backends : sems[o] \in Seq(Channel) /\ Len(sems[o]) \in Nat
    BY <1>1 DEF LeastLoaded, Mounted, GatewayTypeOK
  <2>2. s \in Nat /\ (fits => s >= 1)
    <3>1. sems[b] # <<>> => Len(sems[b]) > 0
      BY <2>1
    <3> QED BY <2>1, <3>1
  <2>3. fresh \in Channel
    BY <1>1, <2>1 DEF GatewayTypeOK, Channel
  <2>4. y \in Request
    BY <1>1, <2>1, <2>2, RequestParts DEF Request, Pcs, AccountPcs
  <2>5. reqs' = [reqs EXCEPT ![r] = y]
    <3> DEFINE r1 == [reqs EXCEPT ![r].pc = "queued"]
               r2 == [r1 EXCEPT ![r].on = b]
    <3>1. reqs' = [r2 EXCEPT ![r].sem = s]
      BY <1>5
    <3>2. x = [pc |-> x.pc, read |-> x.read, on |-> x.on, sem |-> x.sem, cost |-> x.cost]
          /\ DOMAIN reqs = Prompts /\ reqs = [p \in Prompts |-> reqs[p]]
      BY <1>1 DEF Request, GatewayTypeOK
    <3> HIDE DEF s
    <3>3. DOMAIN r1 = Prompts /\ \A p \in Prompts : p # r => r1[p] = reqs[p]
      BY <3>2
    <3>4. r1[r] = [pc |-> "queued", read |-> x.read, on |-> x.on, sem |-> x.sem, cost |-> x.cost]
      BY <3>2
    <3> HIDE DEF r1
    <3>5. DOMAIN r2 = Prompts /\ \A p \in Prompts : p # r => r2[p] = reqs[p]
      BY <3>3
    <3>6. r2[r] = [pc |-> "queued", read |-> x.read, on |-> b, sem |-> x.sem, cost |-> x.cost]
      BY <3>3, <3>4
    <3> HIDE DEF r2
    <3>7. reqs'[r] = y /\ \A p \in Prompts : p # r => reqs'[p] = reqs[p]
      BY <3>1, <3>5, <3>6
    <3>8. DOMAIN reqs' = Prompts /\ reqs' = [p \in Prompts |-> reqs'[p]]
      BY <3>1, <3>5
    <3> HIDE DEF y
    <3> QED BY <3>2, <3>7, <3>8
  <2>6. PICK q \in Request : /\ reqs' = [reqs EXCEPT ![r] = q] /\ q.pc = "queued"
                             /\ q.on = b /\ q.sem = s
    BY <2>4, <2>5
  <2>7. /\ sems' = IF fits THEN sems ELSE [sems EXCEPT ![b] = Append(sems[b], fresh)]
        /\ UNCHANGED accountInFlight
    BY <1>5
  <2> HIDE DEF y, fits, fresh
  <2>8. AccountsFollow(r, q)
    BY <1>1, <1>2, <2>6, <2>7, AccountsSame DEF AccountPcs
  <2>9. BackendsFollow(r, q)
    <3>1. \A o \in Backends : AtBackend(q, o) <=> AtBackend(reqs[r], o)
      BY <1>2, <2>6 DEF AtBackend, BackendPcs
    <3> QED BY <1>1, <1>2, <3>1, BackendsSame
  <2>10. \A o \in Backends : \A k \in Nat : AtChannel(q, o, k) <=> AtChannel(reqs[r], o, k)
    BY <1>2, <2>6 DEF AtChannel, TokenPcs
  <2>11. CASE fits
    <3>1. UNCHANGED sems
      BY <2>7, <2>11
    <3>2. ChannelsFollow(r, q) /\ NotOverfull'
      BY <1>1, <2>10, <3>1, ChannelsSame
    <3>3. GatewayTypeOK'
      BY <1>1, <1>2, <2>6, <2>7, <3>1 DEF GatewayTypeOK
    <3>4. Placed(q)'
      <4>1. s \in 1 .. Len(sems[b])
        BY <2>1, <2>2, <2>11
      <4> QED BY <2>1, <2>6, <3>1, <4>1 DEF Placed, AccountPcs
    <3> QED BY <2>6, <2>8, <2>9, <3>2, <3>3, <3>4, RequestMoves
  <2>12. CASE ~fits
    <3>1. sems' = [sems EXCEPT ![b] = Append(sems[b], fresh)] /\ s = Len(sems[b]) + 1
      BY <2>7, <2>12
    <3>2. /\ Append(sems[b], fresh) \in Seq(Channel) /\ Len(Append(sems[b], fresh)) = s
          /\ Append(sems[b], fresh)[s] = fresh
          /\ \A k \in 1 .. Len(sems[b]) : Append(sems[b], fresh)[k] = sems[b][k]
      BY <2>1, <2>3, <3>1
    <3>3. /\ sems' \in [Backends -> Seq(Channel)] /\ Len(sems'[b]) = s /\ sems'[b][s] = fresh
          /\ \A k \in 1 .. Len(sems[b]) : sems'[b][k] = sems[b][k]
          /\ \A o \in Backends : o # b => sems'[o] = sems[o]
      BY <2>1, <3>1, <3>2
    <3>4. \A o \in Backends : \A k \in Nat : One(AtChannel(q, o, k)) = 0 /\ One(AtChannel(reqs[r], o, k)) = 0
      BY <1>2, <2>6 DEF AtChannel, TokenPcs, One
    <3>5. fresh.used = 0 /\ fresh.cap \in Nat
      BY <2>3 DEF fresh, Channel
    <3>6. ChannelsFollow(r, q)
      <4>1. \A o \in Backends : Len(sems[o]) <= Len(sems'[o])
        BY <2>1, <3>1, <3>3
      <4>2. ASSUME NEW o \in Backends, NEW k \in 1 .. Len(sems[o])
            PROVE  sems'[o][k].used = sems[o][k].used + One(AtChannel(q, o, k)) - One(AtChannel(reqs[r], o, k))
        <5>1. sems'[o][k] = sems[o][k]
          BY <3>3
        <5>2. sems[o][k] \in Channel /\ k \in Nat
          BY <2>1
        <5>3. sems[o][k].used \in Int
          BY <5>2 DEF Channel
        <5> QED BY <3>4, <5>1, <5>2, <5>3
      <4>3. ASSUME NEW o \in Backends, NEW k \in 1 .. Len(sems'[o]), k > Len(sems[o])
            PROVE  sems'[o][k].used = One(AtChannel(q, o, k))
        <5>1. o = b /\ k = s
          BY <2>1, <3>1, <3>3, <4>3
        <5> QED BY <2>2, <3>3, <3>4, <3>5, <5>1
      <4> QED BY <4>1, <4>2, <4>3 DEF ChannelsFollow
    <3>7. NotOverfull'
      <4>1. ASSUME NEW o \in Backends, NEW k \in 1 .. Len(sems'[o])
            PROVE  sems'[o][k].used <= sems'[o][k].cap
        <5>1. CASE o = b /\ k = s
          BY <3>3, <3>5, <5>1
        <5>2. CASE ~(o = b /\ k = s)
          <6>1. k \in 1 .. Len(sems[o]) /\ sems'[o][k] = sems[o][k]
            BY <2>1, <3>1, <3>3, <5>2
          <6> QED BY <1>1, <6>1 DEF NotOverfull
        <5> QED BY <5>1, <5>2
      <4> QED BY <4>1 DEF NotOverfull
    <3>8. GatewayTypeOK'
      BY <1>1, <1>2, <2>6, <2>7, <3>3 DEF GatewayTypeOK
    <3>9. Placed(q)'
      <4>1. s \in 1 .. Len(sems'[b])
        BY <2>1, <3>1, <3>3
      <4> QED BY <2>1, <2>6, <4>1 DEF Placed, AccountPcs
    <3> QED BY <2>6, <2>8, <2>9, <3>6, <3>7, <3>8, <3>9, RequestMoves
  <2> QED BY <2>11, <2>12
<1> QED BY <1>4, <1>5 DEF Pick

LEMMA AdmitHolds ==
  ASSUME SlotsInv, NEW r \in Prompts, Admit(r)
  PROVE  SlotsInv'
<1> DEFINE b == reqs[r].on
           s == reqs[r].sem
<1>1. GatewayTypeOK /\ NotOverfull /\ Placed(reqs[r])
  BY DEF SlotsInv
<1>2. /\ reqs[r].pc = "queued" /\ sems[b][s].used < sems[b][s].cap
      /\ sems' = [sems EXCEPT ![b][s].used = @ + 1] /\ To(r, "tokened")
      /\ UNCHANGED <<accountInFlight, inFlight, mounts, credit, cached, grants, remounts>>
  BY DEF Admit, At
<1>3. b \in Backends /\ s \in 1 .. Len(sems[b])
  BY <1>1, <1>2 DEF Placed
<1>4. PICK q \in Request : /\ reqs' = [reqs EXCEPT ![r] = q]
                           /\ q.pc = "tokened" /\ q.on = b /\ q.sem = s
  <2>1. "tokened" \in Pcs
    BY DEF Pcs, AccountPcs
  <2> QED BY <1>1, <1>2, <2>1, GoesTo
<1>5. PICK o \in Backends : o = b
  BY <1>3
<1>6. PICK k \in 1 .. Len(sems[o]) : k = s
  BY <1>3, <1>5
<1> HIDE DEF b, s
<1>7. reqs[r].on = o /\ reqs[r].sem = k /\ q.on = o /\ q.sem = k
  BY <1>4, <1>5, <1>6 DEF b, s
<1>8. /\ ChannelsFollow(r, q) /\ sems' \in [Backends -> Seq(Channel)]
      /\ Len(sems'[o]) = Len(sems[o]) /\ NotOverfull'
  BY <1>1, <1>2, <1>4, <1>5, <1>6, <1>7, ChannelMoves DEF TokenPcs
<1>9. AccountsFollow(r, q)
  BY <1>1, <1>2, <1>4, AccountsSame DEF AccountPcs
<1>10. BackendsFollow(r, q)
  <2>1. \A d \in Backends : AtBackend(q, d) <=> AtBackend(reqs[r], d)
    BY <1>2, <1>4 DEF AtBackend, BackendPcs
  <2> QED BY <1>1, <1>2, <2>1, BackendsSame
<1>11. GatewayTypeOK'
  BY <1>1, <1>2, <1>4, <1>8 DEF GatewayTypeOK
<1>12. Placed(q)'
  BY <1>4, <1>7, <1>8 DEF Placed, AccountPcs
<1> QED BY <1>4, <1>8, <1>9, <1>10, <1>11, <1>12, RequestMoves

LEMMA CountHolds ==
  ASSUME SlotsInv, NEW r \in Prompts, CountIn(r) \/ CountOut(r)
  PROVE  SlotsInv'
<1>1. GatewayTypeOK /\ NotOverfull /\ Placed(reqs[r])
  BY DEF SlotsInv
<1>2. UNCHANGED <<accountInFlight, sems, mounts, credit, cached, grants, remounts>>
  BY DEF CountIn, CountOut
<1>3. reqs[r].on \in Backends /\ reqs[r].sem \in 1 .. Len(sems[reqs[r].on])
      /\ reqs[r].pc \in {"tokened", "released"}
  BY <1>1 DEF CountIn, CountOut, At, Placed
<1>4. PICK q \in Request :
        /\ reqs' = [reqs EXCEPT ![r] = q] /\ q.on = reqs[r].on /\ q.sem = reqs[r].sem
        /\ \/ /\ reqs[r].pc = "tokened" /\ q.pc = "serving"
              /\ inFlight' = [inFlight EXCEPT ![reqs[r].on] = @ + 1]
           \/ /\ reqs[r].pc = "released" /\ q.pc = "counted"
              /\ inFlight' = [inFlight EXCEPT ![reqs[r].on] = @ - 1]
  <2>1. "serving" \in Pcs /\ "counted" \in Pcs
    BY DEF Pcs, AccountPcs
  <2>2. CASE CountIn(r)
    <3>1. To(r, "serving")
      BY <2>2 DEF CountIn
    <3> QED BY <1>1, <2>1, <2>2, <3>1, GoesTo DEF CountIn, At
  <2>3. CASE CountOut(r)
    <3>1. To(r, "counted")
      BY <2>3 DEF CountOut
    <3> QED BY <1>1, <2>1, <2>3, <3>1, GoesTo DEF CountOut, At
  <2> QED BY <2>2, <2>3
<1>5. BackendsFollow(r, q) /\ inFlight' \in [Backends -> Int]
  BY <1>1, <1>3, <1>4, BackendMoves DEF BackendPcs
<1>6. AccountsFollow(r, q)
  BY <1>1, <1>2, <1>4, AccountsSame DEF AccountPcs
<1>7. \A b \in Backends : \A s \in Nat : AtChannel(q, b, s) <=> AtChannel(reqs[r], b, s)
  BY <1>4 DEF AtChannel, TokenPcs
<1>8. ChannelsFollow(r, q) /\ NotOverfull'
  BY <1>1, <1>2, <1>7, ChannelsSame
<1>9. GatewayTypeOK'
  BY <1>1, <1>2, <1>4, <1>5 DEF GatewayTypeOK
<1>10. Placed(q)'
  BY <1>2, <1>3, <1>4 DEF Placed, AccountPcs
<1> QED BY <1>4, <1>5, <1>6, <1>8, <1>9, <1>10, RequestMoves

LEMMA AnswersHolds ==
  ASSUME SlotsInv, NEW r \in Prompts, Answers(r)
  PROVE  SlotsInv'
<1>1. GatewayTypeOK /\ NotOverfull /\ Placed(reqs[r]) /\ reqs[r] \in Request
  BY RequestTakes DEF SlotsInv
<1>2. /\ reqs[r].pc = "serving"
      /\ UNCHANGED <<accountInFlight, inFlight, sems, mounts, credit, cached, grants, remounts>>
  BY DEF Answers, At
<1>3. PICK q \in Request : /\ reqs' = [reqs EXCEPT ![r] = q] /\ q.pc = "answered"
                           /\ q.on = reqs[r].on /\ q.sem = reqs[r].sem
  <2>1. PICK cost \in Nat : reqs' = [reqs EXCEPT ![r].pc = "answered", ![r].cost = cost]
    BY GatewayAssumption DEF Answers
  <2> DEFINE x == reqs[r]
             q == [pc |-> "answered", read |-> x.read, on |-> x.on, sem |-> x.sem, cost |-> cost]
  <2>2. x = [pc |-> x.pc, read |-> x.read, on |-> x.on, sem |-> x.sem, cost |-> x.cost]
    BY <1>1 DEF Request
  <2>3. reqs' = [reqs EXCEPT ![r] = q]
    <3> DEFINE r1 == [reqs EXCEPT ![r].pc = "answered"]
    <3>1. DOMAIN reqs = Prompts /\ reqs = [p \in Prompts |-> reqs[p]]
      BY <1>1 DEF GatewayTypeOK
    <3>2. reqs' = [r1 EXCEPT ![r].cost = cost]
      BY <2>1
    <3>3. DOMAIN r1 = Prompts /\ \A p \in Prompts : p # r => r1[p] = reqs[p]
      BY <3>1
    <3>4. r1[r] = [pc |-> "answered", read |-> x.read, on |-> x.on, sem |-> x.sem, cost |-> x.cost]
      BY <2>2, <3>1
    <3> HIDE DEF r1
    <3>5. reqs'[r] = q /\ \A p \in Prompts : p # r => reqs'[p] = reqs[p]
      BY <3>2, <3>3, <3>4
    <3>6. DOMAIN reqs' = Prompts /\ reqs' = [p \in Prompts |-> reqs'[p]]
      BY <3>2, <3>3
    <3> HIDE DEF q
    <3> QED BY <3>1, <3>5, <3>6
  <2>4. q \in Request
    BY <1>1, RequestParts DEF Request, Pcs, AccountPcs
  <2>5. q.pc = "answered" /\ q.on = x.on /\ q.sem = x.sem
    OBVIOUS
  <2> HIDE DEF q
  <2> QED BY <2>3, <2>4, <2>5
<1>4. AccountsFollow(r, q)
  BY <1>1, <1>2, <1>3, AccountsSame DEF AccountPcs
<1>5. BackendsFollow(r, q)
  <2>1. \A b \in Backends : AtBackend(q, b) <=> AtBackend(reqs[r], b)
    BY <1>2, <1>3 DEF AtBackend, BackendPcs
  <2> QED BY <1>1, <1>2, <2>1, BackendsSame
<1>6. \A b \in Backends : \A s \in Nat : AtChannel(q, b, s) <=> AtChannel(reqs[r], b, s)
  BY <1>2, <1>3 DEF AtChannel, TokenPcs
<1>7. ChannelsFollow(r, q) /\ NotOverfull'
  BY <1>1, <1>2, <1>6, ChannelsSame
<1>8. GatewayTypeOK'
  BY <1>1, <1>2, <1>3 DEF GatewayTypeOK
<1>9. Placed(q)'
  BY <1>1, <1>2, <1>3 DEF Placed, AccountPcs
<1> QED BY <1>3, <1>4, <1>5, <1>7, <1>8, <1>9, RequestMoves

LEMMA ReleaseHolds ==
  ASSUME SlotsInv, NEW r \in Prompts, Release(r)
  PROVE  SlotsInv'
<1>1. GatewayTypeOK /\ NotOverfull /\ Placed(reqs[r])
  BY DEF SlotsInv
<1>2. /\ reqs[r].pc = "answered"
      /\ UNCHANGED <<accountInFlight, inFlight, mounts, credit, cached, grants, remounts>>
  BY DEF Release, At
<1>3. "counted" \in Pcs /\ "released" \in Pcs
  BY DEF Pcs, AccountPcs
<1>4. CASE reqs[r].on = NoBackend
  <2>1. To(r, "counted") /\ UNCHANGED sems
    BY <1>4 DEF Release
  <2>2. PICK q \in Request : /\ reqs' = [reqs EXCEPT ![r] = q] /\ q.pc = "counted"
                             /\ q.on = reqs[r].on /\ q.sem = reqs[r].sem
    BY <1>1, <1>3, <2>1, GoesTo
  <2>3. AccountsFollow(r, q)
    BY <1>1, <1>2, <2>2, AccountsSame DEF AccountPcs
  <2>4. /\ \A b \in Backends : AtBackend(q, b) <=> AtBackend(reqs[r], b)
        /\ \A b \in Backends : \A s \in Nat : AtChannel(q, b, s) <=> AtChannel(reqs[r], b, s)
    BY <1>4, <2>2, GatewayAssumption DEF AtBackend, AtChannel
  <2>5. BackendsFollow(r, q)
    BY <1>1, <1>2, <2>4, BackendsSame
  <2>6. ChannelsFollow(r, q) /\ NotOverfull'
    BY <1>1, <2>1, <2>4, ChannelsSame
  <2>7. GatewayTypeOK'
    BY <1>1, <1>2, <2>1, <2>2 DEF GatewayTypeOK
  <2>8. Placed(q)'
    BY <1>1, <1>4, <2>2, GatewayAssumption DEF Placed
  <2> QED BY <2>2, <2>3, <2>5, <2>6, <2>7, <2>8, RequestMoves
<1>5. CASE reqs[r].on # NoBackend
  <2>1. To(r, "released") /\ sems' = [sems EXCEPT ![reqs[r].on][reqs[r].sem].used = @ - 1]
    BY <1>5 DEF Release
  <2>2. PICK q \in Request : /\ reqs' = [reqs EXCEPT ![r] = q] /\ q.pc = "released"
                             /\ q.on = reqs[r].on /\ q.sem = reqs[r].sem
    BY <1>1, <1>3, <2>1, GoesTo
  <2>3. PICK o \in Backends : o = reqs[r].on
    BY <1>1, <1>5 DEF Placed
  <2>4. PICK k \in 1 .. Len(sems[o]) : k = reqs[r].sem
    BY <1>1, <1>5, <2>3 DEF Placed
  <2>5. /\ ChannelsFollow(r, q) /\ sems' \in [Backends -> Seq(Channel)]
        /\ Len(sems'[o]) = Len(sems[o]) /\ NotOverfull'
    <3>1. /\ sems' = [sems EXCEPT ![o][k].used = @ - 1]
          /\ reqs[r].pc \in TokenPcs /\ q.pc \notin TokenPcs
      BY <1>2, <2>1, <2>2, <2>3, <2>4 DEF TokenPcs
    <3>2. reqs[r].on = o /\ q.on = o /\ reqs[r].sem = k /\ q.sem = k
      BY <2>2, <2>3, <2>4
    <3> QED BY <1>1, <3>1, <3>2, ChannelMoves
  <2>6. AccountsFollow(r, q)
    BY <1>1, <1>2, <2>2, AccountsSame DEF AccountPcs
  <2>7. BackendsFollow(r, q)
    <3>1. \A b \in Backends : AtBackend(q, b) <=> AtBackend(reqs[r], b)
      BY <1>2, <2>2 DEF AtBackend, BackendPcs
    <3> QED BY <1>1, <1>2, <3>1, BackendsSame
  <2>8. GatewayTypeOK'
    BY <1>1, <1>2, <2>2, <2>5 DEF GatewayTypeOK
  <2>9. Placed(q)'
    BY <2>2, <2>3, <2>4, <2>5 DEF Placed, AccountPcs
  <2> QED BY <2>2, <2>5, <2>6, <2>7, <2>8, <2>9, RequestMoves
<1> QED BY <1>4, <1>5

LEMMA ReleaseAccountHolds ==
  ASSUME SlotsInv, NEW r \in Prompts, ReleaseAccount(r)
  PROVE  SlotsInv'
<1>1. GatewayTypeOK /\ NotOverfull /\ reqs[r] \in Request
  BY RequestTakes DEF SlotsInv
<1>2. /\ reqs[r].pc = "counted" /\ accountInFlight' = [accountInFlight EXCEPT ![Asker[r]] = @ - 1]
      /\ UNCHANGED <<inFlight, sems, mounts, credit, cached, grants, remounts>>
  BY DEF ReleaseAccount, At, FreeAccountSlot
<1>3. PICK q \in Request : /\ reqs' = [reqs EXCEPT ![r] = q] /\ q.pc \in {"idle", "billing"}
                           /\ q.on = NoBackend /\ q.sem = 0
  <2> DEFINE x == reqs[r]
             pc == IF x.cost = 0 THEN "idle" ELSE "billing"
             y == [pc |-> pc, read |-> x.read, on |-> NoBackend, sem |-> 0, cost |-> x.cost]
             r1 == [reqs EXCEPT ![r].pc = pc]
             r2 == [r1 EXCEPT ![r].on = NoBackend]
  <2>1. reqs' = [r2 EXCEPT ![r].sem = 0]
    BY DEF ReleaseAccount
  <2>2. x = [pc |-> x.pc, read |-> x.read, on |-> x.on, sem |-> x.sem, cost |-> x.cost]
        /\ DOMAIN reqs = Prompts /\ reqs = [p \in Prompts |-> reqs[p]]
    BY <1>1 DEF Request, GatewayTypeOK
  <2>9. pc \in {"idle", "billing"}
    OBVIOUS
  <2> HIDE DEF pc
  <2>3. DOMAIN r1 = Prompts /\ \A p \in Prompts : p # r => r1[p] = reqs[p]
    BY <2>2
  <2>4. r1[r] = [pc |-> pc, read |-> x.read, on |-> x.on, sem |-> x.sem, cost |-> x.cost]
    BY <2>2
  <2> HIDE DEF r1
  <2>5. DOMAIN r2 = Prompts /\ \A p \in Prompts : p # r => r2[p] = reqs[p]
    BY <2>3
  <2>6. r2[r] = [pc |-> pc, read |-> x.read, on |-> NoBackend, sem |-> x.sem, cost |-> x.cost]
    BY <2>3, <2>4
  <2> HIDE DEF r2
  <2>7. reqs'[r] = y /\ \A p \in Prompts : p # r => reqs'[p] = reqs[p]
    BY <2>1, <2>5, <2>6
  <2>8. DOMAIN reqs' = Prompts /\ reqs' = [p \in Prompts |-> reqs'[p]]
    BY <2>1, <2>5
  <2>10. y \in Request
    BY <1>1, <2>9, RequestParts DEF Request, Pcs
  <2>11. y.pc = pc /\ y.on = NoBackend /\ y.sem = 0
    OBVIOUS
  <2> HIDE DEF y
  <2>12. reqs' = [reqs EXCEPT ![r] = y]
    BY <2>2, <2>7, <2>8
  <2> QED BY <2>9, <2>10, <2>11, <2>12
<1>4. AccountsFollow(r, q) /\ accountInFlight' \in [Accounts -> Int]
  BY <1>1, <1>2, <1>3, AccountMoves DEF AccountPcs
<1>5. /\ \A b \in Backends : AtBackend(q, b) <=> AtBackend(reqs[r], b)
      /\ \A b \in Backends : \A s \in Nat : AtChannel(q, b, s) <=> AtChannel(reqs[r], b, s)
  BY <1>2, <1>3 DEF AtBackend, AtChannel, BackendPcs, TokenPcs
<1>6. BackendsFollow(r, q)
  BY <1>1, <1>2, <1>5, BackendsSame
<1>7. ChannelsFollow(r, q) /\ NotOverfull'
  BY <1>1, <1>2, <1>5, ChannelsSame
<1>8. GatewayTypeOK'
  BY <1>1, <1>2, <1>3, <1>4 DEF GatewayTypeOK
<1>9. Placed(q)'
  BY <1>3 DEF Placed
<1> QED BY <1>3, <1>4, <1>6, <1>7, <1>8, <1>9, RequestMoves

\* Steps that move no request.
LEMMA UnmovedHold ==
  ASSUME SlotsInv, UNCHANGED <<reqs, accountInFlight, inFlight, sems>>,
         \/ \E a \in Accounts : CacheExpires(a) \/ AddCredit(a)
         \/ \E b \in Backends, cap \in Capacities \cup {0} : Remount(b, cap)
         \/ UNCHANGED inferenceVars
  PROVE  SlotsInv'
<1>1. GatewayTypeOK /\ Exact /\ NotOverfull /\ \A r \in Prompts : Placed(reqs[r])
  BY DEF SlotsInv
<1>2. (\A r \in Prompts : Placed(reqs[r]))'
  BY <1>1 DEF Placed
<1>3. Exact' /\ NotOverfull'
  BY <1>1 DEF Exact, NotOverfull, OfAccount, OfBackend, OfChannel, AtAccount, AtBackend, AtChannel
<1>4. /\ mounts \in [Backends -> Nat] /\ credit \in [Accounts -> Nat]
      /\ cached \in [Accounts -> Seq(Int)] /\ grants \in Nat /\ remounts \in Nat
  BY <1>1 DEF GatewayTypeOK
<1>5. ASSUME NEW a \in Accounts, CacheExpires(a) PROVE GatewayTypeOK'
  <2>1. /\ cached' = [cached EXCEPT ![a] = <<>>]
        /\ UNCHANGED <<reqs, accountInFlight, inFlight, sems, mounts, credit, grants, remounts>>
    BY <1>5 DEF CacheExpires, Uncached
  <2>2. cached' \in [Accounts -> Seq(Int)]
    BY <1>4, <2>1
  <2> QED BY <1>1, <2>1, <2>2 DEF GatewayTypeOK
<1>6. ASSUME NEW a \in Accounts, AddCredit(a) PROVE GatewayTypeOK'
  <2>1. /\ cached' = [cached EXCEPT ![a] = <<>>] /\ grants' = grants + 1
        /\ credit' = [credit EXCEPT ![a] = @ + GrantSize]
        /\ UNCHANGED <<reqs, accountInFlight, inFlight, sems, mounts, remounts>>
    BY <1>6 DEF AddCredit, Uncached
  <2>2. cached' \in [Accounts -> Seq(Int)]
    BY <1>4, <2>1
  <2>3. credit' \in [Accounts -> Nat] /\ grants' \in Nat
    BY <1>4, <2>1, GatewayAssumption
  <2> QED BY <1>1, <2>1, <2>2, <2>3 DEF GatewayTypeOK
<1>7. ASSUME NEW b \in Backends, NEW cap \in Capacities \cup {0}, Remount(b, cap) PROVE GatewayTypeOK'
  <2>1. /\ mounts' = [mounts EXCEPT ![b] = cap] /\ remounts' = remounts + 1
        /\ UNCHANGED <<reqs, accountInFlight, inFlight, sems, credit, cached, grants>>
    BY <1>7 DEF Remount
  <2>2. mounts' \in [Backends -> Nat] /\ remounts' \in Nat
    BY <1>4, <2>1, GatewayAssumption
  <2> QED BY <1>1, <2>1, <2>2 DEF GatewayTypeOK
<1>8. CASE UNCHANGED inferenceVars
  <2>1. UNCHANGED <<reqs, accountInFlight, inFlight, sems, mounts, credit, cached, grants, remounts>>
    BY <1>8 DEF inferenceVars
  <2>2. GatewayTypeOK'
    BY <1>1, <2>1 DEF GatewayTypeOK
  <2> QED BY <1>2, <1>3, <2>2 DEF SlotsInv
<1>9. CASE \E a \in Accounts : CacheExpires(a) \/ AddCredit(a)
  BY <1>2, <1>3, <1>5, <1>6, <1>9 DEF SlotsInv
<1>10. CASE \E b \in Backends, cap \in Capacities \cup {0} : Remount(b, cap)
  <2>1. GatewayTypeOK'
    BY <1>7, <1>10
  <2> QED BY <1>2, <1>3, <2>1 DEF SlotsInv
<1> QED BY <1>8, <1>9, <1>10

LEMMA InferenceInitHolds == InferenceInit => SlotsInv
<1> SUFFICES ASSUME InferenceInit PROVE SlotsInv
  OBVIOUS
<1>1. /\ reqs = [r \in Prompts |-> NewRequest] /\ sems = [b \in Backends |-> <<>>]
      /\ accountInFlight = [a \in Accounts |-> 0] /\ inFlight = [b \in Backends |-> 0]
      /\ mounts \in [Backends -> Capacities] /\ credit = [a \in Accounts |-> StartCredit]
      /\ cached = [a \in Accounts |-> <<>>] /\ grants = 0 /\ remounts = 0
  BY DEF InferenceInit, Uncached
<1>2. GatewayTypeOK
  <2>1. mounts \in [Backends -> Nat] /\ credit \in [Accounts -> Nat]
    BY <1>1, GatewayAssumption
  <2>2. cached \in [Accounts -> Seq(Int)] /\ sems \in [Backends -> Seq(Channel)]
    BY <1>1
  <2> QED BY <1>1, <2>1, <2>2, NewRequestParts DEF GatewayTypeOK
<1>3. \A r \in Prompts : Placed(reqs[r])
  BY <1>1, NewRequestParts DEF Placed
<1>4. Exact
  <2>1. \A a \in Accounts : OfAccount(a) = {}
    BY <1>1, NewRequestParts DEF OfAccount, AtAccount, AccountPcs
  <2>2. \A b \in Backends : OfBackend(b) = {}
    BY <1>1, NewRequestParts DEF OfBackend, AtBackend, BackendPcs
  <2>3. \A b \in Backends : Len(sems[b]) = 0
    BY <1>1
  <2>4. Cardinality({}) = 0
    BY FS_EmptySet
  <2>5. \A b \in Backends : 1 .. Len(sems[b]) = {}
    BY <2>3
  <2>6. \A a \in Accounts : accountInFlight[a] = Cardinality(OfAccount(a))
    BY <1>1, <2>1, <2>4
  <2>7. \A b \in Backends : inFlight[b] = Cardinality(OfBackend(b))
    BY <1>1, <2>2, <2>4
  <2> QED BY <2>5, <2>6, <2>7 DEF Exact
<1>5. NotOverfull
  BY <1>1 DEF NotOverfull
<1> QED BY <1>2, <1>3, <1>4, <1>5 DEF SlotsInv

\* Every way a request can go leaves the account's slots, the backend's count
\* and its channels' tokens at what the requests under way hold
\* (inferencegateway/gateway.go:213-408): none leaks, none is freed twice.
THEOREM SlotsAreExact == InferenceSpec => []SlotsExact
<1>1. SlotsInv /\ [InferenceNext]_inferenceVars => SlotsInv'
  <2> SUFFICES ASSUME SlotsInv, [InferenceNext]_inferenceVars PROVE SlotsInv'
    OBVIOUS
  <2>1. ASSUME NEW r \in Prompts, CheckCached(r) \/ ReadCredit(r) \/ PutBalance(r) \/ Draw(r) \/ Adjust(r)
        PROVE  SlotsInv'
    BY <2>1, CreditStepsHold
  <2>2. ASSUME NEW r \in Prompts, AccountSlot(r) PROVE SlotsInv'
    BY <2>2, AccountSlotHolds
  <2>3. ASSUME NEW r \in Prompts, External(r) PROVE SlotsInv'
    BY <2>3, ExternalHolds
  <2>4. ASSUME NEW r \in Prompts, Pick(r) PROVE SlotsInv'
    BY <2>4, PickHolds
  <2>5. ASSUME NEW r \in Prompts, Admit(r) PROVE SlotsInv'
    BY <2>5, AdmitHolds
  <2>6. ASSUME NEW r \in Prompts, CountIn(r) \/ CountOut(r) PROVE SlotsInv'
    BY <2>6, CountHolds
  <2>7. ASSUME NEW r \in Prompts, QueueTimeout(r) PROVE SlotsInv'
    BY <2>7, FailsHolds DEF QueueTimeout, At
  <2>8. ASSUME NEW r \in Prompts, Answers(r) PROVE SlotsInv'
    BY <2>8, AnswersHolds
  <2>9. ASSUME NEW r \in Prompts, Release(r) PROVE SlotsInv'
    BY <2>9, ReleaseHolds
  <2>10. ASSUME NEW r \in Prompts, ReleaseAccount(r) PROVE SlotsInv'
    BY <2>10, ReleaseAccountHolds
  <2>11. CASE \E a \in Accounts : CacheExpires(a) \/ AddCredit(a)
    BY <2>11, UnmovedHold DEF CacheExpires, AddCredit
  <2>12. CASE \E b \in Backends, cap \in Capacities \cup {0} : Remount(b, cap)
    BY <2>12, UnmovedHold DEF Remount
  <2>13. CASE UNCHANGED inferenceVars
    BY <2>13, UnmovedHold DEF inferenceVars
  <2> QED BY <2>1, <2>2, <2>3, <2>4, <2>5, <2>6, <2>7, <2>8, <2>9, <2>10, <2>11, <2>12, <2>13
          DEF InferenceNext
<1>2. SlotsInv => SlotsExact
  BY ExactIsSlotsExact DEF SlotsInv
<1> QED BY InferenceInitHolds, <1>1, <1>2, PTL DEF InferenceSpec

-----------------------------------------------------------------------------
(***************************************************************************)
(* Instances with a share of a GPU.  What is allocated or has a pod is     *)
(* counted together: an allocation that no stale report has misled finds   *)
(* in the report all that is held, so what it adds still fits.             *)
(***************************************************************************)
MarketSpec == MarketInit /\ [][MarketNext]_market

LaunchRow ==
  [at : {"none", "asked", "refused", "allocated", "made", "recorded", "stopped", "deleted"},
   want : Nat, node : Nodes \cup {""}, kind : {"none", "slice", "whole"}, size : Nat,
   pod : {"none", "unbound", "bound"}, row : Nat, again : BOOLEAN, slice : Nat]

Market == [launch : [Launches -> LaunchRow], restarts : Nat, raced : BOOLEAN,
           seen : [held : [AllDevices -> Int], memory : [Nodes -> Int]]]

\* What the row of one launch says of the way it has come.
RowOK(row) ==
  /\ row.at \in {"none", "asked", "allocated", "stopped", "deleted"} => row.pod = "none"
  /\ row.at \in {"asked", "allocated", "made"} /\ ~row.again => row.row = 0
  /\ row.at = "asked" /\ row.again => row.row = row.want
  /\ row.at \in {"allocated", "made"} /\ row.again => row.row <= row.size
  /\ row.at = "recorded" => row.row <= row.size /\ (~row.again => row.row = row.size)
  /\ row.at = "allocated" =>
       /\ row.size >= row.want
       /\ IF row.kind = "slice" THEN row.size = row.slice ELSE row.slice = NoSlice

\* Launches that hold a device, or are about to.
HoldsRow(row) == row.at = "allocated" \/ row.pod # "none"
Claiming == {l \in Launches : HoldsRow(market.launch[l])}
HeldBy(d) == {l \in Claiming : Has(market.launch[l], d)}
HeldOn(n) == {l \in Claiming : market.launch[l].node = n}

Room ==
  /\ \A d \in AllDevices : ~GpuNodes[d.node].simulated => Cardinality(HeldBy(d)) <= Number(d)
  /\ \A n \in Nodes : SetSum(SizeOf, HeldOn(n)) <= GpuNodes[n].memory * GpuNodes[n].gpus

MarketInv ==
  /\ market \in Market
  /\ \A l \in Launches : RowOK(market.launch[l])
  /\ ~market.raced => Room

LEMMA DeviceTyped ==
  ASSUME NEW d \in AllDevices
  PROVE  /\ d.node \in Nodes /\ d.kind \in {"slice", "whole"} /\ d.size \in Nat
         /\ Number(d) \in Nat /\ GpuNodes[d.node].simulated \in BOOLEAN
         /\ GpuNodes[d.node].memory \in Nat /\ GpuNodes[d.node].gpus \in Nat
         /\ \A e \in AllDevices : e.node = d.node /\ e.kind = d.kind /\ e.size = d.size => e = d
<1>1. \A e \in AllDevices :
        \/ \E n \in Nodes : \E s \in DOMAIN GpuNodes[n].slices :
             e = [node |-> n, kind |-> "slice", size |-> s]
        \/ \E n \in Nodes : e = [node |-> n, kind |-> "whole", size |-> GpuNodes[n].memory]
  BY DEF AllDevices, Devices
<1>2. \A n \in Nodes :
        /\ GpuNodes[n].memory \in Nat /\ GpuNodes[n].gpus \in Nat /\ GpuNodes[n].shared \in Nat
        /\ GpuNodes[n].simulated \in BOOLEAN
        /\ \A s \in DOMAIN GpuNodes[n].slices : s \in Nat /\ GpuNodes[n].slices[s] \in Nat
  BY GpuAssumption DEF Nodes
<1>3. CASE \E n \in Nodes : \E s \in DOMAIN GpuNodes[n].slices :
             d = [node |-> n, kind |-> "slice", size |-> s]
  BY <1>1, <1>2, <1>3 DEF Number
<1>4. CASE \E n \in Nodes : d = [node |-> n, kind |-> "whole", size |-> GpuNodes[n].memory]
  BY <1>1, <1>2, <1>4 DEF Number
<1> QED BY <1>1, <1>3, <1>4

LEMMA HoldingFinite ==
  ASSUME NEW S \in SUBSET Launches
  PROVE  IsFiniteSet(S) /\ Cardinality(S) \in Nat
BY GpuAssumption, FS_Subset, FS_CardinalityType

LEMMA SizesAreNat ==
  ASSUME market \in Market PROVE SizeOf \in [Launches -> Nat]
BY DEF Market, LaunchRow, SizeOf

LEMMA PutTyped ==
  ASSUME market \in Market, NEW l \in Launches, NEW row \in LaunchRow
  PROVE  /\ Put(l, row) \in Market
         /\ Put(l, row).launch = [market.launch EXCEPT ![l] = row]
         /\ Put(l, row).seen = market.seen /\ Put(l, row).raced = market.raced
         /\ Put(l, row).restarts = market.restarts
<1>1. PICK launch : launch = [market.launch EXCEPT ![l] = row]
  OBVIOUS
<1>2. launch \in [Launches -> LaunchRow]
  BY <1>1 DEF Market
<1>3. Put(l, row) = [market EXCEPT !.launch = launch]
  BY <1>1 DEF Put, Market
<1> QED BY <1>1, <1>2, <1>3 DEF Market

\* A launch that holds nothing, or what it held before, leaves as much room.
LEMMA MarketMoves ==
  ASSUME MarketInv, NEW l \in Launches, NEW row \in LaunchRow, RowOK(row),
         market' \in Market, market'.launch = [market.launch EXCEPT ![l] = row],
         market'.raced = market.raced,
         HoldsRow(row) => /\ HoldsRow(market.launch[l]) /\ row.node = market.launch[l].node
                          /\ row.kind = market.launch[l].kind /\ row.size = market.launch[l].size
  PROVE  MarketInv'
<1>1. market \in Market /\ \A k \in Launches : RowOK(market.launch[k])
  BY DEF MarketInv
<1>2. \A k \in Launches : market'.launch[k] = IF k = l THEN row ELSE market.launch[k]
  BY <1>1 DEF Market
<1>3. \A k \in Launches : RowOK(market'.launch[k])
  BY <1>1, <1>2
<1>4. ASSUME ~market'.raced PROVE Room'
  <2>1. Room
    BY <1>4 DEF MarketInv
  <2>2. \A k \in Claiming' : /\ k \in Claiming
                            /\ market'.launch[k].node = market.launch[k].node
                            /\ market'.launch[k].kind = market.launch[k].kind
                            /\ market'.launch[k].size = market.launch[k].size
    BY <1>2 DEF Claiming
  <2>3. ASSUME NEW d \in AllDevices, ~GpuNodes[d.node].simulated
        PROVE  Cardinality(HeldBy(d)') <= Number(d)
    <3>1. HeldBy(d)' \subseteq HeldBy(d) /\ HeldBy(d) \subseteq Launches
      BY <2>2 DEF HeldBy, Has, Claiming
    <3>2. Cardinality(HeldBy(d)') <= Cardinality(HeldBy(d))
      BY <3>1, HoldingFinite, FS_Subset
    <3>3. Cardinality(HeldBy(d)) <= Number(d)
      BY <2>1, <2>3 DEF Room
    <3>4. Cardinality(HeldBy(d)) \in Int /\ Cardinality(HeldBy(d)') \in Int
      <4>1. HeldBy(d) \in SUBSET Launches /\ HeldBy(d)' \in SUBSET Launches
        BY <3>1
      <4> QED BY <4>1, HoldingFinite
    <3> QED BY <3>2, <3>3, <3>4, DeviceTyped
  <2>4. ASSUME NEW n \in Nodes
        PROVE  SetSum(SizeOf', HeldOn(n)') <= GpuNodes[n].memory * GpuNodes[n].gpus
    <3>1. HeldOn(n)' \in SUBSET HeldOn(n) /\ HeldOn(n) \in SUBSET Launches
      BY <2>2 DEF HeldOn, Claiming
    <3>2. IsFiniteSet(HeldOn(n)) /\ IsFiniteSet(HeldOn(n)')
      <4>1. HeldOn(n)' \in SUBSET Launches
        BY <3>1
      <4> QED BY <3>1, <4>1, HoldingFinite
    <3>3. \A x \in HeldOn(n) : SizeOf[x] \in Nat
      BY <1>1, <3>1, SizesAreNat
    <3>4. SetSum(SizeOf', HeldOn(n)') = SetSum(SizeOf, HeldOn(n)')
      <4>1. \A x \in HeldOn(n)' : SizeOf[x] \in Int /\ SizeOf'[x] = SizeOf[x]
        BY <2>2, <3>1, <3>3 DEF HeldOn, SizeOf, Claiming
      <4> QED BY <3>2, <4>1, SetSumSame
    <3>5. SetSum(SizeOf, HeldOn(n)') <= SetSum(SizeOf, HeldOn(n))
      BY <3>1, <3>2, <3>3, SetSumMonotone
    <3>6. SetSum(SizeOf, HeldOn(n)') \in Int /\ SetSum(SizeOf, HeldOn(n)) \in Int
      <4>1. \A x \in HeldOn(n)' : SizeOf[x] \in Int
        BY <3>1, <3>3
      <4> QED BY <3>2, <3>3, <4>1, SetSumType
    <3>7. SetSum(SizeOf, HeldOn(n)) <= GpuNodes[n].memory * GpuNodes[n].gpus
      BY <2>1 DEF Room
    <3>8. GpuNodes[n].memory * GpuNodes[n].gpus \in Int
      BY GpuAssumption DEF Nodes
    <3> QED BY <3>4, <3>5, <3>6, <3>7, <3>8
  <2> QED BY <2>3, <2>4 DEF Room
<1> QED BY <1>3, <1>4 DEF MarketInv

\* A free device adds no more than the report leaves.
LEMMA FreeFits ==
  ASSUME market \in Market, NEW d \in AllDevices, IsFree(d)
  PROVE  /\ market.seen.held[d] < Number(d)
         /\ d.size = 0 \/ market.seen.memory[d.node] + d.size
                            <= GpuNodes[d.node].memory * GpuNodes[d.node].gpus
<1>1. PICK x : x = GpuNodes[d.node].memory * GpuNodes[d.node].gpus - market.seen.memory[d.node]
  OBVIOUS
<1>2. x \in Int /\ market.seen.memory[d.node] \in Int /\ d.size \in Nat
      /\ GpuNodes[d.node].memory * GpuNodes[d.node].gpus \in Int
  BY <1>1, DeviceTyped DEF Market
<1>3. \E m \in {0, x} : \A k \in {0, x} : m >= k
  BY <1>2
<1>4. Max({0, x}) \in {0, x}
  BY <1>3 DEF Max
<1>5. Max({0, x}) >= d.size /\ market.seen.held[d] < Number(d)
  BY <1>1 DEF IsFree, FreeMemory
<1> QED BY <1>1, <1>2, <1>4, <1>5

\* What the allocator answers is free and fits, a slice no larger than another
\* that fits, and a whole GPU only where no slice fits.
LEMMA AllocatedFits ==
  ASSUME NEW want \in Nat, NEW d \in AllocateByVRAM(want)
  PROVE  /\ d \in AllDevices /\ IsFree(d) /\ d.size >= want
         /\ IF d.kind = "slice" THEN d.size = SmallestSlice(want)
            ELSE SmallestSlice(want) = NoSlice
<1> DEFINE smallest == {e \in Slices(want) : \A f \in Slices(want) : e.size <= f.size}
           exact == {e \in Slices(want) : e.size = want}
           sizes == {e.size : e \in Slices(want)}
<1>1. \A e \in Slices(want) : e \in AllDevices /\ e.size \in Nat /\ e.size >= want
  BY DeviceTyped DEF Slices
<1>2. exact \subseteq smallest
  BY <1>1
<1>3. Slices(want) # {} => smallest # {} /\ \A e \in smallest : e.size = Min(sizes)
  <2> SUFFICES ASSUME Slices(want) # {}
               PROVE  smallest # {} /\ \A e \in smallest : e.size = Min(sizes)
    OBVIOUS
  <2>1. sizes \in SUBSET Nat /\ sizes # {}
    BY <1>1
  <2>2. Min(sizes) \in sizes /\ \A k \in sizes : Min(sizes) <= k
    BY <2>1, LeastIn
  <2>3. PICK e \in Slices(want) : e.size = Min(sizes)
    BY <2>2
  <2>4. \A f \in Slices(want) : e.size <= f.size
    BY <2>2, <2>3
  <2>5. ASSUME NEW f \in smallest PROVE f.size = Min(sizes)
    <3>1. f.size <= e.size /\ f \in Slices(want)
      BY <2>3
    <3>2. f.size \in Nat /\ e.size \in Nat
      BY <1>1, <3>1
    <3> QED BY <2>3, <2>4, <3>1, <3>2
  <2> QED BY <2>4, <2>5
<1>4. d \in smallest \/ (Slices(want) = {} /\ d \in Wholes(want))
  BY <1>2, <1>3 DEF AllocateByVRAM, Fullest
<1>5. CASE d \in smallest
  <2>1. d \in Slices(want) /\ Slices(want) # {} /\ d.size = Min(sizes)
    BY <1>3, <1>5
  <2> QED BY <2>1 DEF SmallestSlice, Slices
<1>6. CASE Slices(want) = {} /\ d \in Wholes(want)
  BY <1>6 DEF SmallestSlice, Wholes
<1> QED BY <1>4, <1>5, <1>6

\* If the report has missed no pod and no other launch is on its way, what is
\* held is what was reported.
LEMMA AllReported ==
  ASSUME MarketInv, NEW l \in Launches, market.launch[l].at = "asked", ~Stale, ~Unsettled(l)
  PROVE  /\ Claiming = BoundPod /\ l \notin Claiming
         /\ \A d \in AllDevices : ~GpuNodes[d.node].simulated =>
              Cardinality(HeldBy(d)) <= market.seen.held[d]
         /\ \A n \in Nodes : SetSum(SizeOf, HeldOn(n)) <= market.seen.memory[n]
<1>1. market \in Market /\ \A k \in Launches : RowOK(market.launch[k])
  BY DEF MarketInv
<1>2. \A k \in Launches : /\ market.launch[k].pod \in {"none", "unbound", "bound"}
                          /\ market.launch[k].at = "allocated" => market.launch[k].pod = "none"
  BY <1>1 DEF Market, LaunchRow, RowOK
<1>3. \A k \in Launches \ {l} : market.launch[k].at # "allocated" /\ market.launch[k].pod # "unbound"
  BY DEF Unsettled, Launch
<1>4. market.launch[l].pod = "none"
  BY <1>1 DEF RowOK
<1>5. Claiming = BoundPod /\ l \notin Claiming
  BY <1>2, <1>3, <1>4 DEF Claiming, HoldsRow, BoundPod
<1>6. ASSUME NEW d \in AllDevices, ~GpuNodes[d.node].simulated
      PROVE  Cardinality(HeldBy(d)) <= market.seen.held[d]
  <2>1. Usage.held[d] = Cardinality(HeldBy(d))
    BY <1>5, <1>6 DEF Usage, Held, HeldBy
  <2>2. HeldBy(d) \in SUBSET Launches
    BY DEF HeldBy, Claiming
  <2>3. Cardinality(HeldBy(d)) \in Int
    BY <2>2, HoldingFinite
  <2>4. market.seen.held[d] \in Int /\ ~(market.seen.held[d] < Usage.held[d])
    BY <1>1 DEF Stale, Market
  <2> QED BY <2>1, <2>3, <2>4
<1>7. ASSUME NEW n \in Nodes PROVE SetSum(SizeOf, HeldOn(n)) <= market.seen.memory[n]
  <2>1. PICK S : S = HeldOn(n)
    OBVIOUS
  <2>2. S = {k \in BoundPod : market.launch[k].node = n}
    BY <1>5, <2>1 DEF HeldOn
  <2>3. HeldMemory(n, BoundPod) = SetSum(SizeOf, {k \in BoundPod : market.launch[k].node = n})
    BY DEF HeldMemory, SetSum, MapThenSumSet, MapThenFoldSet
  <2>4. Usage.memory[n] = SetSum(SizeOf, S)
    BY <2>2, <2>3 DEF Usage
  <2>5. S \in SUBSET Launches /\ IsFiniteSet(S)
    BY <2>2, HoldingFinite DEF BoundPod
  <2>6. SetSum(SizeOf, S) \in Int
    <3>1. \A x \in S : SizeOf[x] \in Int
      BY <1>1, <2>5, SizesAreNat
    <3> QED BY <2>5, <3>1, SetSumType
  <2>7. market.seen.memory[n] \in Int /\ ~(market.seen.memory[n] < Usage.memory[n])
    BY <1>1 DEF Stale, Market
  <2> QED BY <2>1, <2>4, <2>6, <2>7
<1> QED BY <1>5, <1>6, <1>7

LEMMA AllocateKeeps ==
  ASSUME MarketInv, NEW l \in Launches, Allocate(l)
  PROVE  MarketInv'
<1>1. /\ market \in Market /\ \A k \in Launches : RowOK(market.launch[k])
      /\ market.launch[l].at = "asked" /\ market.launch[l] \in LaunchRow
  BY DEF MarketInv, Allocate, Launch, Market
<1>2. PICK want : want = market.launch[l].want
  OBVIOUS
<1>3. want \in Nat
  BY <1>1, <1>2 DEF LaunchRow
<1>4. PICK d \in AllocateByVRAM(want) :
        market' = [Put(l, [Launch(l) EXCEPT
                              !.at = "allocated", !.node = d.node, !.kind = d.kind, !.size = d.size,
                              !.slice = SmallestSlice(want)])
                   EXCEPT !.raced = @ \/ Stale \/ Unsettled(l)]
  BY <1>2 DEF Allocate, Launch
<1>5. /\ d \in AllDevices /\ IsFree(d) /\ d.size >= want
      /\ IF d.kind = "slice" THEN d.size = SmallestSlice(want) ELSE SmallestSlice(want) = NoSlice
  BY <1>3, <1>4, AllocatedFits
<1>6. /\ d.node \in Nodes /\ d.kind \in {"slice", "whole"} /\ d.size \in Nat
      /\ Number(d) \in Nat
  BY <1>5, DeviceTyped
<1>7. PICK slice : slice = SmallestSlice(want)
  OBVIOUS
<1>8. slice \in Nat
  BY <1>5, <1>6, <1>7 DEF NoSlice
<1>9. PICK row : row = [market.launch[l] EXCEPT !.at = "allocated", !.node = d.node,
                                               !.kind = d.kind, !.size = d.size, !.slice = slice]
  OBVIOUS
<1>10. /\ row \in LaunchRow /\ row.at = "allocated" /\ row.node = d.node /\ row.kind = d.kind
       /\ row.size = d.size /\ row.slice = slice /\ row.want = want
       /\ row.pod = market.launch[l].pod /\ row.row = market.launch[l].row
       /\ row.again = market.launch[l].again
  BY <1>1, <1>2, <1>6, <1>8, <1>9 DEF LaunchRow
<1>11. RowOK(row)
  BY <1>1, <1>2, <1>5, <1>7, <1>10 DEF RowOK
<1>12. PICK next : next = Put(l, row)
  OBVIOUS
<1>13. PICK raced : raced = (market.raced \/ Stale \/ Unsettled(l))
  OBVIOUS
<1>14. raced \in BOOLEAN /\ (~raced => ~market.raced /\ ~Stale /\ ~Unsettled(l))
  BY <1>13, Zenon
<1>15. /\ next \in Market /\ next.launch = [market.launch EXCEPT ![l] = row]
       /\ next.raced = market.raced
  BY <1>1, <1>10, <1>12, PutTyped
<1>16. market' = [next EXCEPT !.raced = raced]
  <2>1. market' = [next EXCEPT !.raced = @ \/ Stale \/ Unsettled(l)]
    BY <1>4, <1>7, <1>9, <1>12 DEF Launch
  <2> QED BY <1>13, <1>15, <2>1, Zenon
<1>17. /\ market' \in Market /\ market'.raced = raced
       /\ market'.launch = [market.launch EXCEPT ![l] = row]
  BY <1>14, <1>15, <1>16 DEF Market
<1>18. \A k \in Launches : market'.launch[k] = IF k = l THEN row ELSE market.launch[k]
  BY <1>1, <1>17 DEF Market
<1>19. ASSUME ~raced PROVE Room'
  <2>1. /\ l \notin Claiming
        /\ \A e \in AllDevices : ~GpuNodes[e.node].simulated =>
             Cardinality(HeldBy(e)) <= market.seen.held[e]
        /\ \A n \in Nodes : SetSum(SizeOf, HeldOn(n)) <= market.seen.memory[n]
    BY <1>1, <1>14, <1>19, AllReported
  <2>2. Room
    BY <1>14, <1>19 DEF MarketInv
  <2>3. Claiming' = Claiming \cup {l}
    BY <1>10, <1>18, <2>1 DEF Claiming, HoldsRow
  <2>4. Claiming \in SUBSET Launches
    BY DEF Claiming
  <2>5. ASSUME NEW e \in AllDevices, ~GpuNodes[e.node].simulated
        PROVE  Cardinality(HeldBy(e)') <= Number(e)
    <3>1. HeldBy(e) \in SUBSET Launches /\ l \notin HeldBy(e)
      BY <2>1, <2>4 DEF HeldBy
    <3>2. CASE e = d
      <4>1. HeldBy(e)' = HeldBy(e) \cup {l}
        BY <1>10, <1>18, <2>1, <2>3, <2>4, <3>2 DEF HeldBy, Has
      <4>2. Cardinality(HeldBy(e)') = Cardinality(HeldBy(e)) + 1
        BY <3>1, <4>1, HoldingFinite, FS_AddElement
      <4>3. Cardinality(HeldBy(e)) <= market.seen.held[e] /\ market.seen.held[e] < Number(e)
        BY <1>1, <1>5, <2>1, <2>5, <3>2, FreeFits
      <4>4. Cardinality(HeldBy(e)) \in Int /\ market.seen.held[e] \in Int
        BY <1>1, <3>1, HoldingFinite DEF Market
      <4> QED BY <1>6, <3>2, <4>2, <4>3, <4>4
    <3>3. CASE e # d
      <4>1. ~Has(row, e)
        BY <1>5, <1>10, <3>3, DeviceTyped DEF Has
      <4>2. HeldBy(e)' = HeldBy(e)
        BY <1>18, <2>1, <2>3, <2>4, <4>1 DEF HeldBy
      <4> QED BY <2>2, <2>5, <4>2 DEF Room
    <3> QED BY <3>2, <3>3
  <2>6. ASSUME NEW n \in Nodes
        PROVE  SetSum(SizeOf', HeldOn(n)') <= GpuNodes[n].memory * GpuNodes[n].gpus
    <3>1. PICK S : S = HeldOn(n)
      OBVIOUS
    <3>2. S \in SUBSET Launches /\ l \notin S
      BY <2>1, <2>4, <3>1 DEF HeldOn
    <3>3. IsFiniteSet(S) /\ \A x \in S : SizeOf[x] \in Int /\ SizeOf'[x] = SizeOf[x]
      <4>1. \A x \in S : SizeOf[x] \in Nat
        BY <1>1, <3>2, SizesAreNat
      <4>2. \A x \in S : SizeOf'[x] = SizeOf[x]
        BY <1>18, <3>2 DEF SizeOf
      <4> QED BY <3>2, <4>1, <4>2, HoldingFinite
    <3>4. SetSum(SizeOf', S) = SetSum(SizeOf, S) /\ SetSum(SizeOf, S) \in Int
      BY <3>3, SetSumSame, SetSumType
    <3>5. SetSum(SizeOf, S) <= GpuNodes[n].memory * GpuNodes[n].gpus
      BY <2>2, <3>1 DEF Room
    <3>6. CASE n # d.node
      <4>1. HeldOn(n)' = S
        BY <1>10, <1>18, <2>1, <2>3, <2>4, <3>1, <3>6 DEF HeldOn
      <4> QED BY <3>4, <3>5, <4>1
    <3>7. CASE n = d.node
      <4>1. HeldOn(n)' = S \cup {l}
        BY <1>10, <1>18, <2>1, <2>3, <2>4, <3>1, <3>7 DEF HeldOn
      <4>2. SizeOf'[l] = d.size
        BY <1>10, <1>18 DEF SizeOf
      <4>3. SetSum(SizeOf', S \cup {l}) = SetSum(SizeOf', S) + d.size
        <5>1. PICK w : w = SizeOf'
          OBVIOUS
        <5>2. (\A x \in S : w[x] \in Int) /\ w[l] = d.size /\ d.size \in Int
          BY <1>6, <3>3, <4>2, <5>1
        <5>3. SetSum(w, S \cup {l}) = SetSum(w, S) + w[l]
          BY <3>2, <3>3, <5>2, SetSumAdd
        <5> QED BY <5>1, <5>2, <5>3
      <4>4. SetSum(SizeOf, S) <= market.seen.memory[n]
        BY <2>1, <3>1
      <4>5. d.size = 0 \/ market.seen.memory[n] + d.size <= GpuNodes[n].memory * GpuNodes[n].gpus
        BY <1>1, <1>5, <3>7, FreeFits
      <4>6. market.seen.memory[n] \in Int /\ GpuNodes[n].memory * GpuNodes[n].gpus \in Int
        BY <1>1, GpuAssumption DEF Market, Nodes
      <4> QED BY <1>6, <3>4, <3>5, <4>1, <4>3, <4>4, <4>5, <4>6
    <3> QED BY <3>6, <3>7
  <2> QED BY <2>5, <2>6 DEF Room
<1> QED BY <1>1, <1>11, <1>17, <1>18, <1>19 DEF MarketInv

\* A step of one launch that takes nothing.
LEMMA LaunchMoves ==
  ASSUME MarketInv, NEW l \in Launches, NEW row \in LaunchRow, RowOK(row), market' = Put(l, row),
         HoldsRow(row) => /\ HoldsRow(market.launch[l]) /\ row.node = market.launch[l].node
                          /\ row.kind = market.launch[l].kind /\ row.size = market.launch[l].size
  PROVE  MarketInv'
<1>1. /\ market' \in Market /\ market'.launch = [market.launch EXCEPT ![l] = row]
      /\ market'.raced = market.raced
  BY PutTyped DEF MarketInv
<1> QED BY <1>1, MarketMoves

LEMMA NoLaunchAt ==
  ASSUME NEW at \in {"refused", "deleted"}, NEW row, row = [NoLaunch EXCEPT !.at = at]
  PROVE  row \in LaunchRow /\ RowOK(row) /\ ~HoldsRow(row)
BY DEF NoLaunch, LaunchRow, RowOK, HoldsRow

\* A launch that does not come about: a restarted one stays stopped.
LEMMA GivenUp ==
  ASSUME MarketInv, NEW l \in Launches,
         market' = Put(l, IF Launch(l).again THEN [Launch(l) EXCEPT !.at = "stopped", !.pod = "none"]
                          ELSE [NoLaunch EXCEPT !.at = "refused"])
  PROVE  MarketInv'
<1>1. market.launch[l] \in LaunchRow
  BY DEF MarketInv, Market
<1>2. CASE market.launch[l].again
  <2>1. PICK row : row = [market.launch[l] EXCEPT !.at = "stopped", !.pod = "none"]
    OBVIOUS
  <2>2. row \in LaunchRow /\ RowOK(row) /\ ~HoldsRow(row)
    BY <1>1, <2>1 DEF LaunchRow, RowOK, HoldsRow
  <2> QED BY <1>2, <2>1, <2>2, LaunchMoves DEF Launch
<1>3. CASE ~market.launch[l].again
  <2>1. PICK row : row = [NoLaunch EXCEPT !.at = "refused"]
    OBVIOUS
  <2>2. row \in LaunchRow /\ RowOK(row) /\ ~HoldsRow(row)
    BY <2>1, NoLaunchAt
  <2> QED BY <1>3, <2>1, <2>2, LaunchMoves DEF Launch
<1> QED BY <1>2, <1>3

\* The same where there is no pod to be removed.
LEMMA GivenUpEarly ==
  ASSUME MarketInv, NEW l \in Launches, market.launch[l].pod = "none",
         market' = Put(l, IF Launch(l).again THEN [Launch(l) EXCEPT !.at = "stopped"]
                          ELSE [NoLaunch EXCEPT !.at = "refused"])
  PROVE  MarketInv'
<1>1. market.launch[l] \in LaunchRow
  BY DEF MarketInv, Market
<1>2. [Launch(l) EXCEPT !.at = "stopped"] = [Launch(l) EXCEPT !.at = "stopped", !.pod = "none"]
  BY <1>1 DEF LaunchRow, Launch
<1> QED BY <1>2, GivenUp

LEMMA AskKeeps ==
  ASSUME MarketInv, NEW l \in Launches, NEW want \in Wishes, Ask(l, want) PROVE MarketInv'
<1>1. want \in Nat
  BY GpuAssumption
<1>2. PICK row : row = [NoLaunch EXCEPT !.at = "asked", !.want = want]
  OBVIOUS
<1>3. row \in LaunchRow /\ RowOK(row) /\ ~HoldsRow(row)
  BY <1>1, <1>2 DEF NoLaunch, LaunchRow, RowOK, HoldsRow
<1> QED BY <1>2, <1>3, LaunchMoves DEF Ask

LEMMA MakePodKeeps ==
  ASSUME MarketInv, NEW l \in Launches, MakePod(l) PROVE MarketInv'
<1>1. /\ market.launch[l] \in LaunchRow /\ RowOK(market.launch[l])
      /\ market.launch[l].at = "allocated" /\ HoldsRow(market.launch[l])
  BY DEF MarketInv, Market, MakePod, Launch, HoldsRow
<1>2. CASE market' = Put(l, [Launch(l) EXCEPT !.at = "made", !.pod = "unbound"])
  <2>1. PICK row : row = [market.launch[l] EXCEPT !.at = "made", !.pod = "unbound"]
    OBVIOUS
  <2>2. /\ row \in LaunchRow /\ RowOK(row) /\ row.node = market.launch[l].node
        /\ row.kind = market.launch[l].kind /\ row.size = market.launch[l].size
    BY <1>1, <2>1 DEF LaunchRow, RowOK
  <2> QED BY <1>1, <1>2, <2>1, <2>2, LaunchMoves DEF Launch
<1>3. CASE market' = Put(l, IF Launch(l).again THEN [Launch(l) EXCEPT !.at = "stopped"]
                            ELSE [NoLaunch EXCEPT !.at = "refused"])
  BY <1>1, <1>3, GivenUpEarly DEF RowOK
<1> QED BY <1>2, <1>3 DEF MakePod

LEMMA BindPodKeeps ==
  ASSUME MarketInv, NEW l \in Launches, BindPod(l) PROVE MarketInv'
<1>1. /\ market.launch[l] \in LaunchRow /\ RowOK(market.launch[l])
      /\ market.launch[l].pod = "unbound" /\ HoldsRow(market.launch[l])
  BY DEF MarketInv, Market, BindPod, Launch, HoldsRow
<1>2. PICK row : row = [market.launch[l] EXCEPT !.pod = "bound"]
  OBVIOUS
<1>3. /\ row \in LaunchRow /\ RowOK(row) /\ row.node = market.launch[l].node
      /\ row.kind = market.launch[l].kind /\ row.size = market.launch[l].size
  BY <1>1, <1>2 DEF LaunchRow, RowOK
<1> QED BY <1>1, <1>2, <1>3, LaunchMoves DEF BindPod, Launch

LEMMA RecordKeeps ==
  ASSUME MarketInv, NEW l \in Launches, Record(l) PROVE MarketInv'
<1>1. /\ market.launch[l] \in LaunchRow /\ RowOK(market.launch[l])
      /\ market.launch[l].at = "made"
  BY DEF MarketInv, Market, Record, Launch
<1>2. CASE market' = Put(l, [Launch(l) EXCEPT !.at = "recorded",
                                              !.row = IF @ = 0 THEN Launch(l).size ELSE @])
  <2>1. PICK size \in Nat : size = IF market.launch[l].row = 0 THEN market.launch[l].size
                                   ELSE market.launch[l].row
    BY <1>1 DEF LaunchRow
  <2>2. PICK row : row = [market.launch[l] EXCEPT !.at = "recorded", !.row = size]
    OBVIOUS
  <2>3. /\ row \in LaunchRow /\ row.node = market.launch[l].node
        /\ row.kind = market.launch[l].kind /\ row.size = market.launch[l].size
        /\ row.pod = market.launch[l].pod /\ row.at = "recorded" /\ row.row = size
        /\ row.again = market.launch[l].again
    BY <1>1, <2>1, <2>2 DEF LaunchRow
  <2>4. HoldsRow(row) => HoldsRow(market.launch[l])
    BY <2>3 DEF HoldsRow
  <2>5. market.launch[l].size \in Nat /\ market.launch[l].row \in Nat
    BY <1>1 DEF LaunchRow
  <2>6. row.row <= row.size /\ (~row.again => row.row = row.size)
    BY <1>1, <2>1, <2>3, <2>5 DEF RowOK
  <2>7. RowOK(row)
    BY <2>3, <2>6 DEF RowOK
  <2>8. market' = Put(l, row)
    BY <1>2, <2>1, <2>2 DEF Launch
  <2> QED BY <2>3, <2>4, <2>7, <2>8, LaunchMoves
<1>3. CASE market' = Put(l, IF Launch(l).again
                            THEN [Launch(l) EXCEPT !.at = "stopped", !.pod = "none"]
                            ELSE [NoLaunch EXCEPT !.at = "refused"])
  BY <1>3, GivenUp
<1>4. CASE ~Launch(l).again /\ market' = Put(l, [Launch(l) EXCEPT !.at = "refused"])
  <2>1. PICK row : row = [market.launch[l] EXCEPT !.at = "refused"]
    OBVIOUS
  <2>2. /\ row \in LaunchRow /\ RowOK(row) /\ row.node = market.launch[l].node
        /\ row.kind = market.launch[l].kind /\ row.size = market.launch[l].size
        /\ row.pod = market.launch[l].pod /\ row.at = "refused"
    BY <1>1, <2>1 DEF LaunchRow, RowOK
  <2>3. HoldsRow(row) => HoldsRow(market.launch[l])
    BY <2>2 DEF HoldsRow
  <2> QED BY <1>4, <2>1, <2>2, <2>3, LaunchMoves DEF Launch
<1> QED BY <1>2, <1>3, <1>4 DEF Record

LEMMA HoldKeeps ==
  ASSUME MarketInv, NEW l \in Launches, HoldIt(l) PROVE MarketInv'
<1>1. market.launch[l] \in LaunchRow
  BY DEF MarketInv, Market
<1>2. PICK row : row = [market.launch[l] EXCEPT !.at = "stopped", !.pod = "none"]
  OBVIOUS
<1>3. row \in LaunchRow /\ RowOK(row) /\ ~HoldsRow(row)
  BY <1>1, <1>2 DEF LaunchRow, RowOK, HoldsRow
<1> QED BY <1>2, <1>3, LaunchMoves DEF HoldIt, Launch

LEMMA StartAgainKeeps ==
  ASSUME MarketInv, NEW l \in Launches, StartAgain(l) PROVE MarketInv'
<1>1. /\ market \in Market /\ market.launch[l] \in LaunchRow /\ RowOK(market.launch[l])
      /\ market.launch[l].at = "stopped"
  BY DEF MarketInv, Market, StartAgain, Launch
<1>2. PICK row : row = [market.launch[l] EXCEPT !.at = "asked", !.want = market.launch[l].row,
                                               !.again = TRUE]
  OBVIOUS
<1>3. row \in LaunchRow /\ RowOK(row) /\ ~HoldsRow(row)
  BY <1>1, <1>2 DEF LaunchRow, RowOK, HoldsRow
<1>4. PICK next : next = Put(l, row)
  OBVIOUS
<1>5. /\ next \in Market /\ next.launch = [market.launch EXCEPT ![l] = row]
      /\ next.raced = market.raced
  BY <1>1, <1>3, <1>4, PutTyped
<1>6. market' = [next EXCEPT !.restarts = @ + 1]
  BY <1>2, <1>4 DEF StartAgain, Launch
<1>7. market' \in Market /\ market'.launch = next.launch /\ market'.raced = next.raced
  BY <1>5, <1>6 DEF Market
<1> QED BY <1>3, <1>5, <1>7, MarketMoves

\* A report changes what was seen, never what is held.
LEMMA ReportKeeps == ASSUME MarketInv, Report PROVE MarketInv'
<1>1. market \in Market /\ market' = [market EXCEPT !.seen = Usage]
  BY DEF MarketInv, Report
<1>2. Usage \in [held : [AllDevices -> Int], memory : [Nodes -> Int]]
  <2>1. ASSUME NEW d \in AllDevices PROVE Held(d, BoundPod) \in Int
    <3>1. {l \in BoundPod : Has(market.launch[l], d)} \in SUBSET Launches
      BY DEF BoundPod
    <3>2. Cardinality({l \in BoundPod : Has(market.launch[l], d)}) \in Nat
      BY <3>1, HoldingFinite
    <3> QED BY <3>2 DEF Held
  <2>2. ASSUME NEW n \in Nodes PROVE HeldMemory(n, BoundPod) \in Int
    <3>1. PICK S : S = {l \in BoundPod : market.launch[l].node = n}
      OBVIOUS
    <3>2. S \in SUBSET Launches /\ IsFiniteSet(S)
      BY <3>1, HoldingFinite DEF BoundPod
    <3>3. \A x \in S : SizeOf[x] \in Int
      BY <1>1, <3>2, SizesAreNat
    <3>4. SetSum(SizeOf, S) \in Int
      BY <3>2, <3>3, SetSumType
    <3>5. HeldMemory(n, BoundPod) = SetSum(SizeOf, {l \in BoundPod : market.launch[l].node = n})
      BY DEF HeldMemory, SetSum, MapThenSumSet, MapThenFoldSet
    <3> QED BY <3>1, <3>4, <3>5
  <2> QED BY <2>1, <2>2 DEF Usage
<1>3. PICK usage \in [held : [AllDevices -> Int], memory : [Nodes -> Int]] : usage = Usage
  BY <1>2
<1>4. market' \in Market /\ market'.launch = market.launch /\ market'.raced = market.raced
  BY <1>1, <1>3 DEF Market
<1>5. Room' <=> Room
  BY <1>4 DEF Room, HeldBy, HeldOn, Claiming, SizeOf
<1> QED BY <1>4, <1>5 DEF MarketInv

LEMMA MarketStep == MarketInv /\ [MarketNext]_market => MarketInv'
<1>1. ASSUME MarketInv, UNCHANGED market PROVE MarketInv'
  BY <1>1 DEF MarketInv, Room, HeldBy, HeldOn, Claiming, SizeOf
<1>2. ASSUME MarketInv, NEW l \in Launches, Decline(l) \/ NoneFree(l) PROVE MarketInv'
  <2>1. market.launch[l].at = "asked" /\ RowOK(market.launch[l])
    BY <1>2 DEF MarketInv, Decline, NoneFree, Launch
  <2> QED BY <1>2, <2>1, GivenUpEarly DEF RowOK, Decline, NoneFree
<1>3. ASSUME MarketInv, NEW l \in Launches, Delete(l) PROVE MarketInv'
  <2>1. PICK row : row = [NoLaunch EXCEPT !.at = "deleted"]
    OBVIOUS
  <2> QED BY <1>3, <2>1, NoLaunchAt, LaunchMoves DEF Delete
<1> QED BY <1>1, <1>2, <1>3, AskKeeps, AllocateKeeps, MakePodKeeps, BindPodKeeps, RecordKeeps,
           HoldKeeps, StartAgainKeeps, ReportKeeps DEF MarketNext

LEMMA MarketStart == MarketInit => MarketInv
<1> SUFFICES ASSUME MarketInit PROVE MarketInv
  OBVIOUS
<1>1. PICK row : row = NoLaunch
  OBVIOUS
<1>2. row \in LaunchRow /\ RowOK(row) /\ ~HoldsRow(row)
  BY <1>1 DEF NoLaunch, LaunchRow, RowOK, HoldsRow
<1>3. market.launch = [l \in Launches |-> row] /\ market \in Market
  BY <1>1, <1>2 DEF MarketInit, Market
<1>4. Claiming = {}
  BY <1>2, <1>3 DEF Claiming
<1>5. (\A d : HeldBy(d) = {}) /\ (\A n : HeldOn(n) = {})
  BY <1>4 DEF HeldBy, HeldOn
<1>6. ASSUME NEW n \in Nodes PROVE 0 <= GpuNodes[n].memory * GpuNodes[n].gpus
  <2>1. GpuNodes[n].memory \in Nat /\ GpuNodes[n].gpus \in Nat
    BY GpuAssumption DEF Nodes
  <2>2. GpuNodes[n].memory * GpuNodes[n].gpus \in Nat
    BY <2>1
  <2> QED BY <2>2
<1>7. Room
  <2>1. ASSUME NEW d \in AllDevices PROVE Cardinality(HeldBy(d)) <= Number(d)
    <3>1. Number(d) \in Nat /\ Cardinality({}) = 0
      BY DeviceTyped, FS_EmptySet
    <3>2. HeldBy(d) = {}
      BY <1>5
    <3> QED BY <3>1, <3>2
  <2>2. ASSUME NEW n \in Nodes
        PROVE  SetSum(SizeOf, HeldOn(n)) <= GpuNodes[n].memory * GpuNodes[n].gpus
    <3>1. HeldOn(n) = {} /\ SetSum(SizeOf, {}) = 0
      BY <1>5, SetSumEmpty
    <3> QED BY <1>6, <3>1
  <2> QED BY <2>1, <2>2 DEF Room
<1> QED BY <1>2, <1>3, <1>7 DEF MarketInv

\* Whatever instances are asked for, refused, held, started again and deleted,
\* each gets a device that is free and fits and a row that says so, and nothing
\* is sold twice by allocations that no stale report has misled.
THEOREM LaunchesAreSound == MarketSpec => []LaunchesSound
<1>1. MarketInit => MarketInv
  BY MarketStart
<1>2. MarketInv /\ [MarketNext]_market => MarketInv'
  BY MarketStep
<1>3. MarketInv => LaunchesSound
  <2> SUFFICES ASSUME MarketInv PROVE LaunchesSound
    OBVIOUS
  <2>1. market \in Market /\ \A l \in Launches : RowOK(market.launch[l])
    BY DEF MarketInv
  <2>2. BilledAsHeld /\ NoLargerThanNeeded
    BY <2>1 DEF BilledAsHeld, NoLargerThanNeeded, RowOK, Launch
  <2>3. WithPod \subseteq Claiming /\ Claiming \subseteq Launches
    BY DEF WithPod, Claiming, HoldsRow
  <2>4. ASSUME Room, NEW d \in AllDevices PROVE Held(d, WithPod) <= Number(d)
    <3>1. CASE GpuNodes[d.node].simulated
      BY <3>1, DeviceTyped DEF Held
    <3>2. CASE ~GpuNodes[d.node].simulated
      <4>1. PICK S : S = {l \in WithPod : Has(market.launch[l], d)}
        OBVIOUS
      <4>2. S \subseteq HeldBy(d) /\ S \in SUBSET Launches /\ HeldBy(d) \in SUBSET Launches
        BY <2>3, <4>1 DEF HeldBy
      <4>3. Cardinality(S) <= Cardinality(HeldBy(d))
        BY <4>2, HoldingFinite, FS_Subset
      <4>4. Cardinality(S) \in Int /\ Cardinality(HeldBy(d)) \in Int
        BY <4>2, HoldingFinite
      <4>5. Cardinality(HeldBy(d)) <= Number(d) /\ Number(d) \in Int
        BY <2>4, <3>2, DeviceTyped DEF Room
      <4>6. Held(d, WithPod) = Cardinality(S)
        BY <3>2, <4>1 DEF Held
      <4> QED BY <4>3, <4>4, <4>5, <4>6
    <3> QED BY <3>1, <3>2
  <2>5. ASSUME Room, NEW n \in Nodes
        PROVE  HeldMemory(n, WithPod) <= GpuNodes[n].memory * GpuNodes[n].gpus
    <3>1. PICK S : S = {l \in WithPod : market.launch[l].node = n}
      OBVIOUS
    <3>2. S \in SUBSET HeldOn(n) /\ HeldOn(n) \in SUBSET Launches /\ S \in SUBSET Launches
      BY <2>3, <3>1 DEF HeldOn
    <3>3. IsFiniteSet(HeldOn(n)) /\ IsFiniteSet(S) /\ \A x \in HeldOn(n) : SizeOf[x] \in Nat
      BY <2>1, <3>2, HoldingFinite, SizesAreNat
    <3>4. SetSum(SizeOf, S) <= SetSum(SizeOf, HeldOn(n))
      BY <3>2, <3>3, SetSumMonotone
    <3>5. SetSum(SizeOf, S) \in Int /\ SetSum(SizeOf, HeldOn(n)) \in Int
      BY <3>2, <3>3, SetSumType
    <3>6. SetSum(SizeOf, HeldOn(n)) <= GpuNodes[n].memory * GpuNodes[n].gpus
          /\ GpuNodes[n].memory * GpuNodes[n].gpus \in Int
      BY <2>5, GpuAssumption DEF Room, Nodes
    <3>7. HeldMemory(n, WithPod) = SetSum(SizeOf, {l \in WithPod : market.launch[l].node = n})
      BY DEF HeldMemory, SetSum, MapThenSumSet, MapThenFoldSet
    <3> QED BY <3>1, <3>4, <3>5, <3>6, <3>7
  <2>6. NeverOversold
    BY <2>4, <2>5 DEF NeverOversold, MarketInv
  <2> QED BY <2>2, <2>6 DEF LaunchesSound
<1> QED BY <1>1, <1>2, <1>3, PTL DEF MarketSpec

-----------------------------------------------------------------------------
(* The objects of an instance.  An order knows what it has listed and made *)
(* as long as no other order is under way.                                 *)

\* Orders that make a pod, and those that remove what there is.
Makes(kind)   == kind \in {"create", "update"}
Removes(kind) == kind \in {"stop", "delete"}

MakingSteps   == {"claim", "policy", "pod"}
ServingSteps  == {"service", "ingress"}
RemovingSteps == {"revoke", "volume", "last"}

\* The kinds of order that come to a step.
Fits(kind, at) ==
  /\ at \in {"idle", "find", "pods"} \union MakingSteps \union ServingSteps \union RemovingSteps
  /\ at = "find" => kind \in Kinds
  /\ at = "pods" => kind \in {"update", "stop", "delete"}
  /\ at \in MakingSteps \union ServingSteps => Makes(kind)
  /\ at \in RemovingSteps => Removes(kind)
  /\ site.hidden /\ at # "idle" => kind \in {"create", "delete"}
  /\ at \in ServingSteps => site.ports

OrdersTyped ==
  /\ site.orders = [o \in Orders |-> site.orders[o]]
  /\ \A o \in Orders :
       LET order == site.orders[o] IN
       /\ order = [kind |-> order.kind, at |-> order.at, pods |-> order.pods]
       /\ Fits(order.kind, order.at)

\* The fields of a site, whatever is in them.
IsSite(s) ==
  s = [hidden |-> s.hidden, disk |-> s.disk, ports |-> s.ports,
       pods |-> s.pods, ending |-> s.ending, made |-> s.made,
       claim |-> s.claim, policy |-> s.policy, service |-> s.service, ingress |-> s.ingress,
       orders |-> s.orders, slips |-> s.slips, turns |-> s.turns,
       files |-> s.files, met |-> s.met, hasty |-> s.hasty, strayed |-> s.strayed,
       left |-> s.left, last |-> s.last]

PodsTyped ==
  /\ site.pods \in [Pods -> Phases]
  /\ Pods \subseteq 1 .. site.made /\ site.ending \subseteq Pods

DiskTyped ==
  /\ site.hidden => site.disk /\ ~ site.ports
  /\ site.files => site.hidden
  /\ ~ site.ports => ~ site.service /\ ~ site.ingress

SiteTyped ==
  /\ IsSite(site) /\ site.made \in Nat /\ site.slips \in Nat
  /\ PodsTyped /\ OrdersTyped /\ DiskTyped

OneByOne ==
  /\ \A o, u \in Orders : Busy(o) /\ Busy(u) => o = u
  /\ site.last # "none" => \A o \in Orders : ~ Busy(o)

\* No pod is left that was not told to end.
AllEnd == Pods \subseteq site.ending

\* What an order under way knows of the objects.
Knows(o) ==
  LET order == site.orders[o] IN
  /\ order.at = "pods" => Pods \subseteq order.pods
  /\ order.at \in RemovingSteps => AllEnd
  /\ order.at \in MakingSteps /\ order.kind = "update" => AllEnd
  /\ order.at \in {"policy", "pod"} => (site.disk => site.claim)
  /\ order.at = "pod" => site.policy
  /\ order.at \in ServingSteps /\ ~ site.strayed => ~ AllEnd
  /\ order.at = "last" /\ order.kind = "delete" /\ ~ site.hidden => ~ site.claim

\* A pod that may run has its policy and its claim.
Kept == (\E p \in Pods : MayRun(p)) => site.policy /\ (site.disk => site.claim)

\* The delete of an agent finds the pod it was sent for.
Undisturbed == site.hidden /\ ~ site.strayed /\ ~ site.hasty

FindsAgent(o) ==
  LET order == site.orders[o] IN
  Undisturbed /\ order.kind = "delete" =>
    /\ order.at = "find" => ~ AllEnd
    /\ order.at \in {"pods", "revoke", "volume"} => order.pods # {}

FilesKept == Undisturbed /\ site.files => site.claim

\* While nothing has gone wrong an endpoint has a pod, or an order that is to
\* replace the pod or to revoke the endpoint.
Attends(o) ==
  LET order == site.orders[o] IN
  order.at = "revoke" \/ (order.kind = "update" /\ order.at \in MakingSteps)

EndpointServed ==
  site.slips = 0 /\ ~ site.strayed /\ (site.service \/ site.ingress) =>
    ~ AllEnd \/ \E o \in Orders : Attends(o)

\* Only the newest pod may run.
NewestRuns == ~ site.left => \A p, q \in Pods : MayRun(p) => q <= p

AloneInv ==
  /\ OneByOne /\ Kept /\ FilesKept /\ EndpointServed /\ NewestRuns /\ LeavesNothing
  /\ \A o \in Orders : Knows(o) /\ FindsAgent(o)

SiteInv == SiteTyped /\ (~ site.met => AloneInv)

-----------------------------------------------------------------------------
\* What a step leaves alone.
SameNature  == site'.hidden = site.hidden /\ site'.disk = site.disk /\ site'.ports = site.ports
SamePods    == site'.pods = site.pods /\ site'.ending = site.ending /\ site'.made = site.made
SameFlags   == site'.met = site.met /\ site'.hasty = site.hasty /\ site'.strayed = site.strayed
SameHistory == SameFlags /\ site'.left = site.left /\ site'.files = site.files
SameDisk    == site'.claim = site.claim /\ site'.policy = site.policy
SameAddress == site'.service = site.service /\ site'.ingress = site.ingress

\* Only the order o steps.
Steps(o) ==
  /\ site'.orders = [u \in Orders |-> site'.orders[u]]
  /\ \A u \in Orders : u # o => site'.orders[u] = site.orders[u]
  /\ site'.orders[o] = [kind |-> site'.orders[o].kind, at |-> site'.orders[o].at,
                        pods |-> site'.orders[o].pods]

LEMMA OrderGoes ==
  ASSUME SiteTyped, NEW o \in Orders, NEW at, site'.orders = Goes(o, at)
  PROVE  /\ Steps(o) /\ site'.orders[o].at = at
         /\ at # "idle" => /\ site'.orders[o].kind = site.orders[o].kind
                           /\ site'.orders[o].pods = site.orders[o].pods
<1>1. PICK done : done = [NoOrder EXCEPT !.kind = "done"]
  OBVIOUS
<1>2. done = [kind |-> "done", at |-> "idle", pods |-> {}]
  BY <1>1 DEF NoOrder
<1>3. PICK onwards : onwards = [site.orders[o] EXCEPT !.at = at]
  OBVIOUS
<1>4. onwards = [kind |-> site.orders[o].kind, at |-> at, pods |-> site.orders[o].pods]
  <2>1. PICK order : order = site.orders[o]
    OBVIOUS
  <2>2. order = [kind |-> order.kind, at |-> order.at, pods |-> order.pods]
    BY <2>1 DEF SiteTyped, OrdersTyped
  <2>3. onwards = [order EXCEPT !.at = at]
    BY <1>3, <2>1
  <2> QED BY <2>1, <2>2, <2>3
<1>5. site'.orders = [site.orders EXCEPT ![o] = IF at = "idle" THEN done ELSE onwards]
  BY <1>1, <1>3 DEF Goes
<1>6. PICK orders : orders = site.orders
  OBVIOUS
<1>7. PICK next : next = site'.orders
  OBVIOUS
<1>8. orders = [u \in Orders |-> orders[u]]
  BY <1>6 DEF SiteTyped, OrdersTyped
<1>9. next = [orders EXCEPT ![o] = IF at = "idle" THEN done ELSE onwards]
  BY <1>5, <1>6, <1>7
<1>10. /\ \A u \in Orders : u # o => next[u] = orders[u]
       /\ next[o] = IF at = "idle" THEN done ELSE onwards
       /\ next = [u \in Orders |-> next[u]]
  BY <1>8, <1>9
<1>11. CASE at = "idle"
  BY <1>2, <1>6, <1>7, <1>10, <1>11 DEF Steps
<1>12. CASE at # "idle"
  BY <1>4, <1>6, <1>7, <1>10, <1>12 DEF Steps
<1> QED BY <1>11, <1>12

LEMMA StepTyped ==
  ASSUME SiteTyped, NEW o \in Orders, Steps(o), SameNature,
         Fits(site'.orders[o].kind, site'.orders[o].at)
  PROVE  OrdersTyped'
<1>1. \A u \in Orders : u # o =>
        /\ site'.orders[u] = site.orders[u]
        /\ Fits(site.orders[u].kind, site.orders[u].at)
        /\ site.orders[u] = [kind |-> site.orders[u].kind, at |-> site.orders[u].at,
                             pods |-> site.orders[u].pods]
  <2>1. \A u \in Orders : u # o => site'.orders[u] = site.orders[u]
    BY DEF Steps
  <2> QED BY <2>1 DEF SiteTyped, OrdersTyped
<1>2. ASSUME NEW u \in Orders, u # o
      PROVE  /\ Fits(site.orders[u].kind, site.orders[u].at)'
             /\ site'.orders[u] = [kind |-> site'.orders[u].kind, at |-> site'.orders[u].at,
                                   pods |-> site'.orders[u].pods]
  BY <1>1, <1>2 DEF Fits, Makes, Removes, SameNature
<1>3. /\ Fits(site.orders[o].kind, site.orders[o].at)'
      /\ site'.orders[o] = [kind |-> site'.orders[o].kind, at |-> site'.orders[o].at,
                            pods |-> site'.orders[o].pods]
  BY DEF Fits, Steps, SameNature
<1>4. site'.orders = [u \in Orders |-> site'.orders[u]]
  BY DEF Steps
<1> QED BY <1>2, <1>3, <1>4 DEF OrdersTyped

\* While one order steps the others are idle.
LEMMA OthersIdle ==
  ASSUME OneByOne, NEW o \in Orders, Steps(o), \A u \in Orders : Busy(u) => u = o
  PROVE  /\ \A u \in Orders : u # o => site.orders[u].at = "idle" /\ site'.orders[u].at = "idle"
         /\ \A u \in Orders : u # o => Knows(u)' /\ FindsAgent(u)'
<1>1. ASSUME NEW u \in Orders, u # o
      PROVE  site.orders[u].at = "idle" /\ site'.orders[u].at = "idle"
  <2>1. site'.orders[u] = site.orders[u]
    BY <1>1 DEF Steps
  <2> QED BY <1>1, <2>1 DEF Busy
<1>2. ASSUME NEW u \in Orders, u # o PROVE Knows(u)' /\ FindsAgent(u)'
  BY <1>1, <1>2 DEF Knows, FindsAgent, MakingSteps, ServingSteps, RemovingSteps
<1> QED BY <1>1, <1>2

\* The parts of the invariant that a step of one order has to keep.
LEMMA OrderKeeps ==
  ASSUME SiteInv, NEW o \in Orders, Busy(o), Steps(o), SameNature, SameFlags,
         IsSite(site'), site'.made \in Nat, site'.slips \in Nat,
         PodsTyped', DiskTyped',
         Fits(site'.orders[o].kind, site'.orders[o].at),
         site'.last = site.last \/ site'.orders[o].at = "idle",
         ~ site.met /\ OneByOne /\ site.last = "none" =>
           /\ Knows(o)' /\ FindsAgent(o)' /\ Kept' /\ FilesKept' /\ NewestRuns'
           /\ EndpointServed' /\ LeavesNothing'
  PROVE  SiteInv'
<1>1. SiteTyped /\ (~ site.met => AloneInv)
  BY DEF SiteInv
<1>2. OrdersTyped'
  BY <1>1, StepTyped
<1>3. SiteTyped'
  BY <1>1, <1>2 DEF SiteTyped
<1>4. ASSUME ~ site.met PROVE AloneInv'
  <2>1. OneByOne /\ site.last = "none" /\ \A u \in Orders : Busy(u) => u = o
    BY <1>1, <1>4 DEF AloneInv, OneByOne
  <2>2. /\ \A u \in Orders : u # o => site'.orders[u].at = "idle"
        /\ \A u \in Orders : u # o => Knows(u)' /\ FindsAgent(u)'
    BY <2>1, OthersIdle
  <2>3. OneByOne'
    BY <2>1, <2>2 DEF OneByOne, Busy
  <2> QED BY <1>4, <2>1, <2>2, <2>3 DEF AloneInv
<1> QED BY <1>3, <1>4 DEF SiteInv, SameFlags

\* Pods and disk are as before.
LEMMA PodsStay ==
  ASSUME AloneInv, SameNature, SamePods, SameHistory, SameDisk
  PROVE  Kept' /\ NewestRuns' /\ FilesKept' /\ (AllEnd' <=> AllEnd)
<1>1. Kept' /\ NewestRuns'
  BY DEF AloneInv, Kept, NewestRuns, MayRun, Pods, SameNature, SamePods, SameHistory, SameDisk
<1>2. FilesKept'
  BY DEF AloneInv, FilesKept, Undisturbed, SameNature, SameHistory, SameFlags, SameDisk
<1>3. AllEnd' <=> AllEnd
  BY DEF AllEnd, Pods, SamePods
<1> QED BY <1>1, <1>2, <1>3

LEMMA IdleKnows ==
  ASSUME NEW o \in Orders, site'.orders[o].at = "idle"
  PROVE  Fits(site'.orders[o].kind, site'.orders[o].at) /\ Knows(o)' /\ FindsAgent(o)'
  BY DEF Fits, Knows, FindsAgent, MakingSteps, ServingSteps, RemovingSteps

LEMMA PodsStayTyped == ASSUME SiteTyped, SamePods PROVE PodsTyped'
  BY DEF SiteTyped, PodsTyped, Pods, SamePods

LEMMA CallFailsKeeps == ASSUME SiteInv, NEW o \in Orders, CallFails(o) PROVE SiteInv'
<1>1. PICK orders : orders = Goes(o, "idle")
  OBVIOUS
<1>2. PICK row : row = [site EXCEPT !.slips = @ + 1, !.orders = orders]
  OBVIOUS
<1>3. site' = row /\ Busy(o)
  BY <1>1, <1>2 DEF CallFails
<1>4. SiteTyped /\ IsSite(site) /\ site.slips \in Nat /\ site.made \in Nat
  BY DEF SiteInv, SiteTyped
<1>5. IsSite(row)
  BY <1>2, <1>4 DEF IsSite
<1>6. SameNature /\ SamePods /\ SameHistory
  BY <1>2, <1>3, <1>4 DEF IsSite, SameNature, SamePods, SameHistory, SameFlags
<1>7. /\ SameDisk /\ SameAddress /\ site'.orders = orders
      /\ site'.slips = site.slips + 1 /\ site'.last = site.last
  BY <1>2, <1>3, <1>4 DEF IsSite, SameDisk, SameAddress
<1>8. Steps(o) /\ site'.orders[o].at = "idle"
  BY <1>1, <1>4, <1>7, OrderGoes
<1>9. PodsTyped' /\ DiskTyped'
  BY <1>4, <1>6, <1>7, PodsStayTyped DEF SiteTyped, DiskTyped, SameNature, SameHistory, SameAddress
<1>10. ASSUME ~ site.met, OneByOne, site.last = "none"
       PROVE  Kept' /\ FilesKept' /\ NewestRuns' /\ EndpointServed' /\ LeavesNothing'
  <2>1. Kept' /\ FilesKept' /\ NewestRuns'
    BY <1>6, <1>7, <1>10, PodsStay DEF SiteInv
  <2>2. EndpointServed' /\ LeavesNothing'
    BY <1>4, <1>7, <1>10 DEF EndpointServed, LeavesNothing
  <2> QED BY <2>1, <2>2
<1>11. Fits(site'.orders[o].kind, site'.orders[o].at) /\ Knows(o)' /\ FindsAgent(o)'
  BY <1>8, IdleKnows
<1>12. /\ SameFlags /\ IsSite(site') /\ site'.made \in Nat /\ site'.slips \in Nat
       /\ site'.last = site.last
  BY <1>3, <1>4, <1>5, <1>6, <1>7 DEF SameHistory, SamePods
<1> QED BY <1>3, <1>6, <1>8, <1>9, <1>10, <1>11, <1>12, OrderKeeps

\* The orders once o has come to a step with a list of pods.
Lists(o, at, ps) == [Goes(o, at) EXCEPT ![o].pods = ps]

LEMMA FindGoes ==
  ASSUME SiteTyped, NEW o \in Orders, NEW at, NEW ps,
         site'.orders = Lists(o, at, ps)
  PROVE  /\ Steps(o) /\ site'.orders[o].at = at /\ site'.orders[o].pods = ps
         /\ at # "idle" => site'.orders[o].kind = site.orders[o].kind
<1>1. PICK done : done = [NoOrder EXCEPT !.kind = "done"]
  OBVIOUS
<1>2. done = [kind |-> "done", at |-> "idle", pods |-> {}]
  BY <1>1 DEF NoOrder
<1>3. PICK onwards : onwards = [site.orders[o] EXCEPT !.at = at]
  OBVIOUS
<1>4. onwards = [kind |-> site.orders[o].kind, at |-> at, pods |-> site.orders[o].pods]
  <2>1. PICK order : order = site.orders[o]
    OBVIOUS
  <2>2. order = [kind |-> order.kind, at |-> order.at, pods |-> order.pods]
    BY <2>1 DEF SiteTyped, OrdersTyped
  <2>3. onwards = [order EXCEPT !.at = at]
    BY <1>3, <2>1
  <2> QED BY <2>1, <2>2, <2>3
<1>5. PICK x : x = IF at = "idle" THEN done ELSE onwards
  OBVIOUS
<1>6. PICK orders : orders = site.orders
  OBVIOUS
<1>7. PICK next : next = site'.orders
  OBVIOUS
<1>8. orders = [u \in Orders |-> orders[u]]
  BY <1>6 DEF SiteTyped, OrdersTyped
<1>9. PICK goes : goes = [orders EXCEPT ![o] = x]
  OBVIOUS
<1>10. next = [goes EXCEPT ![o].pods = ps]
  BY <1>1, <1>3, <1>5, <1>6, <1>7, <1>9 DEF Lists, Goes
<1>11. goes = [u \in Orders |-> IF u = o THEN x ELSE orders[u]]
  BY <1>8, <1>9
<1>12. next = [goes EXCEPT ![o] = [x EXCEPT !.pods = ps]]
  BY <1>10, <1>11
<1>13. PICK y : y = [x EXCEPT !.pods = ps]
  OBVIOUS
<1>14. /\ \A u \in Orders : u # o => next[u] = orders[u]
       /\ next[o] = y
       /\ next = [u \in Orders |-> next[u]]
  BY <1>11, <1>12, <1>13
<1>15. x = [kind |-> x.kind, at |-> at, pods |-> x.pods] /\ (at # "idle" => x.kind = site.orders[o].kind)
  BY <1>2, <1>4, <1>5
<1>16. y = [kind |-> x.kind, at |-> at, pods |-> ps]
  BY <1>13, <1>15
<1>17. y = [kind |-> y.kind, at |-> y.at, pods |-> y.pods] /\ y.kind = x.kind /\ y.at = at /\ y.pods = ps
  BY <1>16
<1> QED BY <1>6, <1>7, <1>14, <1>15, <1>17 DEF Steps

\* While one order is under way it alone attends to the endpoint.
LEMMA ServedByOne ==
  ASSUME AloneInv, NEW o \in Orders, Busy(o), site.slips = 0, ~ site.strayed,
         site.service \/ site.ingress
  PROVE  ~ AllEnd \/ Attends(o)
<1>1. \A u \in Orders : u # o => site.orders[u].at = "idle"
  BY DEF AloneInv, OneByOne, Busy
<1>2. \A u \in Orders : u # o => ~ Attends(u)
  BY <1>1 DEF Attends, MakingSteps
<1> QED BY <1>2 DEF AloneInv, EndpointServed

LEMMA FindKeeps == ASSUME SiteInv, NEW o \in Orders, Find(o) PROVE SiteInv'
<1> DEFINE kind == site.orders[o].kind
           next == IF kind = "create"
                   THEN IF Reported \in {"pending", "running"} THEN "idle" ELSE "claim"
                   ELSE IF kind = "update" /\ Pods = {} THEN "idle" ELSE "pods"
           listed == IF next = "pods" THEN Pods ELSE {}
<1>1. SiteTyped /\ IsSite(site) /\ site.slips \in Nat /\ site.made \in Nat
  BY DEF SiteInv, SiteTyped
<1>2. PICK orders : orders = [Goes(o, next) EXCEPT ![o].pods = listed]
  OBVIOUS
<1>3. PICK row : row = [site EXCEPT !.orders = orders]
  OBVIOUS
<1>4. site' = row /\ OrderAt(o, "find")
  BY <1>2, <1>3 DEF Find
<1>5. IsSite(row)
  BY <1>1, <1>3 DEF IsSite
<1>6. SameNature /\ SamePods /\ SameHistory
  BY <1>1, <1>3, <1>4 DEF IsSite, SameNature, SamePods, SameHistory, SameFlags
<1>7. /\ SameDisk /\ SameAddress /\ site'.orders = orders
      /\ site'.slips = site.slips /\ site'.last = site.last
  BY <1>1, <1>3, <1>4 DEF IsSite, SameDisk, SameAddress
<1>8. /\ Steps(o) /\ site'.orders[o].at = next
      /\ next # "idle" => site'.orders[o].kind = kind
      /\ next = "pods" => site'.orders[o].pods = Pods
  <2>1. PICK at : at = next
    OBVIOUS
  <2>2. PICK ps : ps = listed
    OBVIOUS
  <2>3. site'.orders = Lists(o, at, ps)
    BY <1>2, <1>7, <2>1, <2>2 DEF Lists
  <2>4. /\ Steps(o) /\ site'.orders[o].at = at /\ site'.orders[o].pods = ps
        /\ at # "idle" => site'.orders[o].kind = kind
    BY <1>1, <2>3, FindGoes
  <2> QED BY <2>1, <2>2, <2>4
<1>9. PodsTyped' /\ DiskTyped'
  BY <1>1, <1>6, <1>7, PodsStayTyped DEF SiteTyped, DiskTyped, SameNature, SameHistory, SameAddress
<1>10. site.orders[o].at = "find" /\ Busy(o) /\ Fits(kind, "find")
  <2>1. Fits(kind, site.orders[o].at)
    BY <1>1 DEF SiteTyped, OrdersTyped
  <2> QED BY <1>4, <2>1 DEF OrderAt, Busy
<1>11. \/ next = "idle"
       \/ next = "claim" /\ kind = "create"
       \/ next = "pods" /\ kind \in {"update", "stop", "delete"}
  BY <1>10 DEF Fits, Kinds
<1>12. Fits(site'.orders[o].kind, site'.orders[o].at)
  <2>1. CASE next = "idle"
    BY <1>8, <2>1, IdleKnows
  <2>2. CASE next = "claim" /\ kind = "create"
    BY <1>8, <2>2 DEF Fits, Makes, MakingSteps, ServingSteps, RemovingSteps
  <2>3. CASE next = "pods" /\ kind \in {"update", "stop", "delete"}
    BY <1>8, <1>10, <2>3 DEF Fits, MakingSteps, ServingSteps, RemovingSteps
  <2> QED BY <1>11, <2>1, <2>2, <2>3
<1>13. ASSUME ~ site.met, OneByOne, site.last = "none"
       PROVE  /\ Knows(o)' /\ FindsAgent(o)' /\ Kept' /\ FilesKept' /\ NewestRuns'
              /\ EndpointServed' /\ LeavesNothing'
  <2>1. AloneInv
    BY <1>13 DEF SiteInv
  <2>2. Kept' /\ FilesKept' /\ NewestRuns' /\ (AllEnd' <=> AllEnd)
    BY <1>6, <1>7, <2>1, PodsStay
  <2>3. Pods' = Pods
    BY <1>6 DEF Pods, SamePods
  <2>4. Knows(o)'
    <3>1. CASE next = "idle"
      BY <1>8, <3>1, IdleKnows
    <3>2. CASE next = "claim" /\ kind = "create"
      BY <1>8, <3>2 DEF Knows, MakingSteps, ServingSteps, RemovingSteps
    <3>3. CASE next = "pods" /\ kind \in {"update", "stop", "delete"}
      BY <1>8, <2>3, <3>3 DEF Knows, MakingSteps, ServingSteps, RemovingSteps
    <3> QED BY <1>11, <3>1, <3>2, <3>3
  <2>5. FindsAgent(o)'
    <3>1. CASE next # "pods"
      BY <1>8, <1>11, <3>1 DEF FindsAgent
    <3>2. CASE next = "pods"
      <4>1. Undisturbed' <=> Undisturbed
        BY <1>6 DEF Undisturbed, SameNature, SameHistory, SameFlags
      <4>2. Undisturbed /\ kind = "delete" => Pods # {}
        BY <1>10, <2>1 DEF AloneInv, FindsAgent, AllEnd
      <4> QED BY <1>8, <3>2, <4>1, <4>2 DEF FindsAgent
    <3> QED BY <3>1, <3>2
  <2>6. EndpointServed'
    <3>1. ~ Attends(o)
      BY <1>10 DEF Attends, MakingSteps
    <3> QED BY <1>6, <1>7, <1>10, <2>1, <2>2, <3>1, ServedByOne
            DEF EndpointServed, SameHistory, SameFlags, SameAddress
  <2>7. LeavesNothing'
    BY <1>7, <1>13 DEF LeavesNothing
  <2> QED BY <2>2, <2>4, <2>5, <2>6, <2>7
<1>14. /\ SameFlags /\ IsSite(site') /\ site'.made \in Nat /\ site'.slips \in Nat
       /\ site'.last = site.last
  BY <1>1, <1>4, <1>5, <1>6, <1>7 DEF SameHistory, SamePods
<1> QED BY <1>6, <1>8, <1>9, <1>10, <1>12, <1>13, <1>14, OrderKeeps

LEMMA EndPodsKeeps == ASSUME SiteInv, NEW o \in Orders, EndPods(o) PROVE SiteInv'
<1> DEFINE order == site.orders[o]
           next == IF order.kind = "update" THEN "claim"
                   ELSE IF site.ports /\ order.pods # {} THEN "revoke" ELSE "volume"
<1>1. SiteTyped /\ IsSite(site) /\ site.slips \in Nat /\ site.made \in Nat
  BY DEF SiteInv, SiteTyped
<1>2. PICK at : at = next
  OBVIOUS
<1>3. PICK orders : orders = Goes(o, at)
  OBVIOUS
<1>4. PICK ending : ending = site.ending \union (order.pods \intersect Pods)
  OBVIOUS
<1>5. PICK row : row = [site EXCEPT !.ending = ending, !.orders = orders]
  OBVIOUS
<1>6. site' = row /\ order.at = "pods"
  BY <1>2, <1>3, <1>4, <1>5 DEF EndPods, OrderAt
<1>7. IsSite(row)
  BY <1>1, <1>5 DEF IsSite
<1>8. /\ SameNature /\ SameHistory /\ SameDisk /\ SameAddress
      /\ site'.pods = site.pods /\ site'.made = site.made
      /\ site'.ending = ending
  BY <1>1, <1>5, <1>6 DEF IsSite, SameNature, SameHistory, SameFlags, SameDisk, SameAddress
<1>9. site'.orders = orders /\ site'.slips = site.slips /\ site'.last = site.last
  BY <1>1, <1>5, <1>6 DEF IsSite
<1>10. /\ Steps(o) /\ site'.orders[o].at = at
       /\ at # "idle" => site'.orders[o].kind = order.kind /\ site'.orders[o].pods = order.pods
  BY <1>1, <1>3, <1>9, OrderGoes
<1>11. Pods' = Pods /\ site.ending \subseteq ending /\ ending \subseteq Pods
  BY <1>1, <1>4, <1>8 DEF Pods, SiteTyped, PodsTyped
<1>12. PodsTyped' /\ DiskTyped'
  BY <1>1, <1>8, <1>11 DEF SiteTyped, PodsTyped, Pods, DiskTyped, SameNature, SameHistory, SameAddress
<1>13. order.kind \in {"update", "stop", "delete"} /\ Fits(order.kind, "pods")
  <2>1. Fits(order.kind, order.at)
    BY <1>1 DEF SiteTyped, OrdersTyped
  <2> QED BY <1>6, <2>1 DEF Fits
<1>14. \/ at = "claim" /\ order.kind = "update"
       \/ at = "revoke" /\ order.kind \in {"stop", "delete"}
       \/ at = "volume" /\ order.kind \in {"stop", "delete"} /\ (~ site.ports \/ order.pods = {})
  <2>1. CASE order.kind = "update"
    BY <1>2, <2>1
  <2>2. CASE order.kind # "update" /\ site.ports /\ order.pods # {}
    BY <1>2, <1>13, <2>2
  <2>3. CASE order.kind # "update" /\ ~ (site.ports /\ order.pods # {})
    <3>1. at = "volume"
      BY <1>2, <2>3
    <3> QED BY <1>13, <2>3, <3>1
  <2> QED BY <2>1, <2>2, <2>3
<1>15. Fits(site'.orders[o].kind, site'.orders[o].at)
  BY <1>10, <1>13, <1>14 DEF Fits, Makes, Removes, MakingSteps, ServingSteps, RemovingSteps
<1>16. ASSUME ~ site.met, OneByOne, site.last = "none"
       PROVE  /\ Knows(o)' /\ FindsAgent(o)' /\ Kept' /\ FilesKept' /\ NewestRuns'
              /\ EndpointServed' /\ LeavesNothing'
  <2>1. AloneInv
    BY <1>16 DEF SiteInv
  <2>2. Pods \subseteq order.pods
    BY <1>6, <2>1 DEF AloneInv, Knows
  <2>3. AllEnd'
    BY <1>4, <1>8, <1>11, <2>2 DEF AllEnd
  <2>4. Kept' /\ NewestRuns'
    BY <2>3 DEF AllEnd, Kept, NewestRuns, MayRun
  <2>5. FilesKept'
    BY <1>8, <2>1 DEF AloneInv, FilesKept, Undisturbed, SameNature, SameHistory, SameFlags, SameDisk
  <2>6. Knows(o)'
    BY <1>10, <1>14, <2>3 DEF Knows, MakingSteps, ServingSteps, RemovingSteps
  <2>7. FindsAgent(o)'
    <3>1. Undisturbed' <=> Undisturbed
      BY <1>8 DEF Undisturbed, SameNature, SameHistory, SameFlags
    <3>2. Undisturbed /\ order.kind = "delete" => order.pods # {}
      BY <1>6, <2>1 DEF AloneInv, FindsAgent
    <3> QED BY <1>10, <1>14, <3>1, <3>2 DEF FindsAgent
  <2>8. EndpointServed'
    <3>1. CASE at # "volume"
      <4>1. Attends(o)'
        BY <1>10, <1>14, <3>1 DEF Attends, MakingSteps
      <4> QED BY <4>1 DEF EndpointServed
    <3>2. CASE at = "volume"
      <4>1. SUFFICES ASSUME site.slips = 0, ~ site.strayed, site.service \/ site.ingress PROVE FALSE
        BY <1>8, <1>9 DEF EndpointServed, SameHistory, SameFlags, SameAddress
      <4>2. order.pods = {}
        BY <1>1, <1>14, <3>2, <4>1 DEF SiteTyped, DiskTyped
      <4>3. AllEnd /\ ~ Attends(o)
        BY <1>6, <2>2, <4>2 DEF AllEnd, Attends, MakingSteps
      <4>4. Busy(o)
        BY <1>6 DEF Busy
      <4> QED BY <2>1, <4>1, <4>3, <4>4, ServedByOne
    <3> QED BY <3>1, <3>2
  <2>9. LeavesNothing'
    BY <1>9, <1>16 DEF LeavesNothing
  <2> QED BY <2>4, <2>5, <2>6, <2>7, <2>8, <2>9
<1>17. /\ SameFlags /\ IsSite(site') /\ site'.made \in Nat /\ site'.slips \in Nat
       /\ site'.last = site.last /\ Busy(o)
  BY <1>1, <1>6, <1>7, <1>8, <1>9 DEF SameHistory, Busy
<1> QED BY <1>8, <1>10, <1>12, <1>15, <1>16, <1>17, OrderKeeps

LEMMA CreateClaimKeeps == ASSUME SiteInv, NEW o \in Orders, CreateClaim(o) PROVE SiteInv'
<1> DEFINE order == site.orders[o]
<1>1. SiteTyped /\ IsSite(site) /\ site.slips \in Nat /\ site.made \in Nat
  BY DEF SiteInv, SiteTyped
<1>2. PICK orders : orders = Goes(o, "policy")
  OBVIOUS
<1>3. PICK claim : claim = (site.claim \/ site.disk)
  OBVIOUS
<1>4. PICK row : row = [site EXCEPT !.claim = claim, !.orders = orders]
  OBVIOUS
<1>5. site' = row /\ order.at = "claim"
  BY <1>2, <1>3, <1>4 DEF CreateClaim, OrderAt
<1>6. IsSite(row)
  BY <1>1, <1>4 DEF IsSite
<1>7. /\ SameNature /\ SamePods /\ SameHistory /\ SameAddress
      /\ site'.claim = claim /\ site'.policy = site.policy
  BY <1>1, <1>4, <1>5 DEF IsSite, SameNature, SamePods, SameHistory, SameFlags, SameAddress
<1>8. site'.orders = orders /\ site'.slips = site.slips /\ site'.last = site.last
  BY <1>1, <1>4, <1>5 DEF IsSite
<1>9. /\ Steps(o) /\ site'.orders[o].at = "policy"
      /\ site'.orders[o].kind = order.kind /\ site'.orders[o].pods = order.pods
  BY <1>1, <1>2, <1>8, OrderGoes
<1>10. PodsTyped' /\ DiskTyped'
  BY <1>1, <1>7, PodsStayTyped DEF SiteTyped, DiskTyped, SameNature, SameHistory, SameAddress
<1>11. Fits(order.kind, "claim")
  BY <1>1, <1>5 DEF SiteTyped, OrdersTyped
<1>12. Fits(site'.orders[o].kind, site'.orders[o].at)
  BY <1>9, <1>11 DEF Fits, Makes, MakingSteps, ServingSteps, RemovingSteps
<1>13. ASSUME ~ site.met, OneByOne, site.last = "none"
       PROVE  /\ Knows(o)' /\ FindsAgent(o)' /\ Kept' /\ FilesKept' /\ NewestRuns'
              /\ EndpointServed' /\ LeavesNothing'
  <2>1. AloneInv
    BY <1>13 DEF SiteInv
  <2>2. AllEnd' <=> AllEnd
    BY <1>7 DEF AllEnd, Pods, SamePods
  <2>3. Kept' /\ NewestRuns'
    BY <1>3, <1>7, <2>1 DEF AloneInv, Kept, NewestRuns, MayRun, Pods, SameNature, SamePods, SameHistory
  <2>4. FilesKept'
    BY <1>3, <1>7, <2>1 DEF AloneInv, FilesKept, Undisturbed, SameNature, SameHistory, SameFlags
  <2>5. Knows(o)'
    <3>1. order.kind = "update" => AllEnd
      BY <1>5, <2>1 DEF AloneInv, Knows, MakingSteps
    <3>2. site'.disk => site'.claim
      BY <1>3, <1>7 DEF SameNature
    <3> QED BY <1>9, <2>2, <3>1, <3>2 DEF Knows, MakingSteps, ServingSteps, RemovingSteps
  <2>6. FindsAgent(o)'
    BY <1>9 DEF FindsAgent
  <2>7. EndpointServed'
    <3>1. Attends(o)' <=> Attends(o)
      BY <1>5, <1>9 DEF Attends, MakingSteps
    <3>2. Busy(o)
      BY <1>5 DEF Busy
    <3> QED BY <1>7, <1>8, <2>1, <2>2, <3>1, <3>2, ServedByOne
            DEF EndpointServed, SameHistory, SameFlags, SameAddress
  <2>8. LeavesNothing'
    BY <1>8, <1>13 DEF LeavesNothing
  <2> QED BY <2>3, <2>4, <2>5, <2>6, <2>7, <2>8
<1>14. /\ SameFlags /\ IsSite(site') /\ site'.made \in Nat /\ site'.slips \in Nat
       /\ site'.last = site.last /\ Busy(o)
  BY <1>1, <1>5, <1>6, <1>7, <1>8 DEF SameHistory, SamePods, Busy
<1> QED BY <1>7, <1>9, <1>10, <1>12, <1>13, <1>14, OrderKeeps

LEMMA CreatePolicyKeeps == ASSUME SiteInv, NEW o \in Orders, CreatePolicy(o) PROVE SiteInv'
<1> DEFINE order == site.orders[o]
<1>1. SiteTyped /\ IsSite(site) /\ site.slips \in Nat /\ site.made \in Nat
  BY DEF SiteInv, SiteTyped
<1>2. PICK orders : orders = Goes(o, "pod")
  OBVIOUS
<1>3. PICK row : row = [site EXCEPT !.policy = TRUE, !.orders = orders]
  OBVIOUS
<1>4. site' = row /\ order.at = "policy"
  BY <1>2, <1>3 DEF CreatePolicy, OrderAt
<1>5. IsSite(row)
  BY <1>1, <1>3 DEF IsSite
<1>6. /\ SameNature /\ SamePods /\ SameHistory /\ SameAddress
      /\ site'.claim = site.claim /\ site'.policy = TRUE
  BY <1>1, <1>3, <1>4 DEF IsSite, SameNature, SamePods, SameHistory, SameFlags, SameAddress
<1>7. site'.orders = orders /\ site'.slips = site.slips /\ site'.last = site.last
  BY <1>1, <1>3, <1>4 DEF IsSite
<1>8. /\ Steps(o) /\ site'.orders[o].at = "pod"
      /\ site'.orders[o].kind = order.kind /\ site'.orders[o].pods = order.pods
  BY <1>1, <1>2, <1>7, OrderGoes
<1>9. PodsTyped' /\ DiskTyped'
  BY <1>1, <1>6, PodsStayTyped DEF SiteTyped, DiskTyped, SameNature, SameHistory, SameAddress
<1>10. Fits(order.kind, "policy")
  BY <1>1, <1>4 DEF SiteTyped, OrdersTyped
<1>11. Fits(site'.orders[o].kind, site'.orders[o].at)
  BY <1>8, <1>10 DEF Fits, Makes, MakingSteps, ServingSteps, RemovingSteps
<1>12. ASSUME ~ site.met, OneByOne, site.last = "none"
       PROVE  /\ Knows(o)' /\ FindsAgent(o)' /\ Kept' /\ FilesKept' /\ NewestRuns'
              /\ EndpointServed' /\ LeavesNothing'
  <2>1. AloneInv /\ (AllEnd' <=> AllEnd)
    BY <1>6, <1>12 DEF SiteInv, AllEnd, Pods, SamePods
  <2>2. Kept' /\ NewestRuns'
    BY <1>6, <2>1 DEF AloneInv, Kept, NewestRuns, MayRun, Pods, SameNature, SamePods, SameHistory
  <2>3. FilesKept'
    BY <1>6, <2>1 DEF AloneInv, FilesKept, Undisturbed, SameNature, SameHistory, SameFlags
  <2>4. Knows(o)'
    <3>1. (order.kind = "update" => AllEnd) /\ (site.disk => site.claim)
      BY <1>4, <2>1 DEF AloneInv, Knows, MakingSteps
    <3>2. site'.disk => site'.claim
      BY <1>6, <3>1 DEF SameNature
    <3> QED BY <1>6, <1>8, <2>1, <3>1, <3>2 DEF Knows, MakingSteps, ServingSteps, RemovingSteps
  <2>5. FindsAgent(o)'
    BY <1>8 DEF FindsAgent
  <2>6. EndpointServed'
    <3>1. (Attends(o)' <=> Attends(o)) /\ Busy(o)
      BY <1>4, <1>8 DEF Attends, MakingSteps, Busy
    <3> QED BY <1>6, <1>7, <2>1, <3>1, ServedByOne
            DEF EndpointServed, SameHistory, SameFlags, SameAddress
  <2>7. LeavesNothing'
    BY <1>7, <1>12 DEF LeavesNothing
  <2> QED BY <2>2, <2>3, <2>4, <2>5, <2>6, <2>7
<1>13. /\ SameFlags /\ IsSite(site') /\ site'.made \in Nat /\ site'.slips \in Nat
       /\ site'.last = site.last /\ Busy(o)
  BY <1>1, <1>4, <1>5, <1>6, <1>7 DEF SameHistory, SamePods, Busy
<1> QED BY <1>6, <1>8, <1>9, <1>11, <1>12, <1>13, OrderKeeps

LEMMA CreatePodKeeps == ASSUME SiteInv, NEW o \in Orders, CreatePod(o) PROVE SiteInv'
<1> DEFINE order == site.orders[o]
<1>1. SiteTyped /\ IsSite(site) /\ site.slips \in Nat /\ site.made \in Nat
  BY DEF SiteInv, SiteTyped
<1>2. PICK p : p = site.made + 1
  OBVIOUS
<1>3. PICK at : at = IF site.ports THEN "service" ELSE "idle"
  OBVIOUS
<1>4. PICK orders : orders = Goes(o, at)
  OBVIOUS
<1>5. PICK pods : pods = [q \in Pods \union {p} |-> IF q = p THEN "pending" ELSE site.pods[q]]
  OBVIOUS
<1>6. PICK files : files = (site.files \/ site.hidden)
  OBVIOUS
<1>7. PICK left : left = (site.left \/ (order.kind = "create" /\ \E q \in Pods : MayRun(q)))
  OBVIOUS
<1>8. PICK last : last = IF site.ports THEN site.last ELSE order.kind
  OBVIOUS
<1>9. PICK row : row = [site EXCEPT !.made = p, !.files = files, !.left = left, !.pods = pods,
                                    !.orders = orders, !.last = last]
  OBVIOUS
<1>10. site' = row /\ order.at = "pod"
  BY <1>2, <1>3, <1>4, <1>5, <1>6, <1>7, <1>8, <1>9 DEF CreatePod, OrderAt
<1>11. IsSite(row)
  BY <1>1, <1>9 DEF IsSite
<1>12. /\ SameNature /\ SameFlags /\ SameDisk /\ SameAddress /\ site'.slips = site.slips
       /\ site'.ending = site.ending
  BY <1>1, <1>9, <1>10 DEF IsSite, SameNature, SameFlags, SameDisk, SameAddress
<1>13. /\ site'.orders = orders /\ site'.last = last /\ site'.pods = pods /\ site'.made = p
       /\ site'.files = files /\ site'.left = left
  BY <1>1, <1>9, <1>10 DEF IsSite
<1>14. /\ Steps(o) /\ site'.orders[o].at = at
       /\ at # "idle" => site'.orders[o].kind = order.kind /\ site'.orders[o].pods = order.pods
  BY <1>1, <1>4, <1>13, OrderGoes
<1>15. /\ p \in Nat /\ p \notin Pods /\ p \notin site.ending /\ Pods \subseteq 1 .. site.made
       /\ \A q \in Pods : q \in Nat /\ q <= p
  <2>1. Pods \subseteq 1 .. site.made /\ site.ending \subseteq Pods
    BY <1>1 DEF SiteTyped, PodsTyped
  <2>2. p \in Nat /\ p \notin 1 .. site.made /\ \A q \in 1 .. site.made : q \in Nat /\ q <= p
    BY <1>1, <1>2
  <2> QED BY <2>1, <2>2
<1>16. Pods' = Pods \union {p}
  BY <1>5, <1>13 DEF Pods
<1>17. /\ \A q \in Pods : MayRun(q)' <=> MayRun(q)
       /\ p \in Pods' /\ MayRun(p)' /\ ~ AllEnd'
  BY <1>5, <1>12, <1>13, <1>15, <1>16 DEF MayRun, AllEnd
<1>18. PodsTyped' /\ DiskTyped'
  <2>1. site.pods \in [Pods -> Phases] /\ site.ending \subseteq Pods
    BY <1>1 DEF SiteTyped, PodsTyped
  <2>2. pods \in [Pods \union {p} -> Phases]
    BY <1>5, <2>1 DEF Phases
  <2>3. Pods' \subseteq 1 .. site'.made
    <3>1. Pods \subseteq 1 .. p /\ p \in 1 .. p
      BY <1>1, <1>2, <1>15
    <3> QED BY <1>13, <1>16, <3>1
  <2>4. PodsTyped'
    BY <1>12, <1>13, <1>16, <2>1, <2>2, <2>3 DEF PodsTyped
  <2>5. DiskTyped'
    BY <1>1, <1>6, <1>12, <1>13 DEF SiteTyped, DiskTyped, SameNature, SameAddress
  <2> QED BY <2>4, <2>5
<1>19. Fits(order.kind, "pod") /\ order.kind \in {"create", "update"}
  BY <1>1, <1>10 DEF SiteTyped, OrdersTyped, Fits, Makes, MakingSteps
<1>20. Fits(site'.orders[o].kind, site'.orders[o].at)
  <2>1. CASE site.ports
    BY <1>3, <1>14, <1>19, <2>1 DEF Fits, Makes, MakingSteps, ServingSteps, RemovingSteps
  <2>2. CASE ~ site.ports
    BY <1>3, <1>14, <2>2, IdleKnows
  <2> QED BY <2>1, <2>2
<1>21. ASSUME ~ site.met, OneByOne, site.last = "none"
       PROVE  /\ Knows(o)' /\ FindsAgent(o)' /\ Kept' /\ FilesKept' /\ NewestRuns'
              /\ EndpointServed' /\ LeavesNothing'
  <2>1. AloneInv
    BY <1>21 DEF SiteInv
  <2>2. /\ site.policy /\ (site.disk => site.claim)
        /\ order.kind = "update" => AllEnd
    BY <1>10, <2>1 DEF AloneInv, Knows, MakingSteps
  <2>3. Kept'
    BY <1>12, <2>2 DEF Kept, SameNature, SameDisk
  <2>4. FilesKept'
    BY <1>1, <1>12, <2>2 DEF SiteTyped, DiskTyped, FilesKept, Undisturbed, SameNature, SameDisk
  <2>5. NewestRuns'
    <3>1. SUFFICES ASSUME ~ left, NEW q \in Pods', NEW k \in Pods', MayRun(q)' PROVE k <= q
      BY <1>13 DEF NewestRuns
    <3>2. q \notin Pods
      <4>1. CASE order.kind = "create"
        BY <1>7, <1>17, <3>1, <4>1
      <4>2. CASE order.kind = "update"
        BY <1>17, <2>2, <3>1, <4>2 DEF AllEnd, MayRun
      <4> QED BY <1>19, <4>1, <4>2
    <3>3. q = p
      BY <1>16, <3>2
    <3> QED BY <1>15, <1>16, <3>3
  <2>6. EndpointServed'
    BY <1>17 DEF EndpointServed
  <2>7. Knows(o)' /\ FindsAgent(o)'
    <3>1. CASE site.ports
      <4>1. Knows(o)'
        BY <1>3, <1>14, <1>17, <3>1 DEF Knows, MakingSteps, ServingSteps, RemovingSteps
      <4>2. FindsAgent(o)'
        BY <1>3, <1>14, <3>1 DEF FindsAgent
      <4> QED BY <4>1, <4>2
    <3>2. CASE ~ site.ports
      BY <1>3, <1>14, <3>2, IdleKnows
    <3> QED BY <3>1, <3>2
  <2>8. LeavesNothing'
    BY <1>8, <1>13, <1>19, <1>21 DEF LeavesNothing
  <2> QED BY <2>3, <2>4, <2>5, <2>6, <2>7, <2>8
<1>22. /\ IsSite(site') /\ site'.made \in Nat /\ site'.slips \in Nat /\ Busy(o)
       /\ site'.last = site.last \/ site'.orders[o].at = "idle"
  BY <1>1, <1>3, <1>8, <1>10, <1>11, <1>12, <1>13, <1>14, <1>15 DEF Busy
<1> QED BY <1>12, <1>14, <1>18, <1>20, <1>21, <1>22, OrderKeeps

LEMMA ServiceKeeps == ASSUME SiteInv, NEW o \in Orders, createInstanceService(o) PROVE SiteInv'
<1> DEFINE order == site.orders[o]
<1>1. SiteTyped /\ IsSite(site) /\ site.slips \in Nat /\ site.made \in Nat
  BY DEF SiteInv, SiteTyped
<1>2. PICK onwards : onwards = Goes(o, "ingress")
  OBVIOUS
<1>3. PICK ends : ends = Goes(o, "idle")
  OBVIOUS
<1>4. PICK served : served = [site EXCEPT !.service = TRUE, !.orders = onwards]
  OBVIOUS
<1>5. PICK kind : kind = order.kind
  OBVIOUS
<1>6. PICK slipped : slipped = [site EXCEPT !.slips = @ + 1, !.orders = ends, !.last = kind]
  OBVIOUS
<1>7. order.at = "service" /\ (site' = served \/ site' = slipped)
  BY <1>2, <1>3, <1>4, <1>5, <1>6 DEF createInstanceService, OrderAt
<1>8. Fits(order.kind, "service") /\ order.kind \in {"create", "update"} /\ site.ports
  BY <1>1, <1>7 DEF SiteTyped, OrdersTyped, Fits, Makes, ServingSteps
<1>9. CASE site' = served
  <2>1. IsSite(served)
    BY <1>1, <1>4 DEF IsSite
  <2>2. /\ SameNature /\ SamePods /\ SameHistory /\ SameDisk
        /\ site'.service = TRUE /\ site'.ingress = site.ingress
    BY <1>1, <1>4, <1>9 DEF IsSite, SameNature, SamePods, SameHistory, SameFlags, SameDisk
  <2>3. site'.orders = onwards /\ site'.slips = site.slips /\ site'.last = site.last
    BY <1>1, <1>4, <1>9 DEF IsSite
  <2>4. /\ Steps(o) /\ site'.orders[o].at = "ingress"
        /\ site'.orders[o].kind = order.kind /\ site'.orders[o].pods = order.pods
    BY <1>1, <1>2, <2>3, OrderGoes
  <2>5. PodsTyped' /\ DiskTyped'
    BY <1>1, <1>8, <2>2, PodsStayTyped DEF SiteTyped, DiskTyped, SameNature, SameHistory
  <2>6. Fits(site'.orders[o].kind, site'.orders[o].at)
    BY <1>8, <2>4 DEF Fits, Makes, MakingSteps, ServingSteps, RemovingSteps
  <2>7. ASSUME ~ site.met, OneByOne, site.last = "none"
        PROVE  /\ Knows(o)' /\ FindsAgent(o)' /\ Kept' /\ FilesKept' /\ NewestRuns'
               /\ EndpointServed' /\ LeavesNothing'
    <3>1. AloneInv
      BY <2>7 DEF SiteInv
    <3>2. Kept' /\ NewestRuns' /\ FilesKept' /\ (AllEnd' <=> AllEnd)
      BY <2>2, <3>1, PodsStay
    <3>3. ~ site.strayed => ~ AllEnd
      BY <1>7, <3>1 DEF AloneInv, Knows, ServingSteps
    <3>4. Knows(o)'
      BY <2>2, <2>4, <3>2, <3>3 DEF Knows, MakingSteps, ServingSteps, RemovingSteps, SameHistory, SameFlags
    <3>5. FindsAgent(o)'
      BY <2>4 DEF FindsAgent
    <3>6. EndpointServed'
      BY <2>2, <3>2, <3>3 DEF EndpointServed, SameHistory, SameFlags
    <3>7. LeavesNothing'
      BY <2>3, <2>7 DEF LeavesNothing
    <3> QED BY <3>2, <3>4, <3>5, <3>6, <3>7
  <2>8. /\ SameFlags /\ IsSite(site') /\ site'.made \in Nat /\ site'.slips \in Nat
        /\ site'.last = site.last /\ Busy(o)
    BY <1>1, <1>7, <1>9, <2>1, <2>2, <2>3 DEF SameHistory, SamePods, Busy
  <2> QED BY <2>2, <2>4, <2>5, <2>6, <2>7, <2>8, OrderKeeps
<1>10. CASE site' = slipped
  <2>1. IsSite(slipped)
    BY <1>1, <1>6 DEF IsSite
  <2>2. SameNature /\ SamePods /\ SameHistory /\ SameDisk /\ SameAddress
    BY <1>1, <1>6, <1>10 DEF IsSite, SameNature, SamePods, SameHistory, SameFlags, SameDisk, SameAddress
  <2>3. site'.orders = ends /\ site'.slips = site.slips + 1 /\ site'.last = kind
    BY <1>1, <1>6, <1>10 DEF IsSite
  <2>4. Steps(o) /\ site'.orders[o].at = "idle"
    BY <1>1, <1>3, <2>3, OrderGoes
  <2>5. PodsTyped' /\ DiskTyped'
    BY <1>1, <2>2, PodsStayTyped DEF SiteTyped, DiskTyped, SameNature, SameHistory, SameAddress
  <2>6. Fits(site'.orders[o].kind, site'.orders[o].at) /\ Knows(o)' /\ FindsAgent(o)'
    BY <2>4, IdleKnows
  <2>7. ASSUME ~ site.met, OneByOne, site.last = "none"
        PROVE  Kept' /\ FilesKept' /\ NewestRuns' /\ EndpointServed' /\ LeavesNothing'
    <3>1. Kept' /\ NewestRuns' /\ FilesKept'
      BY <2>2, <2>7, PodsStay DEF SiteInv
    <3>2. EndpointServed' /\ LeavesNothing'
      BY <1>1, <1>5, <1>8, <2>3 DEF EndpointServed, LeavesNothing
    <3> QED BY <3>1, <3>2
  <2>8. /\ SameFlags /\ IsSite(site') /\ site'.made \in Nat /\ site'.slips \in Nat /\ Busy(o)
    BY <1>1, <1>7, <1>10, <2>1, <2>2, <2>3 DEF SameHistory, SamePods, Busy
  <2> QED BY <2>2, <2>4, <2>5, <2>6, <2>7, <2>8, OrderKeeps
<1> QED BY <1>7, <1>9, <1>10

LEMMA IngressKeeps == ASSUME SiteInv, NEW o \in Orders, createIngress(o) PROVE SiteInv'
<1> DEFINE order == site.orders[o]
<1>1. SiteTyped /\ IsSite(site) /\ site.slips \in Nat /\ site.made \in Nat
  BY DEF SiteInv, SiteTyped
<1>2. PICK ends : ends = Goes(o, "idle")
  OBVIOUS
<1>3. PICK kind : kind = order.kind
  OBVIOUS
<1>4. PICK served : served = [site EXCEPT !.ingress = TRUE, !.last = kind, !.orders = ends]
  OBVIOUS
<1>5. /\ order.at = "ingress"
      /\ \/ site' = served
         \/ \E slip \in {0, 1} :
              site' = [site EXCEPT !.service = FALSE, !.slips = @ + slip, !.orders = ends,
                                   !.last = kind]
  BY <1>2, <1>3, <1>4 DEF createIngress, OrderAt
<1>6. Fits(order.kind, "ingress") /\ order.kind \in {"create", "update"} /\ site.ports
  BY <1>1, <1>5 DEF SiteTyped, OrdersTyped, Fits, Makes, ServingSteps
<1>7. /\ IsSite(site') /\ SameNature /\ SamePods /\ SameHistory /\ SameDisk
      /\ site'.orders = ends /\ site'.last = kind /\ site'.slips \in Nat
      /\ site'.slips = 0 => site.slips = 0
  <2>1. CASE site' = served
    <3>1. IsSite(served)
      BY <1>1, <1>4 DEF IsSite
    <3>2. SameNature /\ SamePods /\ SameHistory /\ SameDisk
      BY <1>1, <1>4, <2>1 DEF IsSite, SameNature, SamePods, SameHistory, SameFlags, SameDisk
    <3>3. site'.orders = ends /\ site'.last = kind /\ site'.slips = site.slips
      BY <1>1, <1>4, <2>1 DEF IsSite
    <3> QED BY <1>1, <2>1, <3>1, <3>2, <3>3
  <2>2. ASSUME NEW slip \in {0, 1},
               site' = [site EXCEPT !.service = FALSE, !.slips = @ + slip, !.orders = ends,
                                    !.last = kind]
        PROVE  <1>7
    <3>1. PICK row : row = [site EXCEPT !.service = FALSE, !.slips = @ + slip, !.orders = ends,
                                        !.last = kind]
      OBVIOUS
    <3>2. site' = row
      BY <2>2, <3>1
    <3>3. IsSite(row)
      BY <1>1, <3>1 DEF IsSite
    <3>4. SameNature /\ SamePods /\ SameHistory /\ SameDisk
      BY <1>1, <3>1, <3>2 DEF IsSite, SameNature, SamePods, SameHistory, SameFlags, SameDisk
    <3>5. site'.orders = ends /\ site'.last = kind /\ site'.slips = site.slips + slip
      BY <1>1, <3>1, <3>2 DEF IsSite
    <3> QED BY <1>1, <3>2, <3>3, <3>4, <3>5
  <2> QED BY <1>5, <2>1, <2>2
<1>8. Steps(o) /\ site'.orders[o].at = "idle"
  BY <1>1, <1>2, <1>7, OrderGoes
<1>9. PodsTyped' /\ DiskTyped'
  BY <1>1, <1>6, <1>7, PodsStayTyped DEF SiteTyped, DiskTyped, SameNature, SameHistory
<1>10. Fits(site'.orders[o].kind, site'.orders[o].at) /\ Knows(o)' /\ FindsAgent(o)'
  BY <1>8, IdleKnows
<1>11. ASSUME ~ site.met, OneByOne, site.last = "none"
       PROVE  Kept' /\ FilesKept' /\ NewestRuns' /\ EndpointServed' /\ LeavesNothing'
  <2>1. AloneInv
    BY <1>11 DEF SiteInv
  <2>2. Kept' /\ NewestRuns' /\ FilesKept' /\ (AllEnd' <=> AllEnd)
    BY <1>7, <2>1, PodsStay
  <2>3. ~ site.strayed => ~ AllEnd
    BY <1>5, <2>1 DEF AloneInv, Knows, ServingSteps
  <2>4. EndpointServed'
    BY <1>7, <2>2, <2>3 DEF EndpointServed, SameHistory, SameFlags
  <2>5. LeavesNothing'
    BY <1>3, <1>6, <1>7 DEF LeavesNothing
  <2> QED BY <2>2, <2>4, <2>5
<1>12. SameFlags /\ site'.made \in Nat /\ Busy(o)
  BY <1>1, <1>5, <1>7 DEF SameHistory, SamePods, Busy
<1> QED BY <1>7, <1>8, <1>9, <1>10, <1>11, <1>12, OrderKeeps

LEMMA RevokeKeeps == ASSUME SiteInv, NEW o \in Orders, RevokeEndpoint(o) PROVE SiteInv'
<1> DEFINE order == site.orders[o]
<1>1. SiteTyped /\ IsSite(site) /\ site.slips \in Nat /\ site.made \in Nat
  BY DEF SiteInv, SiteTyped
<1>2. PICK orders : orders = Goes(o, "volume")
  OBVIOUS
<1>3. PICK revoked : revoked = [site EXCEPT !.ingress = FALSE, !.service = FALSE, !.orders = orders]
  OBVIOUS
<1>4. /\ order.at = "revoke"
      /\ \/ site' = revoked
         \/ \E ingress \in {site.ingress, FALSE} :
              site' = [site EXCEPT !.slips = @ + 1, !.ingress = ingress, !.orders = orders]
  BY <1>2, <1>3 DEF RevokeEndpoint, OrderAt
<1>5. Fits(order.kind, "revoke") /\ order.kind \in {"stop", "delete"}
  BY <1>1, <1>4 DEF SiteTyped, OrdersTyped, Fits, Removes, RemovingSteps
<1>6. /\ IsSite(site') /\ SameNature /\ SamePods /\ SameHistory /\ SameDisk
      /\ site'.orders = orders /\ site'.last = site.last /\ site'.slips \in Nat
      /\ site'.slips = 0 => ~ site'.service /\ ~ site'.ingress
      /\ ~ site.service /\ ~ site.ingress => ~ site'.service /\ ~ site'.ingress
  <2>1. CASE site' = revoked
    <3>1. IsSite(revoked)
      BY <1>1, <1>3 DEF IsSite
    <3>2. SameNature /\ SamePods /\ SameHistory /\ SameDisk
      BY <1>1, <1>3, <2>1 DEF IsSite, SameNature, SamePods, SameHistory, SameFlags, SameDisk
    <3>3. /\ site'.orders = orders /\ site'.last = site.last /\ site'.slips = site.slips
          /\ site'.service = FALSE /\ site'.ingress = FALSE
      BY <1>1, <1>3, <2>1 DEF IsSite
    <3> QED BY <1>1, <2>1, <3>1, <3>2, <3>3
  <2>2. ASSUME NEW ingress \in {site.ingress, FALSE},
               site' = [site EXCEPT !.slips = @ + 1, !.ingress = ingress, !.orders = orders]
        PROVE  <1>6
    <3>1. PICK row : row = [site EXCEPT !.slips = @ + 1, !.ingress = ingress, !.orders = orders]
      OBVIOUS
    <3>2. site' = row
      BY <2>2, <3>1
    <3>3. IsSite(row)
      BY <1>1, <3>1 DEF IsSite
    <3>4. SameNature /\ SamePods /\ SameHistory /\ SameDisk
      BY <1>1, <3>1, <3>2 DEF IsSite, SameNature, SamePods, SameHistory, SameFlags, SameDisk
    <3>5. /\ site'.orders = orders /\ site'.last = site.last /\ site'.slips = site.slips + 1
          /\ site'.service = site.service /\ site'.ingress = ingress
      BY <1>1, <3>1, <3>2 DEF IsSite
    <3>6. site'.slips \in Nat /\ site'.slips # 0
      BY <1>1, <3>5
    <3>7. ~ site.service /\ ~ site.ingress => ~ site'.service /\ ~ site'.ingress
      BY <3>5
    <3> QED BY <3>2, <3>3, <3>4, <3>5, <3>6, <3>7
  <2> QED BY <1>4, <2>1, <2>2
<1>7. /\ Steps(o) /\ site'.orders[o].at = "volume"
      /\ site'.orders[o].kind = order.kind /\ site'.orders[o].pods = order.pods
  BY <1>1, <1>2, <1>6, OrderGoes
<1>8. PodsTyped' /\ DiskTyped'
  BY <1>1, <1>6, PodsStayTyped DEF SiteTyped, DiskTyped, SameNature, SameHistory
<1>9. Fits(site'.orders[o].kind, site'.orders[o].at)
  BY <1>5, <1>7 DEF Fits, Removes, MakingSteps, ServingSteps, RemovingSteps
<1>10. ASSUME ~ site.met, OneByOne, site.last = "none"
       PROVE  /\ Knows(o)' /\ FindsAgent(o)' /\ Kept' /\ FilesKept' /\ NewestRuns'
              /\ EndpointServed' /\ LeavesNothing'
  <2>1. AloneInv
    BY <1>10 DEF SiteInv
  <2>2. Kept' /\ NewestRuns' /\ FilesKept' /\ (AllEnd' <=> AllEnd)
    BY <1>6, <2>1, PodsStay
  <2>3. Knows(o)'
    <3>1. AllEnd
      BY <1>4, <2>1 DEF AloneInv, Knows, RemovingSteps
    <3> QED BY <1>7, <2>2, <3>1 DEF Knows, MakingSteps, ServingSteps, RemovingSteps
  <2>4. FindsAgent(o)'
    <3>1. Undisturbed' <=> Undisturbed
      BY <1>6 DEF Undisturbed, SameNature, SameHistory, SameFlags
    <3>2. Undisturbed /\ order.kind = "delete" => order.pods # {}
      BY <1>4, <2>1 DEF AloneInv, FindsAgent
    <3> QED BY <1>7, <3>1, <3>2 DEF FindsAgent
  <2>5. EndpointServed'
    BY <1>6 DEF EndpointServed
  <2>6. LeavesNothing'
    BY <1>6, <1>10 DEF LeavesNothing
  <2> QED BY <2>2, <2>3, <2>4, <2>5, <2>6
<1>11. SameFlags /\ site'.made \in Nat /\ Busy(o)
  BY <1>1, <1>4, <1>6 DEF SameHistory, SamePods, Busy
<1> QED BY <1>6, <1>7, <1>8, <1>9, <1>10, <1>11, OrderKeeps

LEMMA DeleteVolumeKeeps == ASSUME SiteInv, NEW o \in Orders, DeleteVolume(o) PROVE SiteInv'
<1> DEFINE order == site.orders[o]
<1>1. SiteTyped /\ IsSite(site) /\ site.slips \in Nat /\ site.made \in Nat
  BY DEF SiteInv, SiteTyped
<1>2. PICK orders : orders = Goes(o, "last")
  OBVIOUS
<1>3. PICK claim : claim = (site.claim /\ keepsVolume(o))
  OBVIOUS
<1>4. PICK row : row = [site EXCEPT !.claim = claim, !.orders = orders]
  OBVIOUS
<1>5. site' = row /\ order.at = "volume"
  BY <1>2, <1>3, <1>4 DEF DeleteVolume, OrderAt
<1>6. IsSite(row)
  BY <1>1, <1>4 DEF IsSite
<1>7. /\ SameNature /\ SamePods /\ SameHistory /\ SameAddress
      /\ site'.claim = claim /\ site'.policy = site.policy
  BY <1>1, <1>4, <1>5 DEF IsSite, SameNature, SamePods, SameHistory, SameFlags, SameAddress
<1>8. site'.orders = orders /\ site'.slips = site.slips /\ site'.last = site.last
  BY <1>1, <1>4, <1>5 DEF IsSite
<1>9. /\ Steps(o) /\ site'.orders[o].at = "last"
      /\ site'.orders[o].kind = order.kind /\ site'.orders[o].pods = order.pods
  BY <1>1, <1>2, <1>8, OrderGoes
<1>10. PodsTyped' /\ DiskTyped'
  BY <1>1, <1>7, PodsStayTyped DEF SiteTyped, DiskTyped, SameNature, SameHistory, SameAddress
<1>11. Fits(order.kind, "volume") /\ (site.hidden => order.kind = "delete")
  <2>1. Fits(order.kind, "volume")
    BY <1>1, <1>5 DEF SiteTyped, OrdersTyped
  <2> QED BY <2>1 DEF Fits, Removes, RemovingSteps
<1>12. Fits(site'.orders[o].kind, site'.orders[o].at)
  BY <1>9, <1>11 DEF Fits, Removes, MakingSteps, ServingSteps, RemovingSteps
<1>13. ASSUME ~ site.met, OneByOne, site.last = "none"
       PROVE  /\ Knows(o)' /\ FindsAgent(o)' /\ Kept' /\ FilesKept' /\ NewestRuns'
              /\ EndpointServed' /\ LeavesNothing'
  <2>1. AloneInv
    BY <1>13 DEF SiteInv
  <2>2. AllEnd /\ AllEnd'
    BY <1>5, <1>7, <2>1 DEF AloneInv, Knows, RemovingSteps, AllEnd, Pods, SamePods
  <2>3. Kept' /\ NewestRuns'
    BY <2>2 DEF AllEnd, Kept, NewestRuns, MayRun
  <2>4. FilesKept'
    <3>1. SUFFICES ASSUME Undisturbed, site.files PROVE claim
      BY <1>7 DEF FilesKept, Undisturbed, SameNature, SameHistory, SameFlags
    <3>2. site.claim
      BY <2>1, <3>1 DEF AloneInv, FilesKept
    <3>3. order.pods # {}
      BY <1>5, <1>11, <2>1, <3>1 DEF AloneInv, FindsAgent, Undisturbed
    <3> QED BY <1>3, <3>1, <3>2, <3>3 DEF keepsVolume, Undisturbed
  <2>5. Knows(o)'
    <3>1. order.kind = "delete" /\ ~ site'.hidden => ~ site'.claim
      BY <1>3, <1>7 DEF keepsVolume, SameNature
    <3> QED BY <1>9, <2>2, <3>1 DEF Knows, MakingSteps, ServingSteps, RemovingSteps
  <2>6. FindsAgent(o)'
    BY <1>9 DEF FindsAgent
  <2>7. EndpointServed'
    <3>1. ~ Attends(o) /\ Busy(o)
      BY <1>5 DEF Attends, MakingSteps, Busy
    <3> QED BY <1>7, <1>8, <2>1, <2>2, <3>1, ServedByOne
            DEF EndpointServed, SameHistory, SameFlags, SameAddress
  <2>8. LeavesNothing'
    BY <1>8, <1>13 DEF LeavesNothing
  <2> QED BY <2>3, <2>4, <2>5, <2>6, <2>7, <2>8
<1>14. /\ SameFlags /\ IsSite(site') /\ site'.made \in Nat /\ site'.slips \in Nat
       /\ site'.last = site.last /\ Busy(o)
  BY <1>1, <1>5, <1>6, <1>7, <1>8 DEF SameHistory, SamePods, Busy
<1> QED BY <1>7, <1>9, <1>10, <1>12, <1>13, <1>14, OrderKeeps

LEMMA DeletePolicyKeeps == ASSUME SiteInv, NEW o \in Orders, DeletePolicy(o) PROVE SiteInv'
<1> DEFINE order == site.orders[o]
<1>1. SiteTyped /\ IsSite(site) /\ site.slips \in Nat /\ site.made \in Nat
  BY DEF SiteInv, SiteTyped
<1>2. PICK orders : orders = Goes(o, "idle")
  OBVIOUS
<1>3. PICK kind : kind = order.kind
  OBVIOUS
<1>4. PICK row : row = [site EXCEPT !.policy = FALSE, !.orders = orders, !.last = kind]
  OBVIOUS
<1>5. site' = row /\ order.at = "last"
  BY <1>2, <1>3, <1>4 DEF DeletePolicy, OrderAt
<1>6. IsSite(row)
  BY <1>1, <1>4 DEF IsSite
<1>7. /\ SameNature /\ SamePods /\ SameHistory /\ SameAddress
      /\ site'.claim = site.claim /\ site'.policy = FALSE
  BY <1>1, <1>4, <1>5 DEF IsSite, SameNature, SamePods, SameHistory, SameFlags, SameAddress
<1>8. site'.orders = orders /\ site'.slips = site.slips /\ site'.last = kind
  BY <1>1, <1>4, <1>5 DEF IsSite
<1>9. Steps(o) /\ site'.orders[o].at = "idle"
  BY <1>1, <1>2, <1>8, OrderGoes
<1>10. PodsTyped' /\ DiskTyped'
  BY <1>1, <1>7, PodsStayTyped DEF SiteTyped, DiskTyped, SameNature, SameHistory, SameAddress
<1>11. Fits(site'.orders[o].kind, site'.orders[o].at) /\ Knows(o)' /\ FindsAgent(o)'
  BY <1>9, IdleKnows
<1>12. ASSUME ~ site.met, OneByOne, site.last = "none"
       PROVE  /\ Kept' /\ FilesKept' /\ NewestRuns' /\ EndpointServed' /\ LeavesNothing'
  <2>1. AloneInv
    BY <1>12 DEF SiteInv
  <2>2. AllEnd /\ AllEnd'
    BY <1>5, <1>7, <2>1 DEF AloneInv, Knows, RemovingSteps, AllEnd, Pods, SamePods
  <2>3. Kept' /\ NewestRuns'
    BY <2>2 DEF AllEnd, Kept, NewestRuns, MayRun
  <2>4. FilesKept'
    BY <1>7, <2>1 DEF AloneInv, FilesKept, Undisturbed, SameNature, SameHistory, SameFlags
  <2>5. ~ (site.slips = 0 /\ ~ site.strayed /\ (site.service \/ site.ingress))
    <3>1. ~ Attends(o) /\ Busy(o)
      BY <1>5 DEF Attends, MakingSteps, Busy
    <3> QED BY <2>1, <2>2, <3>1, ServedByOne
  <2>6. EndpointServed'
    BY <1>7, <1>8, <2>5 DEF EndpointServed, SameHistory, SameFlags, SameAddress
  <2>7. LeavesNothing'
    <3>1. kind = "delete" /\ ~ site.hidden => ~ site.claim
      BY <1>3, <1>5, <2>1 DEF AloneInv, Knows
    <3> QED BY <1>7, <1>8, <2>2, <2>5, <3>1
            DEF LeavesNothing, AllEnd, SameNature, SameHistory, SameFlags, SameAddress
  <2> QED BY <2>3, <2>4, <2>6, <2>7
<1>13. /\ SameFlags /\ IsSite(site') /\ site'.made \in Nat /\ site'.slips \in Nat /\ Busy(o)
  BY <1>1, <1>5, <1>6, <1>7, <1>8 DEF SameHistory, SamePods, Busy
<1> QED BY <1>7, <1>9, <1>10, <1>11, <1>12, <1>13, OrderKeeps

LEMMA ReceiveKeeps ==
  ASSUME SiteInv, NEW o \in Orders, NEW kind \in Kinds, Receive(o, kind) PROVE SiteInv'
<1>1. SiteTyped /\ IsSite(site) /\ site.slips \in Nat /\ site.made \in Nat
  BY DEF SiteInv, SiteTyped
<1>2. PICK new : new = [NoOrder EXCEPT !.kind = kind, !.at = "find"]
  OBVIOUS
<1>3. new = [kind |-> kind, at |-> "find", pods |-> {}]
  BY <1>2 DEF NoOrder
<1>4. PICK orders : orders = site.orders
  OBVIOUS
<1>5. PICK next : next = [orders EXCEPT ![o] = new]
  OBVIOUS
<1>6. PICK met : met = (site.met \/ \E other \in Orders : Busy(other))
  OBVIOUS
<1>7. PICK hasty : hasty = (site.hasty \/ (kind = "delete" /\ site.ending # {}))
  OBVIOUS
<1>8. PICK row : row = [site EXCEPT !.orders = next, !.met = met, !.hasty = hasty, !.last = "none"]
  OBVIOUS
<1>9. /\ site' = row /\ site.orders[o].kind = "none"
      /\ site.hidden => kind = "create" \/ (kind = "delete" /\ Reported \in {"pending", "running"})
  BY <1>2, <1>4, <1>5, <1>6, <1>7, <1>8 DEF Receive
<1>10. IsSite(row)
  BY <1>1, <1>8 DEF IsSite
<1>11. /\ SameNature /\ SamePods /\ SameDisk /\ SameAddress
       /\ site'.files = site.files /\ site'.left = site.left /\ site'.strayed = site.strayed
  BY <1>1, <1>8, <1>9 DEF IsSite, SameNature, SamePods, SameDisk, SameAddress
<1>12. /\ site'.orders = next /\ site'.met = met /\ site'.hasty = hasty /\ site'.last = "none"
       /\ site'.slips = site.slips
  BY <1>1, <1>8, <1>9 DEF IsSite
<1>13. Steps(o) /\ site'.orders[o] = new
  <2>1. orders = [u \in Orders |-> orders[u]]
    BY <1>1, <1>4 DEF SiteTyped, OrdersTyped
  <2>2. /\ next = [u \in Orders |-> next[u]] /\ next[o] = new
        /\ \A u \in Orders : u # o => next[u] = orders[u]
    BY <1>5, <2>1
  <2>3. new = [kind |-> new.kind, at |-> new.at, pods |-> new.pods]
    BY <1>3
  <2> QED BY <1>4, <1>12, <2>2, <2>3 DEF Steps
<1>14. /\ site'.orders[o].at = "find" /\ site'.orders[o].kind = kind
       /\ Fits(site'.orders[o].kind, site'.orders[o].at)
  <2>1. site'.orders[o].at = "find" /\ site'.orders[o].kind = kind
    BY <1>3, <1>13
  <2> QED BY <1>9, <2>1 DEF Fits, MakingSteps, ServingSteps, RemovingSteps
<1>15. SiteTyped'
  <2>1. OrdersTyped'
    BY <1>1, <1>11, <1>13, <1>14, StepTyped
  <2>2. PodsTyped' /\ DiskTyped'
    BY <1>1, <1>11, PodsStayTyped DEF SiteTyped, DiskTyped, SameNature, SameAddress
  <2>3. site'.made \in Nat /\ site'.slips \in Nat /\ IsSite(site')
    BY <1>1, <1>9, <1>10, <1>11, <1>12 DEF SamePods
  <2> QED BY <2>1, <2>2, <2>3 DEF SiteTyped
<1>16. ASSUME ~ site'.met PROVE AloneInv'
  <2>1. AloneInv /\ \A u \in Orders : ~ Busy(u)
    BY <1>6, <1>12, <1>16 DEF SiteInv
  <2>2. /\ \A u \in Orders : u # o => site.orders[u].at = "idle" /\ site'.orders[u].at = "idle"
        /\ \A u \in Orders : u # o => Knows(u)' /\ FindsAgent(u)'
    BY <1>13, <2>1, OthersIdle DEF AloneInv
  <2>3. OneByOne'
    BY <1>12, <2>2 DEF OneByOne, Busy
  <2>4. (AllEnd' <=> AllEnd) /\ Pods' = Pods
    BY <1>11 DEF AllEnd, Pods, SamePods
  <2>5. Kept' /\ NewestRuns'
    BY <1>11, <2>1 DEF AloneInv, Kept, NewestRuns, MayRun, Pods, SameNature, SamePods, SameDisk
  <2>6. Undisturbed' => Undisturbed /\ (kind = "delete" => site.ending = {})
    BY <1>7, <1>11, <1>12 DEF Undisturbed, SameNature
  <2>7. FilesKept'
    BY <1>11, <2>1, <2>6 DEF AloneInv, FilesKept, SameDisk
  <2>8. Knows(o)'
    BY <1>14 DEF Knows, MakingSteps, ServingSteps, RemovingSteps
  <2>9. FindsAgent(o)'
    <3>1. SUFFICES ASSUME Undisturbed', kind = "delete" PROVE ~ AllEnd'
      BY <1>14 DEF FindsAgent
    <3>2. Pods # {}
      BY <1>9, <2>6, <3>1 DEF Undisturbed, Reported
    <3> QED BY <2>4, <2>6, <3>1, <3>2 DEF AllEnd
  <2>10. EndpointServed'
    <3>1. \A u \in Orders : ~ Attends(u)
      BY <2>1 DEF Attends, Busy, MakingSteps
    <3> QED BY <1>11, <1>12, <2>1, <2>4, <3>1 DEF AloneInv, EndpointServed, SameAddress
  <2>11. LeavesNothing'
    BY <1>12 DEF LeavesNothing
  <2> QED BY <2>2, <2>3, <2>5, <2>7, <2>8, <2>9, <2>10, <2>11 DEF AloneInv
<1> QED BY <1>15, <1>16 DEF SiteInv

LEMMA SiteStays == ASSUME SiteInv, UNCHANGED site PROVE SiteInv'
<1>1. SiteTyped'
  BY DEF SiteInv, SiteTyped, IsSite, PodsTyped, Pods, OrdersTyped, DiskTyped, Fits
<1>2. AloneInv => AloneInv'
  BY DEF AloneInv, OneByOne, Busy, Kept, MayRun, Pods, FilesKept, Undisturbed, EndpointServed,
         AllEnd, Attends, NewestRuns, LeavesNothing, Alone, Knows, FindsAgent
<1> QED BY <1>1, <1>2 DEF SiteInv

\* What a pod does by itself leaves fewer that may run.
LEMMA PodsMoveKeeps ==
  ASSUME SiteInv, IsSite(site'), PodsTyped', SameNature, SameDisk, SameAddress,
         site'.orders = site.orders, site'.slips = site.slips, site'.last = site.last,
         site'.made = site.made, site'.files = site.files, site'.met = site.met,
         site'.hasty = site.hasty, site'.left = site.left,
         Pods' \subseteq Pods, \A q \in Pods' : MayRun(q)' => MayRun(q),
         AllEnd => AllEnd',
         ~ site'.strayed => ~ site.strayed /\ (AllEnd' => AllEnd)
  PROVE  SiteInv'
<1>1. SiteTyped
  BY DEF SiteInv
<1>2. SiteTyped'
  <2>1. OrdersTyped' /\ DiskTyped'
    BY <1>1 DEF SiteTyped, OrdersTyped, DiskTyped, Fits, SameNature, SameAddress
  <2> QED BY <1>1, <2>1 DEF SiteTyped
<1>3. ASSUME ~ site.met PROVE AloneInv'
  <2>1. AloneInv
    BY <1>3 DEF SiteInv
  <2>2. OneByOne'
    BY <2>1 DEF AloneInv, OneByOne, Busy
  <2>3. Kept' /\ NewestRuns'
    BY <2>1 DEF AloneInv, Kept, NewestRuns, SameNature, SameDisk
  <2>4. Undisturbed' => Undisturbed
    BY DEF Undisturbed, SameNature
  <2>5. FilesKept'
    BY <2>1, <2>4 DEF AloneInv, FilesKept, SameDisk
  <2>6. EndpointServed'
    <3>1. \A o \in Orders : Attends(o)' <=> Attends(o)
      BY DEF Attends
    <3> QED BY <2>1, <3>1 DEF AloneInv, EndpointServed, SameAddress
  <2>7. LeavesNothing'
    <3>1. SUFFICES ASSUME site.last = "delete", ~ site.hidden
                   PROVE  /\ AllEnd' /\ ~ site'.policy /\ ~ site'.claim
                          /\ site'.slips = 0 /\ ~ site'.strayed => ~ site'.service /\ ~ site'.ingress
      BY DEF LeavesNothing, AllEnd, SameNature
    <3>2. /\ AllEnd /\ ~ site.policy /\ ~ site.claim
          /\ site.slips = 0 /\ ~ site.strayed => ~ site.service /\ ~ site.ingress
      BY <1>3, <2>1, <3>1 DEF AloneInv, LeavesNothing, Alone, AllEnd
    <3> QED BY <3>2 DEF SameDisk, SameAddress
  <2>8. ASSUME NEW o \in Orders PROVE Knows(o)' /\ FindsAgent(o)'
    <3>1. Knows(o) /\ FindsAgent(o)
      BY <2>1 DEF AloneInv
    <3>2. Knows(o)'
      BY <3>1 DEF Knows, SameNature, SameDisk
    <3>3. FindsAgent(o)'
      BY <2>4, <3>1 DEF FindsAgent, Undisturbed
    <3> QED BY <3>2, <3>3
  <2> QED BY <2>2, <2>3, <2>5, <2>6, <2>7, <2>8 DEF AloneInv
<1> QED BY <1>2, <1>3 DEF SiteInv

LEMMA PodGoneKeeps == ASSUME SiteInv, NEW p, PodGone(p) PROVE SiteInv'
<1>1. SiteTyped /\ IsSite(site) /\ p \in Pods
  BY DEF SiteInv, SiteTyped, PodGone
<1>2. PICK pods : pods = [q \in Pods \ {p} |-> site.pods[q]]
  OBVIOUS
<1>3. PICK ending : ending = site.ending \ {p}
  OBVIOUS
<1>4. PICK strayed : strayed = (site.strayed \/ p \notin site.ending)
  OBVIOUS
<1>5. PICK turns : turns = IF p \in site.ending THEN site.turns ELSE site.turns + 1
  OBVIOUS
<1>6. PICK row : row = [site EXCEPT !.pods = pods, !.ending = ending, !.strayed = strayed,
                                    !.turns = turns]
  OBVIOUS
<1>7. site' = row
  BY <1>2, <1>3, <1>4, <1>5, <1>6 DEF PodGone
<1>8. IsSite(row)
  BY <1>1, <1>6 DEF IsSite
<1>9. /\ SameNature /\ SameDisk /\ SameAddress /\ site'.orders = site.orders
      /\ site'.slips = site.slips /\ site'.last = site.last /\ site'.made = site.made
      /\ site'.files = site.files /\ site'.met = site.met /\ site'.hasty = site.hasty
      /\ site'.left = site.left
  BY <1>1, <1>6, <1>7 DEF IsSite, SameNature, SameDisk, SameAddress
<1>10. site'.pods = pods /\ site'.ending = ending /\ site'.strayed = strayed
  BY <1>1, <1>6, <1>7 DEF IsSite
<1>11. Pods' = Pods \ {p}
  BY <1>2, <1>10 DEF Pods
<1>12. PodsTyped'
  BY <1>1, <1>2, <1>3, <1>9, <1>10, <1>11 DEF SiteTyped, PodsTyped
<1>13. \A q \in Pods' : MayRun(q)' => MayRun(q)
  BY <1>2, <1>3, <1>10, <1>11 DEF MayRun
<1>14. AllEnd => AllEnd'
  BY <1>3, <1>10, <1>11 DEF AllEnd
<1>15. ~ site'.strayed => ~ site.strayed /\ (AllEnd' => AllEnd)
  BY <1>3, <1>4, <1>10, <1>11 DEF AllEnd
<1> QED BY <1>7, <1>8, <1>9, <1>11, <1>12, <1>13, <1>14, <1>15, PodsMoveKeeps

LEMMA PodTurnsKeeps ==
  ASSUME SiteInv, NEW p, NEW phase \in Phases, PodTurns(p, phase) PROVE SiteInv'
<1>1. /\ SiteTyped /\ IsSite(site) /\ p \in Pods
      /\ site.pods[p] \notin {"succeeded", "failed"}
  BY DEF SiteInv, SiteTyped, PodTurns
<1>2. PICK pods : pods = [site.pods EXCEPT ![p] = phase]
  OBVIOUS
<1>3. PICK row : row = [site EXCEPT !.pods = pods, !.turns = @ + 1]
  OBVIOUS
<1>4. site' = row
  BY <1>2, <1>3 DEF PodTurns
<1>5. IsSite(row)
  BY <1>1, <1>3 DEF IsSite
<1>6. /\ SameNature /\ SameDisk /\ SameAddress /\ site'.orders = site.orders
      /\ site'.slips = site.slips /\ site'.last = site.last /\ site'.made = site.made
      /\ site'.files = site.files /\ site'.met = site.met /\ site'.hasty = site.hasty
      /\ site'.left = site.left
  BY <1>1, <1>3, <1>4 DEF IsSite, SameNature, SameDisk, SameAddress
<1>7. site'.pods = pods /\ site'.ending = site.ending /\ site'.strayed = site.strayed
  BY <1>1, <1>3, <1>4 DEF IsSite
<1>8. site.pods \in [Pods -> Phases]
  BY <1>1 DEF SiteTyped, PodsTyped
<1>9. Pods' = Pods /\ pods \in [Pods -> Phases]
  BY <1>2, <1>7, <1>8 DEF Pods
<1>10. PodsTyped' /\ (AllEnd' <=> AllEnd)
  BY <1>1, <1>6, <1>7, <1>9 DEF SiteTyped, PodsTyped, AllEnd
<1>11. \A q \in Pods' : MayRun(q)' => MayRun(q)
  BY <1>1, <1>2, <1>7, <1>8, <1>9 DEF MayRun
<1> QED BY <1>4, <1>5, <1>6, <1>7, <1>9, <1>10, <1>11, PodsMoveKeeps

LEMMA SiteStep == SiteInv /\ [SiteNext]_site => SiteInv'
<1>1. ASSUME SiteInv, NEW o \in Orders,
             \/ \E kind \in Kinds : Receive(o, kind)
             \/ CallFails(o) \/ Find(o) \/ EndPods(o)
             \/ CreateClaim(o) \/ CreatePolicy(o) \/ CreatePod(o)
             \/ createInstanceService(o) \/ createIngress(o)
             \/ RevokeEndpoint(o) \/ DeleteVolume(o) \/ DeletePolicy(o)
      PROVE  SiteInv'
  BY <1>1, ReceiveKeeps, CallFailsKeeps, FindKeeps, EndPodsKeeps, CreateClaimKeeps,
     CreatePolicyKeeps, CreatePodKeeps, ServiceKeeps, IngressKeeps, RevokeKeeps,
     DeleteVolumeKeeps, DeletePolicyKeeps
<1>2. ASSUME SiteInv, NEW p, PodGone(p) \/ \E phase \in Phases : PodTurns(p, phase)
      PROVE  SiteInv'
  BY <1>2, PodGoneKeeps, PodTurnsKeeps
<1>3. ASSUME SiteInv, UNCHANGED site PROVE SiteInv'
  BY <1>3, SiteStays
<1> QED BY <1>1, <1>2, <1>3 DEF SiteNext

LEMMA SiteStart == SiteInit => SiteInv
<1>1. ASSUME NEW hidden \in BOOLEAN, NEW disk \in BOOLEAN, NEW ports \in BOOLEAN,
             hidden => disk /\ ~ ports, site = Site(hidden, disk, ports)
      PROVE  SiteInv
  <2>1. /\ IsSite(site) /\ site.made = 0 /\ site.slips = 0 /\ site.ending = {}
        /\ site.hidden = hidden /\ site.disk = disk /\ site.ports = ports
    BY <1>1 DEF Site, IsSite
  <2>2. /\ site.files = FALSE /\ site.service = FALSE /\ site.ingress = FALSE /\ site.last = "none"
        /\ site.orders = [o \in Orders |-> NoOrder] /\ site.pods = NoPods
    BY <1>1 DEF Site
  <2>3. Pods = {} /\ site.pods \in [Pods -> Phases]
    BY <2>2 DEF Pods, NoPods
  <2>4. PodsTyped /\ DiskTyped
    BY <1>1, <2>1, <2>2, <2>3 DEF PodsTyped, DiskTyped
  <2>5. \A o \in Orders : site.orders[o] = NoOrder
    BY <2>2
  <2>6. OrdersTyped
    BY <2>2, <2>5 DEF OrdersTyped, NoOrder, Fits, MakingSteps, ServingSteps, RemovingSteps
  <2>7. \A o \in Orders : site.orders[o].at = "idle"
    BY <2>5 DEF NoOrder
  <2>8. OneByOne /\ \A o \in Orders : Knows(o) /\ FindsAgent(o)
    BY <2>7 DEF OneByOne, Busy, Knows, FindsAgent, MakingSteps, ServingSteps, RemovingSteps
  <2>9. Kept /\ FilesKept /\ EndpointServed /\ NewestRuns /\ LeavesNothing
    BY <2>2, <2>3 DEF Kept, FilesKept, EndpointServed, NewestRuns, LeavesNothing
  <2> QED BY <2>1, <2>4, <2>6, <2>8, <2>9 DEF SiteInv, SiteTyped, AloneInv
<1> QED BY <1>1 DEF SiteInit

LEMMA SiteInvSound == SiteInv => ObjectsSound
<1>1. SUFFICES ASSUME SiteInv PROVE ObjectsSound
  OBVIOUS
<1>2. SiteTyped /\ (Alone => AloneInv)
  BY <1>1 DEF SiteInv, Alone
<1>3. Isolated
  BY <1>2 DEF Isolated, AloneInv, Kept, Up, MayRun
<1>4. WorkspaceKept
  BY <1>2 DEF WorkspaceKept, AloneInv, FilesKept, Undisturbed, SiteTyped, DiskTyped
<1>5. LeavesNothing
  BY <1>2 DEF AloneInv, LeavesNothing
<1>6. EndedIsEnded
  <2>1. SUFFICES ASSUME Alone, ~ site.left, Reported = "terminated",
                        NEW p \in Up, site.pods[p] = "running"
                 PROVE  FALSE
    BY DEF EndedIsEnded
  <2>2. p \in Pods /\ MayRun(p)
    BY <2>1 DEF Up, MayRun
  <2>3. Pods \subseteq Int /\ \A q \in Pods : q <= p
    BY <1>2, <2>1, <2>2 DEF SiteTyped, PodsTyped, AloneInv, NewestRuns
  <2>4. Max(Pods) = p
    <3>1. Max(Pods) \in Pods /\ \A q \in Pods : Max(Pods) >= q
      BY <2>2, <2>3 DEF Max
    <3>2. PICK m : m = Max(Pods)
      OBVIOUS
    <3>3. m \in Int /\ p \in Int /\ m <= p /\ m >= p
      BY <2>2, <2>3, <3>1, <3>2
    <3> QED BY <3>2, <3>3
  <2>5. Reported = podStatus("running")
    BY <2>1, <2>2, <2>4 DEF Reported
  <2> QED BY <2>1, <2>5 DEF podStatus
<1> QED BY <1>3, <1>4, <1>5, <1>6 DEF ObjectsSound

-----------------------------------------------------------------------------
\* Whatever orders an instance gets one after the other, whichever of their
\* calls fail and whatever becomes of its pods: a pod that is up has its policy
\* and its claim, a build agent's files stay, a delete that works leaves nothing,
\* and an instance reported ended has no pod that runs
\* (direct.go:269-541, networking/service.go).
THEOREM ObjectsAreSound == SiteSpec => []ObjectsSound
<1>1. SiteInit => SiteInv
  BY SiteStart
<1>2. SiteInv /\ [SiteNext]_site => SiteInv'
  BY SiteStep
<1>3. SiteInv => ObjectsSound
  BY SiteInvSound
<1> QED BY <1>1, <1>2, <1>3, PTL DEF SiteSpec

-----------------------------------------------------------------------------
(***************************************************************************)
(* The start of the control plane.  Parts are built in a fixed order, each *)
(* one after those it needs, and a part that needs no setting of its own   *)
(* is built wherever those are.                                            *)
(***************************************************************************)
StartSpec == StartInit /\ [][StartNext]_plane

\* The fields of a part.
LEMMA PartFields ==
  \A a, b, c, d : /\ Part(a, b, c, d).name = a /\ Part(a, b, c, d).needs = b
                  /\ Part(a, b, c, d).wants = c /\ Part(a, b, c, d).must = d
BY DEF Part

\* A sequence over some set; the lists of parts are.
IsList(s) == \E S : s \in Seq(S)

LEMMA ListsOf ==
  ASSUME NEW a, NEW b, NEW c, NEW d, NEW e, NEW f, NEW g, NEW h
  PROVE  /\ IsList(<<a, b, c>>) /\ IsList(<<a, b, c, d, e>>)
         /\ IsList(<<a, b, c, d, e, f>>) /\ IsList(<<a, b, c, d, e, f, g>>)
         /\ IsList(<<a, b, c, d, e, f, g, h>>)
<1>1. IsList(<<a, b, c>>)
  <2>1. <<a, b, c>> \in Seq({a, b, c})
    OBVIOUS
  <2> QED BY <2>1 DEF IsList
<1>2. IsList(<<a, b, c, d, e>>)
  <2>1. <<a, b, c, d, e>> \in Seq({a, b, c, d, e})
    OBVIOUS
  <2> QED BY <2>1 DEF IsList
<1>3. IsList(<<a, b, c, d, e, f>>)
  <2>1. <<a, b, c, d, e, f>> \in Seq({a, b, c, d, e, f})
    OBVIOUS
  <2> QED BY <2>1 DEF IsList
<1>4. IsList(<<a, b, c, d, e, f, g>>)
  <2>1. <<a, b, c, d, e, f, g>> \in Seq({a, b, c, d, e, f, g})
    OBVIOUS
  <2> QED BY <2>1 DEF IsList
<1>5. IsList(<<a, b, c, d, e, f, g, h>>)
  <2>1. <<a, b, c, d, e, f, g, h>> \in Seq({a, b, c, d, e, f, g, h})
    OBVIOUS
  <2> QED BY <2>1 DEF IsList
<1> QED BY <1>1, <1>2, <1>3, <1>4, <1>5

LEMMA AccountPartsAre == IsList(AccountParts) /\ Len(AccountParts) = 8
BY ListsOf DEF AccountParts

LEMMA PaymentPartsAre == IsList(PaymentParts) /\ Len(PaymentParts) = 7
BY ListsOf DEF PaymentParts

LEMMA ClusterPartsAre == IsList(ClusterParts) /\ Len(ClusterParts) = 5
BY ListsOf DEF ClusterParts

LEMMA ChannelPartsAre == IsList(ChannelParts) /\ Len(ChannelParts) = 3
BY ListsOf DEF ChannelParts

LEMMA InferencePartsAre == IsList(InferenceParts) /\ Len(InferenceParts) = 7
BY ListsOf DEF InferenceParts

LEMMA LoopPartsAre == IsList(LoopParts) /\ Len(LoopParts) = 6
BY ListsOf DEF LoopParts

LEMMA ServerPartsAre == IsList(ServerParts) /\ Len(ServerParts) = 6
BY ListsOf DEF ServerParts

LEMMA StoragePartsAre == IsList(StorageParts) /\ Len(StorageParts) = 6
BY ListsOf DEF StorageParts

LEMMA BuildPartsAre == IsList(BuildParts) /\ Len(BuildParts) = 6
BY ListsOf DEF BuildParts

LEMMA ImagePartsAre == IsList(ImageParts) /\ Len(ImageParts) = 3
BY ListsOf DEF ImageParts

LEMMA EdgePartsAre == IsList(EdgeParts) /\ Len(EdgeParts) = 7
BY ListsOf DEF EdgeParts

\* What a concatenation consists of.
LEMMA Joined ==
  ASSUME NEW S, NEW s \in Seq(S), NEW t \in Seq(S)
  PROVE  /\ s \o t \in Seq(S) /\ Len(s \o t) = Len(s) + Len(t)
         /\ \A k \in 1 .. Len(s) : (s \o t)[k] = s[k]
         /\ \A k \in 1 .. Len(t) : (s \o t)[Len(s) + k] = t[k]
OBVIOUS

LEMMA SeqOfMore == ASSUME NEW S, NEW T, NEW s \in Seq(S), S \subseteq T PROVE s \in Seq(T)
OBVIOUS

\* Some set has all parts.
LEMMA OneSet == \E S :
  /\ AccountParts \in Seq(S)
  /\ PaymentParts \in Seq(S)
  /\ ClusterParts \in Seq(S)
  /\ ChannelParts \in Seq(S)
  /\ InferenceParts \in Seq(S)
  /\ LoopParts \in Seq(S)
  /\ ServerParts \in Seq(S)
  /\ StorageParts \in Seq(S)
  /\ BuildParts \in Seq(S)
  /\ ImageParts \in Seq(S)
  /\ EdgeParts \in Seq(S)
<1>1. PICK S1 : AccountParts \in Seq(S1)
  BY AccountPartsAre DEF IsList
<1>2. PICK S2 : PaymentParts \in Seq(S2)
  BY PaymentPartsAre DEF IsList
<1>3. PICK S3 : ClusterParts \in Seq(S3)
  BY ClusterPartsAre DEF IsList
<1>4. PICK S4 : ChannelParts \in Seq(S4)
  BY ChannelPartsAre DEF IsList
<1>5. PICK S5 : InferenceParts \in Seq(S5)
  BY InferencePartsAre DEF IsList
<1>6. PICK S6 : LoopParts \in Seq(S6)
  BY LoopPartsAre DEF IsList
<1>7. PICK S7 : ServerParts \in Seq(S7)
  BY ServerPartsAre DEF IsList
<1>8. PICK S8 : StorageParts \in Seq(S8)
  BY StoragePartsAre DEF IsList
<1>9. PICK S9 : BuildParts \in Seq(S9)
  BY BuildPartsAre DEF IsList
<1>10. PICK S10 : ImageParts \in Seq(S10)
  BY ImagePartsAre DEF IsList
<1>11. PICK S11 : EdgeParts \in Seq(S11)
  BY EdgePartsAre DEF IsList
<1> DEFINE S == UNION {S1, S2, S3, S4, S5, S6, S7, S8, S9, S10, S11}
<1>12. S1 \subseteq S /\ S2 \subseteq S /\ S3 \subseteq S /\ S4 \subseteq S /\ S5 \subseteq S /\ S6 \subseteq S /\ S7 \subseteq S /\ S8 \subseteq S /\ S9 \subseteq S /\ S10 \subseteq S /\ S11 \subseteq S
  OBVIOUS
<1> HIDE DEF S
<1>13. AccountParts \in Seq(S)
  BY <1>1, <1>12, SeqOfMore
<1>14. PaymentParts \in Seq(S)
  BY <1>2, <1>12, SeqOfMore
<1>15. ClusterParts \in Seq(S)
  BY <1>3, <1>12, SeqOfMore
<1>16. ChannelParts \in Seq(S)
  BY <1>4, <1>12, SeqOfMore
<1>17. InferenceParts \in Seq(S)
  BY <1>5, <1>12, SeqOfMore
<1>18. LoopParts \in Seq(S)
  BY <1>6, <1>12, SeqOfMore
<1>19. ServerParts \in Seq(S)
  BY <1>7, <1>12, SeqOfMore
<1>20. StorageParts \in Seq(S)
  BY <1>8, <1>12, SeqOfMore
<1>21. BuildParts \in Seq(S)
  BY <1>9, <1>12, SeqOfMore
<1>22. ImageParts \in Seq(S)
  BY <1>10, <1>12, SeqOfMore
<1>23. EdgeParts \in Seq(S)
  BY <1>11, <1>12, SeqOfMore
<1> QED BY <1>13, <1>14, <1>15, <1>16, <1>17, <1>18, <1>19, <1>20, <1>21, <1>22, <1>23

\* Where in the order each list of parts is.
LEMMA OrderIs ==
  /\ Len(BuildOrder) = 64
  /\ \A k \in 1 .. 8 : BuildOrder[k] = AccountParts[k]
  /\ \A k \in 1 .. 7 : BuildOrder[8 + k] = PaymentParts[k]
  /\ \A k \in 1 .. 5 : BuildOrder[15 + k] = ClusterParts[k]
  /\ \A k \in 1 .. 3 : BuildOrder[20 + k] = ChannelParts[k]
  /\ \A k \in 1 .. 7 : BuildOrder[23 + k] = InferenceParts[k]
  /\ \A k \in 1 .. 6 : BuildOrder[30 + k] = LoopParts[k]
  /\ \A k \in 1 .. 6 : BuildOrder[36 + k] = ServerParts[k]
  /\ \A k \in 1 .. 6 : BuildOrder[42 + k] = StorageParts[k]
  /\ \A k \in 1 .. 6 : BuildOrder[48 + k] = BuildParts[k]
  /\ \A k \in 1 .. 3 : BuildOrder[54 + k] = ImageParts[k]
  /\ \A k \in 1 .. 7 : BuildOrder[57 + k] = EdgeParts[k]
<1>0. PICK S :
         /\ AccountParts \in Seq(S)
         /\ PaymentParts \in Seq(S)
         /\ ClusterParts \in Seq(S)
         /\ ChannelParts \in Seq(S)
         /\ InferenceParts \in Seq(S)
         /\ LoopParts \in Seq(S)
         /\ ServerParts \in Seq(S)
         /\ StorageParts \in Seq(S)
         /\ BuildParts \in Seq(S)
         /\ ImageParts \in Seq(S)
         /\ EdgeParts \in Seq(S)
  BY OneSet
<1> DEFINE O1 == AccountParts
           O2 == O1 \o PaymentParts
           O3 == O2 \o ClusterParts
           O4 == O3 \o ChannelParts
           O5 == O4 \o InferenceParts
           O6 == O5 \o LoopParts
           O7 == O6 \o ServerParts
           O8 == O7 \o StorageParts
           O9 == O8 \o BuildParts
           O10 == O9 \o ImageParts
           O11 == O10 \o EdgeParts
<1>1. O1 \in Seq(S)
  BY <1>0
<1>2. Len(O1) = 8
  BY AccountPartsAre
<1>3. O2 \in Seq(S)
  BY <1>0, <1>1, Joined
<1>4. /\ Len(O2) = 15
      /\ \A k \in 1 .. 8 : O2[k] = O1[k]
      /\ \A k \in 1 .. 7 : O2[8 + k] = PaymentParts[k]
  <2> HIDE DEF O1
  <2>1. /\ Len(O2) = Len(O1) + Len(PaymentParts)
        /\ \A k \in 1 .. Len(O1) : O2[k] = O1[k]
        /\ \A k \in 1 .. Len(PaymentParts) : O2[Len(O1) + k] = PaymentParts[k]
    BY <1>0, <1>1, Joined
  <2>2. Len(O1) = 8 /\ Len(PaymentParts) = 7
    BY <1>2, PaymentPartsAre
  <2> HIDE DEF O2
  <2> QED BY <2>1, <2>2
<1>5. O3 \in Seq(S)
  BY <1>0, <1>3, Joined
<1>6. /\ Len(O3) = 20
      /\ \A k \in 1 .. 15 : O3[k] = O2[k]
      /\ \A k \in 1 .. 5 : O3[15 + k] = ClusterParts[k]
  <2> HIDE DEF O2
  <2>1. /\ Len(O3) = Len(O2) + Len(ClusterParts)
        /\ \A k \in 1 .. Len(O2) : O3[k] = O2[k]
        /\ \A k \in 1 .. Len(ClusterParts) : O3[Len(O2) + k] = ClusterParts[k]
    BY <1>0, <1>3, Joined
  <2>2. Len(O2) = 15 /\ Len(ClusterParts) = 5
    BY <1>4, ClusterPartsAre
  <2> HIDE DEF O3
  <2> QED BY <2>1, <2>2
<1>7. O4 \in Seq(S)
  BY <1>0, <1>5, Joined
<1>8. /\ Len(O4) = 23
      /\ \A k \in 1 .. 20 : O4[k] = O3[k]
      /\ \A k \in 1 .. 3 : O4[20 + k] = ChannelParts[k]
  <2> HIDE DEF O3
  <2>1. /\ Len(O4) = Len(O3) + Len(ChannelParts)
        /\ \A k \in 1 .. Len(O3) : O4[k] = O3[k]
        /\ \A k \in 1 .. Len(ChannelParts) : O4[Len(O3) + k] = ChannelParts[k]
    BY <1>0, <1>5, Joined
  <2>2. Len(O3) = 20 /\ Len(ChannelParts) = 3
    BY <1>6, ChannelPartsAre
  <2> HIDE DEF O4
  <2> QED BY <2>1, <2>2
<1>9. O5 \in Seq(S)
  BY <1>0, <1>7, Joined
<1>10. /\ Len(O5) = 30
       /\ \A k \in 1 .. 23 : O5[k] = O4[k]
       /\ \A k \in 1 .. 7 : O5[23 + k] = InferenceParts[k]
  <2> HIDE DEF O4
  <2>1. /\ Len(O5) = Len(O4) + Len(InferenceParts)
        /\ \A k \in 1 .. Len(O4) : O5[k] = O4[k]
        /\ \A k \in 1 .. Len(InferenceParts) : O5[Len(O4) + k] = InferenceParts[k]
    BY <1>0, <1>7, Joined
  <2>2. Len(O4) = 23 /\ Len(InferenceParts) = 7
    BY <1>8, InferencePartsAre
  <2> HIDE DEF O5
  <2> QED BY <2>1, <2>2
<1>11. O6 \in Seq(S)
  BY <1>0, <1>9, Joined
<1>12. /\ Len(O6) = 36
       /\ \A k \in 1 .. 30 : O6[k] = O5[k]
       /\ \A k \in 1 .. 6 : O6[30 + k] = LoopParts[k]
  <2> HIDE DEF O5
  <2>1. /\ Len(O6) = Len(O5) + Len(LoopParts)
        /\ \A k \in 1 .. Len(O5) : O6[k] = O5[k]
        /\ \A k \in 1 .. Len(LoopParts) : O6[Len(O5) + k] = LoopParts[k]
    BY <1>0, <1>9, Joined
  <2>2. Len(O5) = 30 /\ Len(LoopParts) = 6
    BY <1>10, LoopPartsAre
  <2> HIDE DEF O6
  <2> QED BY <2>1, <2>2
<1>13. O7 \in Seq(S)
  BY <1>0, <1>11, Joined
<1>14. /\ Len(O7) = 42
       /\ \A k \in 1 .. 36 : O7[k] = O6[k]
       /\ \A k \in 1 .. 6 : O7[36 + k] = ServerParts[k]
  <2> HIDE DEF O6
  <2>1. /\ Len(O7) = Len(O6) + Len(ServerParts)
        /\ \A k \in 1 .. Len(O6) : O7[k] = O6[k]
        /\ \A k \in 1 .. Len(ServerParts) : O7[Len(O6) + k] = ServerParts[k]
    BY <1>0, <1>11, Joined
  <2>2. Len(O6) = 36 /\ Len(ServerParts) = 6
    BY <1>12, ServerPartsAre
  <2> HIDE DEF O7
  <2> QED BY <2>1, <2>2
<1>15. O8 \in Seq(S)
  BY <1>0, <1>13, Joined
<1>16. /\ Len(O8) = 48
       /\ \A k \in 1 .. 42 : O8[k] = O7[k]
       /\ \A k \in 1 .. 6 : O8[42 + k] = StorageParts[k]
  <2> HIDE DEF O7
  <2>1. /\ Len(O8) = Len(O7) + Len(StorageParts)
        /\ \A k \in 1 .. Len(O7) : O8[k] = O7[k]
        /\ \A k \in 1 .. Len(StorageParts) : O8[Len(O7) + k] = StorageParts[k]
    BY <1>0, <1>13, Joined
  <2>2. Len(O7) = 42 /\ Len(StorageParts) = 6
    BY <1>14, StoragePartsAre
  <2> HIDE DEF O8
  <2> QED BY <2>1, <2>2
<1>17. O9 \in Seq(S)
  BY <1>0, <1>15, Joined
<1>18. /\ Len(O9) = 54
       /\ \A k \in 1 .. 48 : O9[k] = O8[k]
       /\ \A k \in 1 .. 6 : O9[48 + k] = BuildParts[k]
  <2> HIDE DEF O8
  <2>1. /\ Len(O9) = Len(O8) + Len(BuildParts)
        /\ \A k \in 1 .. Len(O8) : O9[k] = O8[k]
        /\ \A k \in 1 .. Len(BuildParts) : O9[Len(O8) + k] = BuildParts[k]
    BY <1>0, <1>15, Joined
  <2>2. Len(O8) = 48 /\ Len(BuildParts) = 6
    BY <1>16, BuildPartsAre
  <2> HIDE DEF O9
  <2> QED BY <2>1, <2>2
<1>19. O10 \in Seq(S)
  BY <1>0, <1>17, Joined
<1>20. /\ Len(O10) = 57
       /\ \A k \in 1 .. 54 : O10[k] = O9[k]
       /\ \A k \in 1 .. 3 : O10[54 + k] = ImageParts[k]
  <2> HIDE DEF O9
  <2>1. /\ Len(O10) = Len(O9) + Len(ImageParts)
        /\ \A k \in 1 .. Len(O9) : O10[k] = O9[k]
        /\ \A k \in 1 .. Len(ImageParts) : O10[Len(O9) + k] = ImageParts[k]
    BY <1>0, <1>17, Joined
  <2>2. Len(O9) = 54 /\ Len(ImageParts) = 3
    BY <1>18, ImagePartsAre
  <2> HIDE DEF O10
  <2> QED BY <2>1, <2>2
<1>21. O11 \in Seq(S)
  BY <1>0, <1>19, Joined
<1>22. /\ Len(O11) = 64
       /\ \A k \in 1 .. 57 : O11[k] = O10[k]
       /\ \A k \in 1 .. 7 : O11[57 + k] = EdgeParts[k]
  <2> HIDE DEF O10
  <2>1. /\ Len(O11) = Len(O10) + Len(EdgeParts)
        /\ \A k \in 1 .. Len(O10) : O11[k] = O10[k]
        /\ \A k \in 1 .. Len(EdgeParts) : O11[Len(O10) + k] = EdgeParts[k]
    BY <1>0, <1>19, Joined
  <2>2. Len(O10) = 57 /\ Len(EdgeParts) = 7
    BY <1>20, EdgePartsAre
  <2> HIDE DEF O11
  <2> QED BY <2>1, <2>2
<1>23. BuildOrder = O11
  BY DEF BuildOrder
<1> HIDE DEF O2, O3, O4, O5, O6, O7, O8, O9, O10, O11
<1> QED BY <1>2, <1>4, <1>6, <1>8, <1>10, <1>12, <1>14, <1>16, <1>18, <1>20, <1>22, <1>23

\* The parts that others of them wait for are where they are in the order,
\* and what a part with handlers needs.
AtPlace(n, p) ==
  /\ p.name = "database" => n = 1
  /\ p.name = "auth" => n = 2
  /\ p.name = "billing" => n = 3
  /\ p.name = "collector" => n = 6
  /\ p.name = "catalog" => n = 15
  /\ p.name = "store" => n = 20
  /\ p.name = "gateway" => n = 24
  /\ p.name = "enforcer" => n = 35
  /\ p.name = "held_disks" => n = 36
  /\ p.name = "objects" => n = 43
Needing(p) ==
  /\ p.name = "auth" => p.needs = {"database"}
  /\ p.name = "billing" => p.needs = {"database", "auth"}
  /\ p.name = "nodes" => p.needs = {"database"}
  /\ p.name = "registry" => p.needs = {"database", "auth", "kubernetes"}
  /\ p.name = "store" => p.needs = {"database"}
  /\ p.name = "gateway" => p.needs = {"catalog"}
  /\ p.name = "inference" => p.needs = {"gateway"}
  /\ p.name = "model_cache" => p.needs = {"agents", "nodes", "gateway"}
  /\ p.name = "objects" => p.needs = {"database"}
  /\ p.name = "event_tickets" => p.needs = {"build"}
  /\ p.name = "admin" => p.needs = {"billing"}
  /\ p.name = "webhook" => p.needs = {"stripe", "billing"}
  /\ p.name = "proxy" => p.needs = {"agents", "store"}
  /\ p.name = "exec" => p.needs = {"agents", "store"}
  /\ p.name = "events" => p.needs = {"event_tickets"}

LEMMA AccountPartsPlaced == \A k \in 1 .. 8 : AtPlace(0 + k, AccountParts[k]) /\ Needing(AccountParts[k])
<1>1. /\ AccountParts[1].name = "database" /\ AccountParts[1].needs = {}
      /\ AccountParts[2].name = "auth" /\ AccountParts[2].needs = {"database"}
      /\ AccountParts[3].name = "billing" /\ AccountParts[3].needs = {"database", "auth"}
      /\ AccountParts[4].name = "invoice_files" /\ AccountParts[4].needs = {"billing"}
      /\ AccountParts[5].name = "stripe" /\ AccountParts[5].needs = {"billing"}
      /\ AccountParts[6].name = "collector" /\ AccountParts[6].needs = {"billing"}
      /\ AccountParts[7].name = "expirer" /\ AccountParts[7].needs = {"billing"}
      /\ AccountParts[8].name = "alerter" /\ AccountParts[8].needs = {"billing"}
  BY PartFields DEF AccountParts
<1>2. AtPlace(1, AccountParts[1]) /\ Needing(AccountParts[1])
  BY <1>1 DEF AtPlace, Needing
<1>3. AtPlace(2, AccountParts[2]) /\ Needing(AccountParts[2])
  BY <1>1 DEF AtPlace, Needing
<1>4. AtPlace(3, AccountParts[3]) /\ Needing(AccountParts[3])
  BY <1>1 DEF AtPlace, Needing
<1>5. AtPlace(4, AccountParts[4]) /\ Needing(AccountParts[4])
  BY <1>1 DEF AtPlace, Needing
<1>6. AtPlace(5, AccountParts[5]) /\ Needing(AccountParts[5])
  BY <1>1 DEF AtPlace, Needing
<1>7. AtPlace(6, AccountParts[6]) /\ Needing(AccountParts[6])
  BY <1>1 DEF AtPlace, Needing
<1>8. AtPlace(7, AccountParts[7]) /\ Needing(AccountParts[7])
  BY <1>1 DEF AtPlace, Needing
<1>9. AtPlace(8, AccountParts[8]) /\ Needing(AccountParts[8])
  BY <1>1 DEF AtPlace, Needing
<1> QED BY <1>2, <1>3, <1>4, <1>5, <1>6, <1>7, <1>8, <1>9

LEMMA PaymentPartsPlaced == \A k \in 1 .. 7 : AtPlace(8 + k, PaymentParts[k]) /\ Needing(PaymentParts[k])
<1>1. /\ PaymentParts[1].name = "mailer" /\ PaymentParts[1].needs = {"billing"}
      /\ PaymentParts[2].name = "recharger" /\ PaymentParts[2].needs = {"mailer"}
      /\ PaymentParts[3].name = "crypto_watcher" /\ PaymentParts[3].needs = {"billing"}
      /\ PaymentParts[4].name = "nodes" /\ PaymentParts[4].needs = {"database"}
      /\ PaymentParts[5].name = "stale_sweep" /\ PaymentParts[5].needs = {"nodes"}
      /\ PaymentParts[6].name = "metrics_retention" /\ PaymentParts[6].needs = {"nodes"}
      /\ PaymentParts[7].name = "catalog" /\ PaymentParts[7].needs = {"database"}
  BY PartFields DEF PaymentParts
<1>2. AtPlace(9, PaymentParts[1]) /\ Needing(PaymentParts[1])
  BY <1>1 DEF AtPlace, Needing
<1>3. AtPlace(10, PaymentParts[2]) /\ Needing(PaymentParts[2])
  BY <1>1 DEF AtPlace, Needing
<1>4. AtPlace(11, PaymentParts[3]) /\ Needing(PaymentParts[3])
  BY <1>1 DEF AtPlace, Needing
<1>5. AtPlace(12, PaymentParts[4]) /\ Needing(PaymentParts[4])
  BY <1>1 DEF AtPlace, Needing
<1>6. AtPlace(13, PaymentParts[5]) /\ Needing(PaymentParts[5])
  BY <1>1 DEF AtPlace, Needing
<1>7. AtPlace(14, PaymentParts[6]) /\ Needing(PaymentParts[6])
  BY <1>1 DEF AtPlace, Needing
<1>8. AtPlace(15, PaymentParts[7]) /\ Needing(PaymentParts[7])
  BY <1>1 DEF AtPlace, Needing
<1> QED BY <1>2, <1>3, <1>4, <1>5, <1>6, <1>7, <1>8

LEMMA ClusterPartsPlaced == \A k \in 1 .. 5 : AtPlace(15 + k, ClusterParts[k]) /\ Needing(ClusterParts[k])
<1>1. /\ ClusterParts[1].name = "kubernetes" /\ ClusterParts[1].needs = {}
      /\ ClusterParts[2].name = "registry" /\ ClusterParts[2].needs = {"database", "auth", "kubernetes"}
      /\ ClusterParts[3].name = "networking" /\ ClusterParts[3].needs = {"kubernetes"}
      /\ ClusterParts[4].name = "limiter" /\ ClusterParts[4].needs = {}
      /\ ClusterParts[5].name = "store" /\ ClusterParts[5].needs = {"database"}
  BY PartFields DEF ClusterParts
<1>2. AtPlace(16, ClusterParts[1]) /\ Needing(ClusterParts[1])
  BY <1>1 DEF AtPlace, Needing
<1>3. AtPlace(17, ClusterParts[2]) /\ Needing(ClusterParts[2])
  BY <1>1 DEF AtPlace, Needing
<1>4. AtPlace(18, ClusterParts[3]) /\ Needing(ClusterParts[3])
  BY <1>1 DEF AtPlace, Needing
<1>5. AtPlace(19, ClusterParts[4]) /\ Needing(ClusterParts[4])
  BY <1>1 DEF AtPlace, Needing
<1>6. AtPlace(20, ClusterParts[5]) /\ Needing(ClusterParts[5])
  BY <1>1 DEF AtPlace, Needing
<1> QED BY <1>2, <1>3, <1>4, <1>5, <1>6

LEMMA ChannelPartsPlaced == \A k \in 1 .. 3 : AtPlace(20 + k, ChannelParts[k]) /\ Needing(ChannelParts[k])
<1>1. /\ ChannelParts[1].name = "agents" /\ ChannelParts[1].needs = {}
      /\ ChannelParts[2].name = "node_credentials" /\ ChannelParts[2].needs = {"agents", "nodes"}
      /\ ChannelParts[3].name = "direct" /\ ChannelParts[3].needs = {"kubernetes"}
  BY PartFields DEF ChannelParts
<1>2. AtPlace(21, ChannelParts[1]) /\ Needing(ChannelParts[1])
  BY <1>1 DEF AtPlace, Needing
<1>3. AtPlace(22, ChannelParts[2]) /\ Needing(ChannelParts[2])
  BY <1>1 DEF AtPlace, Needing
<1>4. AtPlace(23, ChannelParts[3]) /\ Needing(ChannelParts[3])
  BY <1>1 DEF AtPlace, Needing
<1> QED BY <1>2, <1>3, <1>4

LEMMA InferencePartsPlaced == \A k \in 1 .. 7 : AtPlace(23 + k, InferenceParts[k]) /\ Needing(InferenceParts[k])
<1>1. /\ InferenceParts[1].name = "gateway" /\ InferenceParts[1].needs = {"catalog"}
      /\ InferenceParts[2].name = "tunnel" /\ InferenceParts[2].needs = {"gateway", "agents"}
      /\ InferenceParts[3].name = "probes" /\ InferenceParts[3].needs = {"gateway"}
      /\ InferenceParts[4].name = "health_checks" /\ InferenceParts[4].needs = {"gateway"}
      /\ InferenceParts[5].name = "inference" /\ InferenceParts[5].needs = {"gateway"}
      /\ InferenceParts[6].name = "model_cache" /\ InferenceParts[6].needs = {"agents", "nodes", "gateway"}
      /\ InferenceParts[7].name = "inference_reconciler" /\ InferenceParts[7].needs = {"catalog", "nodes"}
  BY PartFields DEF InferenceParts
<1>2. AtPlace(24, InferenceParts[1]) /\ Needing(InferenceParts[1])
  BY <1>1 DEF AtPlace, Needing
<1>3. AtPlace(25, InferenceParts[2]) /\ Needing(InferenceParts[2])
  BY <1>1 DEF AtPlace, Needing
<1>4. AtPlace(26, InferenceParts[3]) /\ Needing(InferenceParts[3])
  BY <1>1 DEF AtPlace, Needing
<1>5. AtPlace(27, InferenceParts[4]) /\ Needing(InferenceParts[4])
  BY <1>1 DEF AtPlace, Needing
<1>6. AtPlace(28, InferenceParts[5]) /\ Needing(InferenceParts[5])
  BY <1>1 DEF AtPlace, Needing
<1>7. AtPlace(29, InferenceParts[6]) /\ Needing(InferenceParts[6])
  BY <1>1 DEF AtPlace, Needing
<1>8. AtPlace(30, InferenceParts[7]) /\ Needing(InferenceParts[7])
  BY <1>1 DEF AtPlace, Needing
<1> QED BY <1>2, <1>3, <1>4, <1>5, <1>6, <1>7, <1>8

LEMMA LoopPartsPlaced == \A k \in 1 .. 6 : AtPlace(30 + k, LoopParts[k]) /\ Needing(LoopParts[k])
<1>1. /\ LoopParts[1].name = "allocator" /\ LoopParts[1].needs = {}
      /\ LoopParts[2].name = "status_page" /\ LoopParts[2].needs = {}
      /\ LoopParts[3].name = "reconciler" /\ LoopParts[3].needs = {"store"}
      /\ LoopParts[4].name = "retention" /\ LoopParts[4].needs = {"store"}
      /\ LoopParts[5].name = "enforcer" /\ LoopParts[5].needs = {"billing", "store", "collector"}
      /\ LoopParts[6].name = "held_disks" /\ LoopParts[6].needs = {"enforcer"}
  BY PartFields DEF LoopParts
<1>2. AtPlace(31, LoopParts[1]) /\ Needing(LoopParts[1])
  BY <1>1 DEF AtPlace, Needing
<1>3. AtPlace(32, LoopParts[2]) /\ Needing(LoopParts[2])
  BY <1>1 DEF AtPlace, Needing
<1>4. AtPlace(33, LoopParts[3]) /\ Needing(LoopParts[3])
  BY <1>1 DEF AtPlace, Needing
<1>5. AtPlace(34, LoopParts[4]) /\ Needing(LoopParts[4])
  BY <1>1 DEF AtPlace, Needing
<1>6. AtPlace(35, LoopParts[5]) /\ Needing(LoopParts[5])
  BY <1>1 DEF AtPlace, Needing
<1>7. AtPlace(36, LoopParts[6]) /\ Needing(LoopParts[6])
  BY <1>1 DEF AtPlace, Needing
<1> QED BY <1>2, <1>3, <1>4, <1>5, <1>6, <1>7

LEMMA ServerPartsPlaced == \A k \in 1 .. 6 : AtPlace(36 + k, ServerParts[k]) /\ Needing(ServerParts[k])
<1>1. /\ ServerParts[1].name = "provision_gate" /\ ServerParts[1].needs = {"billing"}
      /\ ServerParts[2].name = "placer" /\ ServerParts[2].needs = {"nodes"}
      /\ ServerParts[3].name = "vault" /\ ServerParts[3].needs = {}
      /\ ServerParts[4].name = "credit_guard" /\ ServerParts[4].needs = {"billing"}
      /\ ServerParts[5].name = "hidden_workloads" /\ ServerParts[5].needs = {"nodes"}
      /\ ServerParts[6].name = "project_policy" /\ ServerParts[6].needs = {"auth"}
  BY PartFields DEF ServerParts
<1>2. AtPlace(37, ServerParts[1]) /\ Needing(ServerParts[1])
  BY <1>1 DEF AtPlace, Needing
<1>3. AtPlace(38, ServerParts[2]) /\ Needing(ServerParts[2])
  BY <1>1 DEF AtPlace, Needing
<1>4. AtPlace(39, ServerParts[3]) /\ Needing(ServerParts[3])
  BY <1>1 DEF AtPlace, Needing
<1>5. AtPlace(40, ServerParts[4]) /\ Needing(ServerParts[4])
  BY <1>1 DEF AtPlace, Needing
<1>6. AtPlace(41, ServerParts[5]) /\ Needing(ServerParts[5])
  BY <1>1 DEF AtPlace, Needing
<1>7. AtPlace(42, ServerParts[6]) /\ Needing(ServerParts[6])
  BY <1>1 DEF AtPlace, Needing
<1> QED BY <1>2, <1>3, <1>4, <1>5, <1>6, <1>7

LEMMA StoragePartsPlaced == \A k \in 1 .. 6 : AtPlace(42 + k, StorageParts[k]) /\ Needing(StorageParts[k])
<1>1. /\ StorageParts[1].name = "objects" /\ StorageParts[1].needs = {"database"}
      /\ StorageParts[2].name = "signer" /\ StorageParts[2].needs = {"objects"}
      /\ StorageParts[3].name = "attachments" /\ StorageParts[3].needs = {"objects"}
      /\ StorageParts[4].name = "storage_meter" /\ StorageParts[4].needs = {"objects", "billing"}
      /\ StorageParts[5].name = "egress" /\ StorageParts[5].needs = {"objects", "billing"}
      /\ StorageParts[6].name = "holds" /\ StorageParts[6].needs = {"billing", "held_disks"}
  BY PartFields DEF StorageParts
<1>2. AtPlace(43, StorageParts[1]) /\ Needing(StorageParts[1])
  BY <1>1 DEF AtPlace, Needing
<1>3. AtPlace(44, StorageParts[2]) /\ Needing(StorageParts[2])
  BY <1>1 DEF AtPlace, Needing
<1>4. AtPlace(45, StorageParts[3]) /\ Needing(StorageParts[3])
  BY <1>1 DEF AtPlace, Needing
<1>5. AtPlace(46, StorageParts[4]) /\ Needing(StorageParts[4])
  BY <1>1 DEF AtPlace, Needing
<1>6. AtPlace(47, StorageParts[5]) /\ Needing(StorageParts[5])
  BY <1>1 DEF AtPlace, Needing
<1>7. AtPlace(48, StorageParts[6]) /\ Needing(StorageParts[6])
  BY <1>1 DEF AtPlace, Needing
<1> QED BY <1>2, <1>3, <1>4, <1>5, <1>6, <1>7

LEMMA BuildPartsPlaced == \A k \in 1 .. 6 : AtPlace(48 + k, BuildParts[k]) /\ Needing(BuildParts[k])
<1>1. /\ BuildParts[1].name = "build" /\ BuildParts[1].needs = {"billing", "gateway"}
      /\ BuildParts[2].name = "secrets" /\ BuildParts[2].needs = {"build"}
      /\ BuildParts[3].name = "build_capacity" /\ BuildParts[3].needs = {"build", "nodes"}
      /\ BuildParts[4].name = "session_checker" /\ BuildParts[4].needs = {"build", "auth"}
      /\ BuildParts[5].name = "agent_pods" /\ BuildParts[5].needs = {"build"}
      /\ BuildParts[6].name = "event_tickets" /\ BuildParts[6].needs = {"build"}
  BY PartFields DEF BuildParts
<1>2. AtPlace(49, BuildParts[1]) /\ Needing(BuildParts[1])
  BY <1>1 DEF AtPlace, Needing
<1>3. AtPlace(50, BuildParts[2]) /\ Needing(BuildParts[2])
  BY <1>1 DEF AtPlace, Needing
<1>4. AtPlace(51, BuildParts[3]) /\ Needing(BuildParts[3])
  BY <1>1 DEF AtPlace, Needing
<1>5. AtPlace(52, BuildParts[4]) /\ Needing(BuildParts[4])
  BY <1>1 DEF AtPlace, Needing
<1>6. AtPlace(53, BuildParts[5]) /\ Needing(BuildParts[5])
  BY <1>1 DEF AtPlace, Needing
<1>7. AtPlace(54, BuildParts[6]) /\ Needing(BuildParts[6])
  BY <1>1 DEF AtPlace, Needing
<1> QED BY <1>2, <1>3, <1>4, <1>5, <1>6, <1>7

LEMMA ImagePartsPlaced == \A k \in 1 .. 3 : AtPlace(54 + k, ImageParts[k]) /\ Needing(ImageParts[k])
<1>1. /\ ImageParts[1].name = "harbor_builder" /\ ImageParts[1].needs = {"build", "registry"}
      /\ ImageParts[2].name = "ecr_builder" /\ ImageParts[2].needs = {"build"}
      /\ ImageParts[3].name = "github" /\ ImageParts[3].needs = {"build"}
  BY PartFields DEF ImageParts
<1>2. AtPlace(55, ImageParts[1]) /\ Needing(ImageParts[1])
  BY <1>1 DEF AtPlace, Needing
<1>3. AtPlace(56, ImageParts[2]) /\ Needing(ImageParts[2])
  BY <1>1 DEF AtPlace, Needing
<1>4. AtPlace(57, ImageParts[3]) /\ Needing(ImageParts[3])
  BY <1>1 DEF AtPlace, Needing
<1> QED BY <1>2, <1>3, <1>4

LEMMA EdgePartsPlaced == \A k \in 1 .. 7 : AtPlace(57 + k, EdgeParts[k]) /\ Needing(EdgeParts[k])
<1>1. /\ EdgeParts[1].name = "admin" /\ EdgeParts[1].needs = {"billing"}
      /\ EdgeParts[2].name = "webhook" /\ EdgeParts[2].needs = {"stripe", "billing"}
      /\ EdgeParts[3].name = "proxy" /\ EdgeParts[3].needs = {"agents", "store"}
      /\ EdgeParts[4].name = "exec" /\ EdgeParts[4].needs = {"agents", "store"}
      /\ EdgeParts[5].name = "events" /\ EdgeParts[5].needs = {"event_tickets"}
      /\ EdgeParts[6].name = "recorder" /\ EdgeParts[6].needs = {"events"}
      /\ EdgeParts[7].name = "registry_sync" /\ EdgeParts[7].needs = {"agents"}
  BY PartFields DEF EdgeParts
<1>2. AtPlace(58, EdgeParts[1]) /\ Needing(EdgeParts[1])
  BY <1>1 DEF AtPlace, Needing
<1>3. AtPlace(59, EdgeParts[2]) /\ Needing(EdgeParts[2])
  BY <1>1 DEF AtPlace, Needing
<1>4. AtPlace(60, EdgeParts[3]) /\ Needing(EdgeParts[3])
  BY <1>1 DEF AtPlace, Needing
<1>5. AtPlace(61, EdgeParts[4]) /\ Needing(EdgeParts[4])
  BY <1>1 DEF AtPlace, Needing
<1>6. AtPlace(62, EdgeParts[5]) /\ Needing(EdgeParts[5])
  BY <1>1 DEF AtPlace, Needing
<1>7. AtPlace(63, EdgeParts[6]) /\ Needing(EdgeParts[6])
  BY <1>1 DEF AtPlace, Needing
<1>8. AtPlace(64, EdgeParts[7]) /\ Needing(EdgeParts[7])
  BY <1>1 DEF AtPlace, Needing
<1> QED BY <1>2, <1>3, <1>4, <1>5, <1>6, <1>7, <1>8

LEMMA AllPlaced == \A n \in 1 .. 64 : AtPlace(n, BuildOrder[n]) /\ Needing(BuildOrder[n])
<1> SUFFICES ASSUME NEW n \in 1 .. 64 PROVE AtPlace(n, BuildOrder[n]) /\ Needing(BuildOrder[n])
  OBVIOUS
<1>1. CASE n \in 1 .. 8
  <2>1. n - 0 \in 1 .. 8 /\ n = 0 + (n - 0)
    BY <1>1
  <2> QED BY <2>1, OrderIs, AccountPartsPlaced
<1>2. CASE n \in 9 .. 15
  <2>1. n - 8 \in 1 .. 7 /\ n = 8 + (n - 8)
    BY <1>2
  <2> QED BY <2>1, OrderIs, PaymentPartsPlaced
<1>3. CASE n \in 16 .. 20
  <2>1. n - 15 \in 1 .. 5 /\ n = 15 + (n - 15)
    BY <1>3
  <2> QED BY <2>1, OrderIs, ClusterPartsPlaced
<1>4. CASE n \in 21 .. 23
  <2>1. n - 20 \in 1 .. 3 /\ n = 20 + (n - 20)
    BY <1>4
  <2> QED BY <2>1, OrderIs, ChannelPartsPlaced
<1>5. CASE n \in 24 .. 30
  <2>1. n - 23 \in 1 .. 7 /\ n = 23 + (n - 23)
    BY <1>5
  <2> QED BY <2>1, OrderIs, InferencePartsPlaced
<1>6. CASE n \in 31 .. 36
  <2>1. n - 30 \in 1 .. 6 /\ n = 30 + (n - 30)
    BY <1>6
  <2> QED BY <2>1, OrderIs, LoopPartsPlaced
<1>7. CASE n \in 37 .. 42
  <2>1. n - 36 \in 1 .. 6 /\ n = 36 + (n - 36)
    BY <1>7
  <2> QED BY <2>1, OrderIs, ServerPartsPlaced
<1>8. CASE n \in 43 .. 48
  <2>1. n - 42 \in 1 .. 6 /\ n = 42 + (n - 42)
    BY <1>8
  <2> QED BY <2>1, OrderIs, StoragePartsPlaced
<1>9. CASE n \in 49 .. 54
  <2>1. n - 48 \in 1 .. 6 /\ n = 48 + (n - 48)
    BY <1>9
  <2> QED BY <2>1, OrderIs, BuildPartsPlaced
<1>10. CASE n \in 55 .. 57
  <2>1. n - 54 \in 1 .. 3 /\ n = 54 + (n - 54)
    BY <1>10
  <2> QED BY <2>1, OrderIs, ImagePartsPlaced
<1>11. CASE n \in 58 .. 64
  <2>1. n - 57 \in 1 .. 7 /\ n = 57 + (n - 57)
    BY <1>11
  <2> QED BY <2>1, OrderIs, EdgePartsPlaced
<1> QED BY <1>1, <1>2, <1>3, <1>4, <1>5, <1>6, <1>7, <1>8, <1>9, <1>10, <1>11

\* The parts that must be there wherever what they need is.
Loops == {2, 3, 6, 15, 20, 24, 26, 33, 34, 35, 36, 37, 40, 46, 48}
LEMMA LoopsAre ==
  /\ BuildOrder[2] = Part("auth", {"database"}, {}, {"jwt"})
  /\ BuildOrder[3] = Part("billing", {"database", "auth"}, {}, {"taxes"})
  /\ BuildOrder[6] = Part("collector", {"billing"}, {}, {})
  /\ BuildOrder[15] = Part("catalog", {"database"}, {}, {})
  /\ BuildOrder[20] = Part("store", {"database"}, {}, {})
  /\ BuildOrder[24] = Part("gateway", {"catalog"}, {}, {})
  /\ BuildOrder[26] = Part("probes", {"gateway"}, {}, {})
  /\ BuildOrder[33] = Part("reconciler", {"store"}, {}, {})
  /\ BuildOrder[34] = Part("retention", {"store"}, {}, {})
  /\ BuildOrder[35] = Part("enforcer", {"billing", "store", "collector"}, {}, {"enforcement"})
  /\ BuildOrder[36] = Part("held_disks", {"enforcer"}, {}, {})
  /\ BuildOrder[37] = Part("provision_gate", {"billing"}, {}, {})
  /\ BuildOrder[40] = Part("credit_guard", {"billing"}, {}, {})
  /\ BuildOrder[46] = Part("storage_meter", {"objects", "billing"}, {}, {})
  /\ BuildOrder[48] = Part("holds", {"billing", "held_disks"}, {}, {"hold_mode"})
<1>1. BuildOrder[2] = AccountParts[2] /\ AccountParts[2] = Part("auth", {"database"}, {}, {"jwt"})
  <2>1. 2 \in 1 .. 8 /\ 2 = 0 + 2
    OBVIOUS
  <2> QED BY <2>1, OrderIs DEF AccountParts
<1>2. BuildOrder[3] = AccountParts[3] /\ AccountParts[3] = Part("billing", {"database", "auth"}, {}, {"taxes"})
  <2>1. 3 \in 1 .. 8 /\ 3 = 0 + 3
    OBVIOUS
  <2> QED BY <2>1, OrderIs DEF AccountParts
<1>3. BuildOrder[6] = AccountParts[6] /\ AccountParts[6] = Part("collector", {"billing"}, {}, {})
  <2>1. 6 \in 1 .. 8 /\ 6 = 0 + 6
    OBVIOUS
  <2> QED BY <2>1, OrderIs DEF AccountParts
<1>4. BuildOrder[15] = PaymentParts[7] /\ PaymentParts[7] = Part("catalog", {"database"}, {}, {})
  <2>1. 7 \in 1 .. 7 /\ 15 = 8 + 7
    OBVIOUS
  <2> QED BY <2>1, OrderIs DEF PaymentParts
<1>5. BuildOrder[20] = ClusterParts[5] /\ ClusterParts[5] = Part("store", {"database"}, {}, {})
  <2>1. 5 \in 1 .. 5 /\ 20 = 15 + 5
    OBVIOUS
  <2> QED BY <2>1, OrderIs DEF ClusterParts
<1>6. BuildOrder[24] = InferenceParts[1] /\ InferenceParts[1] = Part("gateway", {"catalog"}, {}, {})
  <2>1. 1 \in 1 .. 7 /\ 24 = 23 + 1
    OBVIOUS
  <2> QED BY <2>1, OrderIs DEF InferenceParts
<1>7. BuildOrder[26] = InferenceParts[3] /\ InferenceParts[3] = Part("probes", {"gateway"}, {}, {})
  <2>1. 3 \in 1 .. 7 /\ 26 = 23 + 3
    OBVIOUS
  <2> QED BY <2>1, OrderIs DEF InferenceParts
<1>8. BuildOrder[33] = LoopParts[3] /\ LoopParts[3] = Part("reconciler", {"store"}, {}, {})
  <2>1. 3 \in 1 .. 6 /\ 33 = 30 + 3
    OBVIOUS
  <2> QED BY <2>1, OrderIs DEF LoopParts
<1>9. BuildOrder[34] = LoopParts[4] /\ LoopParts[4] = Part("retention", {"store"}, {}, {})
  <2>1. 4 \in 1 .. 6 /\ 34 = 30 + 4
    OBVIOUS
  <2> QED BY <2>1, OrderIs DEF LoopParts
<1>10. BuildOrder[35] = LoopParts[5] /\ LoopParts[5] = Part("enforcer", {"billing", "store", "collector"}, {}, {"enforcement"})
  <2>1. 5 \in 1 .. 6 /\ 35 = 30 + 5
    OBVIOUS
  <2> QED BY <2>1, OrderIs DEF LoopParts
<1>11. BuildOrder[36] = LoopParts[6] /\ LoopParts[6] = Part("held_disks", {"enforcer"}, {}, {})
  <2>1. 6 \in 1 .. 6 /\ 36 = 30 + 6
    OBVIOUS
  <2> QED BY <2>1, OrderIs DEF LoopParts
<1>12. BuildOrder[37] = ServerParts[1] /\ ServerParts[1] = Part("provision_gate", {"billing"}, {}, {})
  <2>1. 1 \in 1 .. 6 /\ 37 = 36 + 1
    OBVIOUS
  <2> QED BY <2>1, OrderIs DEF ServerParts
<1>13. BuildOrder[40] = ServerParts[4] /\ ServerParts[4] = Part("credit_guard", {"billing"}, {}, {})
  <2>1. 4 \in 1 .. 6 /\ 40 = 36 + 4
    OBVIOUS
  <2> QED BY <2>1, OrderIs DEF ServerParts
<1>14. BuildOrder[46] = StorageParts[4] /\ StorageParts[4] = Part("storage_meter", {"objects", "billing"}, {}, {})
  <2>1. 4 \in 1 .. 6 /\ 46 = 42 + 4
    OBVIOUS
  <2> QED BY <2>1, OrderIs DEF StorageParts
<1>15. BuildOrder[48] = StorageParts[6] /\ StorageParts[6] = Part("holds", {"billing", "held_disks"}, {}, {"hold_mode"})
  <2>1. 6 \in 1 .. 6 /\ 48 = 42 + 6
    OBVIOUS
  <2> QED BY <2>1, OrderIs DEF StorageParts
<1> QED BY <1>1, <1>2, <1>3, <1>4, <1>5, <1>6, <1>7, <1>8, <1>9, <1>10, <1>11, <1>12, <1>13, <1>14, <1>15

\* They need no setting to be wanted, and only parts that come before them.
LEMMA LoopsSound ==
  ASSUME NEW n \in Loops
  PROVE  /\ BuildOrder[n].wants = {} /\ BuildOrder[n].name \notin DOMAIN Fallback
         /\ \A m \in n .. 64 : BuildOrder[m].name \notin BuildOrder[n].needs
<1>0. DOMAIN Fallback = {"direct", "ecr_builder"}
  BY DEF Fallback
<1>1. BuildOrder[n].wants = {} /\ BuildOrder[n].name \notin DOMAIN Fallback
  BY <1>0, LoopsAre, PartFields DEF Loops
<1>2. ASSUME NEW m \in n .. 64 PROVE BuildOrder[m].name \notin BuildOrder[n].needs
  <2>1. m \in 1 .. 64 /\ AtPlace(m, BuildOrder[m])
    BY AllPlaced DEF Loops
  <2>2. CASE n = 2
    <3>1. BuildOrder[n].needs = {"database"}
      BY <2>2, LoopsAre, PartFields
    <3> QED BY <2>1, <2>2, <3>1 DEF AtPlace
  <2>3. CASE n = 3
    <3>1. BuildOrder[n].needs = {"database", "auth"}
      BY <2>3, LoopsAre, PartFields
    <3> QED BY <2>1, <2>3, <3>1 DEF AtPlace
  <2>4. CASE n = 6
    <3>1. BuildOrder[n].needs = {"billing"}
      BY <2>4, LoopsAre, PartFields
    <3> QED BY <2>1, <2>4, <3>1 DEF AtPlace
  <2>5. CASE n = 15
    <3>1. BuildOrder[n].needs = {"database"}
      BY <2>5, LoopsAre, PartFields
    <3> QED BY <2>1, <2>5, <3>1 DEF AtPlace
  <2>6. CASE n = 20
    <3>1. BuildOrder[n].needs = {"database"}
      BY <2>6, LoopsAre, PartFields
    <3> QED BY <2>1, <2>6, <3>1 DEF AtPlace
  <2>7. CASE n = 24
    <3>1. BuildOrder[n].needs = {"catalog"}
      BY <2>7, LoopsAre, PartFields
    <3> QED BY <2>1, <2>7, <3>1 DEF AtPlace
  <2>8. CASE n = 26
    <3>1. BuildOrder[n].needs = {"gateway"}
      BY <2>8, LoopsAre, PartFields
    <3> QED BY <2>1, <2>8, <3>1 DEF AtPlace
  <2>9. CASE n = 33
    <3>1. BuildOrder[n].needs = {"store"}
      BY <2>9, LoopsAre, PartFields
    <3> QED BY <2>1, <2>9, <3>1 DEF AtPlace
  <2>10. CASE n = 34
    <3>1. BuildOrder[n].needs = {"store"}
      BY <2>10, LoopsAre, PartFields
    <3> QED BY <2>1, <2>10, <3>1 DEF AtPlace
  <2>11. CASE n = 35
    <3>1. BuildOrder[n].needs = {"billing", "store", "collector"}
      BY <2>11, LoopsAre, PartFields
    <3> QED BY <2>1, <2>11, <3>1 DEF AtPlace
  <2>12. CASE n = 36
    <3>1. BuildOrder[n].needs = {"enforcer"}
      BY <2>12, LoopsAre, PartFields
    <3> QED BY <2>1, <2>12, <3>1 DEF AtPlace
  <2>13. CASE n = 37
    <3>1. BuildOrder[n].needs = {"billing"}
      BY <2>13, LoopsAre, PartFields
    <3> QED BY <2>1, <2>13, <3>1 DEF AtPlace
  <2>14. CASE n = 40
    <3>1. BuildOrder[n].needs = {"billing"}
      BY <2>14, LoopsAre, PartFields
    <3> QED BY <2>1, <2>14, <3>1 DEF AtPlace
  <2>15. CASE n = 46
    <3>1. BuildOrder[n].needs = {"objects", "billing"}
      BY <2>15, LoopsAre, PartFields
    <3> QED BY <2>1, <2>15, <3>1 DEF AtPlace
  <2>16. CASE n = 48
    <3>1. BuildOrder[n].needs = {"billing", "held_disks"}
      BY <2>16, LoopsAre, PartFields
    <3> QED BY <2>1, <2>16, <3>1 DEF AtPlace
  <2> QED BY <2>2, <2>3, <2>4, <2>5, <2>6, <2>7, <2>8, <2>9, <2>10, <2>11, <2>12, <2>13, <2>14, <2>15, <2>16 DEF Loops
<1> QED BY <1>1, <1>2

\* What the process is like, and the invariant.
LifePhases == {"starting", "serving", "draining", "parting", "dead"}
PlaneTyped ==
  /\ plane = [settings |-> plane.settings, parts |-> plane.parts, next |-> plane.next,
              phase |-> plane.phase, open |-> plane.open, streams |-> plane.streams,
              closed |-> plane.closed]
  /\ plane.next \in Nat \ {0} /\ plane.phase \in LifePhases /\ plane.open \in Nat
  /\ plane.closed \in BOOLEAN

\* A part is not there without those it needs.
Grounded(parts) ==
  /\ "auth" \in parts => {"database"} \subseteq parts
  /\ "billing" \in parts => {"database", "auth"} \subseteq parts
  /\ "nodes" \in parts => {"database"} \subseteq parts
  /\ "registry" \in parts => {"database", "auth", "kubernetes"} \subseteq parts
  /\ "store" \in parts => {"database"} \subseteq parts
  /\ "gateway" \in parts => {"catalog"} \subseteq parts
  /\ "inference" \in parts => {"gateway"} \subseteq parts
  /\ "model_cache" \in parts => {"agents", "nodes", "gateway"} \subseteq parts
  /\ "objects" \in parts => {"database"} \subseteq parts
  /\ "event_tickets" \in parts => {"build"} \subseteq parts
  /\ "admin" \in parts => {"billing"} \subseteq parts
  /\ "webhook" \in parts => {"stripe", "billing"} \subseteq parts
  /\ "proxy" \in parts => {"agents", "store"} \subseteq parts
  /\ "exec" \in parts => {"agents", "store"} \subseteq parts
  /\ "events" \in parts => {"event_tickets"} \subseteq parts

\* A loop that has had its turn runs if what it needs is there.
Filled == \A n \in Loops :
  n < plane.next /\ BuildOrder[n].needs \subseteq plane.parts
    => BuildOrder[n].name \in plane.parts

PlaneInv ==
  /\ PlaneTyped /\ Grounded(plane.parts) /\ Filled
  /\ plane.phase \notin {"starting", "dead"} => plane.next > 64
  /\ plane.phase = "parting" => plane.open = 0
  /\ plane.closed => plane.phase = "dead" /\ plane.open = 0 /\ plane.streams = {}

LEMMA PlaneStart == StartInit => PlaneInv
<1> SUFFICES ASSUME StartInit PROVE PlaneInv
  OBVIOUS
<1>0. PICK s \in Settings : plane = Starting(s)
  BY DEF StartInit
<1>1. PlaneTyped
  BY <1>0 DEF Starting, PlaneTyped, LifePhases
<1>2. Filled
  BY <1>0 DEF Filled, Loops, Starting
<1> QED BY <1>0, <1>1, <1>2 DEF PlaneInv, Starting, Grounded

\* A part is built after those it needs, and no earlier one was waiting for it.
LEMMA PlaneBuilds == PlaneInv /\ BuildPart => PlaneInv'
<1> SUFFICES ASSUME PlaneInv, BuildPart PROVE PlaneInv'
  OBVIOUS
<1>1. PlaneTyped /\ plane.next \in 1 .. 64
  BY OrderIs DEF PlaneInv, PlaneTyped, BuildPart
<1> DEFINE more == IF Configured(Due) THEN plane.parts \union {Due.name} ELSE plane.parts
<1>2. plane' = [plane EXCEPT !.next = plane.next + 1, !.parts = more]
  BY DEF BuildPart
<1>4. /\ plane'.settings = plane.settings /\ plane'.parts = more /\ plane'.next = plane.next + 1
      /\ plane'.phase = plane.phase /\ plane'.open = plane.open /\ plane'.streams = plane.streams
      /\ plane'.closed = plane.closed
  BY <1>1, <1>2 DEF PlaneTyped
<1> HIDE DEF more
<1>5. PlaneTyped'
  <2>1. plane' = [settings |-> plane.settings, parts |-> more, next |-> plane.next + 1,
                  phase |-> plane.phase, open |-> plane.open, streams |-> plane.streams,
                  closed |-> plane.closed]
    BY <1>1, <1>2 DEF PlaneTyped
  <2>2. plane.next + 1 \in Nat \ {0}
    BY <1>1 DEF PlaneTyped
  <2> QED BY <1>1, <1>4, <2>1, <2>2 DEF PlaneTyped
<1> USE DEF more
<1>6. Grounded(more)
  <2>1. CASE ~Configured(Due)
    BY <2>1 DEF PlaneInv
  <2>2. CASE Configured(Due)
    <3>1. Due.needs \subseteq plane.parts /\ Needing(Due)
      BY <1>1, <2>2, AllPlaced DEF Configured, Due
    <3> QED BY <2>2, <3>1 DEF PlaneInv, Grounded, Needing
  <2> QED BY <2>1, <2>2
<1>7. ASSUME NEW n \in Loops, n < plane.next + 1, BuildOrder[n].needs \subseteq more
      PROVE  BuildOrder[n].name \in more
  <2>1. n \in 1 .. 64
    BY DEF Loops
  <2>2. n <= plane.next /\ plane.next \in n .. 64
    BY <1>1, <1>7, <2>1
  <2>3. Due.name \notin BuildOrder[n].needs
    BY <2>2, LoopsSound DEF Due
  <2>4. BuildOrder[n].needs \subseteq plane.parts
    BY <1>7, <2>3
  <2>5. CASE n < plane.next
    BY <2>4, <2>5 DEF PlaneInv, Filled
  <2>6. CASE n = plane.next
    <3>1. Due = BuildOrder[n]
      BY <2>6 DEF Due
    <3>2. Configured(Due)
      BY <2>4, <3>1, LoopsSound DEF Configured
    <3> QED BY <3>1, <3>2
  <2> QED BY <1>1, <2>1, <2>2, <2>5, <2>6
<1>8. Filled'
  BY <1>4, <1>7 DEF Filled
<1> QED BY <1>1, <1>4, <1>5, <1>6, <1>8 DEF PlaneInv, BuildPart

LEMMA PlaneStep == PlaneInv /\ [StartNext]_plane => PlaneInv'
<1> SUFFICES ASSUME PlaneInv, [StartNext]_plane PROVE PlaneInv'
  OBVIOUS
<1>0. PlaneTyped
  BY DEF PlaneInv
<1> DEFINE Same == plane'.parts = plane.parts /\ plane'.next = plane.next
<1>1. Same => Grounded(plane.parts)' /\ Filled'
  BY DEF PlaneInv, Grounded, Filled
<1>2. CASE BuildPart
  BY <1>2, PlaneBuilds
<1>3. CASE Refuse
  <2>1. PlaneTyped' /\ Same
    BY <1>0, <1>3 DEF Refuse, PlaneTyped, LifePhases
  <2> QED BY <1>0, <1>1, <1>3, <2>1 DEF PlaneInv, PlaneTyped, Refuse, LifePhases
<1>4. CASE Serve
  <2>1. PlaneTyped' /\ Same
    BY <1>0, <1>4 DEF Serve, PlaneTyped, LifePhases
  <2> QED BY <1>0, <1>1, <1>4, <2>1, OrderIs DEF PlaneInv, PlaneTyped, Serve, LifePhases
<1>5. CASE Signal
  <2>1. PlaneTyped' /\ Same
    BY <1>0, <1>5 DEF Signal, PlaneTyped, LifePhases
  <2> QED BY <1>0, <1>1, <1>5, <2>1 DEF PlaneInv, PlaneTyped, Signal, LifePhases
<1>6. CASE HttpDrained
  <2>1. PlaneTyped' /\ Same
    BY <1>0, <1>6 DEF HttpDrained, PlaneTyped, LifePhases
  <2> QED BY <1>0, <1>1, <1>6, <2>1 DEF PlaneInv, PlaneTyped, HttpDrained, LifePhases
<1>7. CASE Leave
  <2> DEFINE shut == "database" \in plane.parts
  <2>1. shut \in BOOLEAN
    OBVIOUS
  <2>2. plane' = [plane EXCEPT !.phase = "dead", !.closed = shut] /\ plane.phase = "parting"
    BY <1>7 DEF Leave
  <2> HIDE DEF shut
  <2>3. plane' = [settings |-> plane.settings, parts |-> plane.parts, next |-> plane.next,
                  phase |-> "dead", open |-> plane.open, streams |-> plane.streams,
                  closed |-> shut]
    BY <1>0, <2>2 DEF PlaneTyped
  <2>4. PlaneTyped' /\ Same
    BY <1>0, <2>1, <2>3 DEF PlaneTyped, LifePhases
  <2> QED BY <1>0, <1>1, <1>7, <2>3, <2>4 DEF PlaneInv, PlaneTyped, Leave, LifePhases
<1>8. CASE Killed
  <2>1. PlaneTyped' /\ Same
    BY <1>0, <1>8 DEF Killed, PlaneTyped, LifePhases
  <2> QED BY <1>0, <1>1, <1>8, <2>1 DEF PlaneInv, PlaneTyped, Killed, LifePhases
<1>9. CASE RequestBegins
  <2>1. PlaneTyped' /\ Same
    BY <1>0, <1>9 DEF RequestBegins, PlaneTyped, LifePhases
  <2> QED BY <1>0, <1>1, <1>9, <2>1 DEF PlaneInv, PlaneTyped, RequestBegins, LifePhases
<1>10. CASE RequestEnds
  <2>1. PlaneTyped' /\ Same
    BY <1>0, <1>10 DEF RequestEnds, PlaneTyped, LifePhases
  <2> QED BY <1>0, <1>1, <1>10, <2>1 DEF PlaneInv, PlaneTyped, RequestEnds, LifePhases
<1>11. CASE \E a \in Agents : AgentConnects(a) \/ AgentLeaves(a)
  <2>1. PICK a \in Agents : AgentConnects(a) \/ AgentLeaves(a)
    BY <1>11
  <2>2. PlaneTyped' /\ Same
    BY <1>0, <2>1 DEF AgentConnects, AgentLeaves, PlaneTyped, LifePhases
  <2> QED BY <1>0, <1>1, <2>1, <2>2 DEF PlaneInv, PlaneTyped, AgentConnects, AgentLeaves, LifePhases
<1>12. CASE UNCHANGED plane
  BY <1>12 DEF PlaneInv, PlaneTyped, Filled, Grounded
<1> QED BY <1>2, <1>3, <1>4, <1>5, <1>6, <1>7, <1>8, <1>9, <1>10, <1>11, <1>12 DEF StartNext

\* Once all parts had their turn, what there must be follows from what is there.
LEMMA ServedIsBuilt ==
  ASSUME PlaneInv, plane.phase = "serving"
  PROVE  Wired
<1> DEFINE parts == plane.parts
<1>1. plane.next > 64 /\ Grounded(parts) /\ plane.next \in Nat
  BY DEF PlaneInv, PlaneTyped
<1>2. \A n \in Loops : BuildOrder[n].needs \subseteq parts => BuildOrder[n].name \in parts
  <2>1. \A n \in Loops : n \in Nat /\ n < 65
    BY DEF Loops
  <2> QED BY <1>1, <2>1 DEF PlaneInv, Filled
<1>3. {"database"} \subseteq parts => "auth" \in parts
  <2>1. BuildOrder[2].needs = {"database"} /\ BuildOrder[2].name = "auth"
    BY LoopsAre, PartFields
  <2> QED BY <1>2, <2>1 DEF Loops
<1>4. {"database", "auth"} \subseteq parts => "billing" \in parts
  <2>1. BuildOrder[3].needs = {"database", "auth"} /\ BuildOrder[3].name = "billing"
    BY LoopsAre, PartFields
  <2> QED BY <1>2, <2>1 DEF Loops
<1>5. {"billing"} \subseteq parts => "collector" \in parts
  <2>1. BuildOrder[6].needs = {"billing"} /\ BuildOrder[6].name = "collector"
    BY LoopsAre, PartFields
  <2> QED BY <1>2, <2>1 DEF Loops
<1>6. {"database"} \subseteq parts => "catalog" \in parts
  <2>1. BuildOrder[15].needs = {"database"} /\ BuildOrder[15].name = "catalog"
    BY LoopsAre, PartFields
  <2> QED BY <1>2, <2>1 DEF Loops
<1>7. {"database"} \subseteq parts => "store" \in parts
  <2>1. BuildOrder[20].needs = {"database"} /\ BuildOrder[20].name = "store"
    BY LoopsAre, PartFields
  <2> QED BY <1>2, <2>1 DEF Loops
<1>8. {"catalog"} \subseteq parts => "gateway" \in parts
  <2>1. BuildOrder[24].needs = {"catalog"} /\ BuildOrder[24].name = "gateway"
    BY LoopsAre, PartFields
  <2> QED BY <1>2, <2>1 DEF Loops
<1>9. {"gateway"} \subseteq parts => "probes" \in parts
  <2>1. BuildOrder[26].needs = {"gateway"} /\ BuildOrder[26].name = "probes"
    BY LoopsAre, PartFields
  <2> QED BY <1>2, <2>1 DEF Loops
<1>10. {"store"} \subseteq parts => "reconciler" \in parts
  <2>1. BuildOrder[33].needs = {"store"} /\ BuildOrder[33].name = "reconciler"
    BY LoopsAre, PartFields
  <2> QED BY <1>2, <2>1 DEF Loops
<1>11. {"store"} \subseteq parts => "retention" \in parts
  <2>1. BuildOrder[34].needs = {"store"} /\ BuildOrder[34].name = "retention"
    BY LoopsAre, PartFields
  <2> QED BY <1>2, <2>1 DEF Loops
<1>12. {"billing", "store", "collector"} \subseteq parts => "enforcer" \in parts
  <2>1. BuildOrder[35].needs = {"billing", "store", "collector"} /\ BuildOrder[35].name = "enforcer"
    BY LoopsAre, PartFields
  <2> QED BY <1>2, <2>1 DEF Loops
<1>13. {"enforcer"} \subseteq parts => "held_disks" \in parts
  <2>1. BuildOrder[36].needs = {"enforcer"} /\ BuildOrder[36].name = "held_disks"
    BY LoopsAre, PartFields
  <2> QED BY <1>2, <2>1 DEF Loops
<1>14. {"billing"} \subseteq parts => "provision_gate" \in parts
  <2>1. BuildOrder[37].needs = {"billing"} /\ BuildOrder[37].name = "provision_gate"
    BY LoopsAre, PartFields
  <2> QED BY <1>2, <2>1 DEF Loops
<1>15. {"billing"} \subseteq parts => "credit_guard" \in parts
  <2>1. BuildOrder[40].needs = {"billing"} /\ BuildOrder[40].name = "credit_guard"
    BY LoopsAre, PartFields
  <2> QED BY <1>2, <2>1 DEF Loops
<1>16. {"objects", "billing"} \subseteq parts => "storage_meter" \in parts
  <2>1. BuildOrder[46].needs = {"objects", "billing"} /\ BuildOrder[46].name = "storage_meter"
    BY LoopsAre, PartFields
  <2> QED BY <1>2, <2>1 DEF Loops
<1>17. {"billing", "held_disks"} \subseteq parts => "holds" \in parts
  <2>1. BuildOrder[48].needs = {"billing", "held_disks"} /\ BuildOrder[48].name = "holds"
    BY LoopsAre, PartFields
  <2> QED BY <1>2, <2>1 DEF Loops
<1>18. "database" \in parts =>
        {"auth", "billing", "store", "collector", "enforcer", "held_disks", "holds", "reconciler",
         "retention", "provision_gate", "credit_guard", "catalog", "gateway", "probes"} \subseteq parts
  BY <1>3, <1>4, <1>5, <1>6, <1>7, <1>8, <1>9, <1>10, <1>11, <1>12, <1>13, <1>14, <1>15, <1>16, <1>17
<1>19. ASSUME NEW r \in Served(parts) PROVE r.uses \subseteq parts
  <2>1. CASE r \in OpenRoutes
    BY <1>1, <1>18, <1>19, <2>1 DEF OpenRoutes, Route, Served, Grounded
  <2>2. CASE r \in CustomerRoutes
    BY <1>1, <1>18, <1>19, <2>2 DEF CustomerRoutes, Route, Served, Grounded
  <2>3. CASE r \in BareRoutes
    BY <2>3 DEF BareRoutes, Route
  <2>4. CASE r \in AdminRoutes
    BY <1>1, <1>18, <1>19, <2>4 DEF AdminRoutes, Route, Served, Grounded
  <2> QED BY <1>19, <2>1, <2>2, <2>3, <2>4 DEF Served
<1>20. "store" \in parts => "database" \in parts
  BY <1>1 DEF Grounded
<1>21. "objects" \in parts => "database" \in parts /\ "storage_meter" \in parts
  BY <1>1, <1>18, <1>3, <1>4, <1>5, <1>6, <1>7, <1>8, <1>9, <1>10, <1>11, <1>12, <1>13, <1>14, <1>15, <1>16, <1>17 DEF Grounded
<1> QED BY <1>18, <1>19, <1>20, <1>21 DEF Wired

\* With whatever settings the control plane starts, no handler it serves
\* lacks a part, whoever can create instances or store objects is metered,
\* followed and stopped at zero credit, and the database is closed after the
\* last request and the last agent (cmd/api-server/main.go).
THEOREM StartsSound == StartSpec => []StartUpSound
<1>1. PlaneInv => StartUpSound
  <2>1. PlaneInv => Wired
    BY ServedIsBuilt DEF Wired
  <2> QED BY <2>1 DEF PlaneInv, StartUpSound, ClosedLast
<1> QED BY <1>1, PlaneStart, PlaneStep, PTL DEF StartSpec
=============================================================================
