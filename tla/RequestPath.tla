----------------------------- MODULE RequestPath -----------------------------
(***************************************************************************)
(* A request to the control plane, from the router to the handler          *)
(* (setupRouter in cmd/api-server/main.go, pkg/ratelimit and               *)
(* pkg/auth/middleware.go): the tunnel takes instance traffic out, the     *)
(* limiter counts the rest in Redis, and then the credential decides.      *)
(*                                                                         *)
(* The limiter runs before anybody is authenticated, so that every caller  *)
(* is an address in the "free" tier, whatever credential it presents.      *)
(***************************************************************************)
EXTENDS Integers, FiniteSets

CONSTANTS Addresses,     \* callers, as the limiter tells them apart
          TierLimit,     \* requests of the free tier in a second
          CreateLimit,   \* creations of instances in a minute
          DryRun,        \* excesses are only logged
          MaxCalls       \* bound: requests of a caller

ASSUME RateAssumption == TierLimit \in Nat \ {0} /\ CreateLimit \in Nat \ {0} /\ DryRun \in BOOLEAN

VARIABLE traffic   \* the counters in Redis; requests let through in the
                   \* second, creations in the minute; where an agent got

\* What can be asked: who may, whether an agent's credential suffices, and the
\* endpoint's own limit, 0 for none.
End(who, agent, limit) == [who |-> who, agent |-> agent, limit |-> limit]

Ends == [health   |-> End("anyone", FALSE, 0),
         attach   |-> End("ticket", FALSE, 0),
         create   |-> End("project", TRUE, CreateLimit),
         complete |-> End("project", TRUE, 0),
         approve  |-> End("project", FALSE, 0),
         prices   |-> End("operator", FALSE, 0)]

Asked == DOMAIN Ends

Credentials == {"none", "ticket", "access", "refresh", "key", "agent", "operator"}

\* What the limiter never sees: traffic to instances, which the tunnel takes,
\* preflights, and the attachment of a terminal.
Exempt(e) == e = "attach"

Unasked == [end |-> "health", open |-> TRUE]

Quiet == [c \in Addresses |-> 0]

RequestInit ==
    traffic = [counted |-> Quiet, created |-> Quiet, second |-> Quiet, minute |-> Quiet,
               session |-> TRUE, redis |-> TRUE, blind |-> FALSE, calls |-> 0, agent |-> Unasked]

----------------------------------------------------------------------------
(* The limiter.                                                            *)

HasLimit(e) == Ends[e].limit > 0
OverEndpoint(c, e) == HasLimit(e) /\ traffic.created[c] >= Ends[e].limit
OverTier(c) == traffic.counted[c] >= TierLimit

\* CheckLimit counts before it compares, the endpoint's window first; one that
\* is over leaves the tier's alone.  A limiter that fails lets through.
Counted(c, e) ==
    IF Exempt(e) \/ ~traffic.redis THEN traffic
    ELSE [traffic EXCEPT
            !.created[c] = IF HasLimit(e) THEN @ + 1 ELSE @,
            !.counted[c] = IF OverEndpoint(c, e) THEN @ ELSE @ + 1]

AllowedByEither(c, e) ==
    \/ Exempt(e) \/ ~traffic.redis \/ DryRun
    \/ ~OverEndpoint(c, e)
    \/ ~HasLimit(e) /\ ~OverTier(c)

Allowed(c, e) ==
    \/ Exempt(e) \/ ~traffic.redis \/ DryRun
    \/ ~OverEndpoint(c, e) /\ ~OverTier(c)

----------------------------------------------------------------------------
(* The credential.                                                         *)

\* authenticate: a refresh token is nobody, nor is an agent whose session is
\* closed, asked at every request.
Signed(cred) ==
    \/ cred \in {"access", "key"}
    \/ cred = "agent" /\ traffic.session

\* RequireAuth with the agents' list of routes, or the operator's token, or
\* the ticket that is the credential itself; a project is in keys and agents'
\* credentials, and named by the header in a sign-in.
MayReach(cred, e, project) ==
    CASE Ends[e].who = "anyone" -> TRUE
      [] Ends[e].who = "ticket" -> cred = "ticket"
      [] Ends[e].who = "operator" -> cred = "operator"
      [] Ends[e].who = "project" ->
           /\ Signed(cred)
           /\ cred = "agent" => Ends[e].agent
           /\ project \/ cred # "access"

Arrives(c, e, cred, project) ==
    /\ traffic.calls < MaxCalls
    /\ traffic' =
         IF Allowed(c, e)
         THEN [Counted(c, e) EXCEPT
                 !.calls = @ + 1,
                 !.second[c] = IF Exempt(e) THEN @ ELSE @ + 1,
                 !.minute[c] = IF HasLimit(e) THEN @ + 1 ELSE @,
                 !.agent = IF cred = "agent" /\ MayReach(cred, e, project)
                           THEN [end |-> e, open |-> traffic.session] ELSE @]
         ELSE [Counted(c, e) EXCEPT !.calls = @ + 1]

----------------------------------------------------------------------------
SecondPasses ==
    /\ traffic.second # Quiet
    /\ traffic' = [traffic EXCEPT !.second = Quiet, !.counted = Quiet]

MinutePasses ==
    /\ traffic.minute # Quiet
    /\ traffic' = [traffic EXCEPT !.second = Quiet, !.minute = Quiet, !.created = Quiet,
                                  !.counted = Quiet]

RedisFails ==
    /\ traffic.redis
    /\ traffic' = [traffic EXCEPT !.redis = FALSE, !.blind = TRUE]

EndSession == traffic.session /\ traffic' = [traffic EXCEPT !.session = FALSE]

RequestNext ==
    \/ \E c \in Addresses, e \in Asked, cred \in Credentials, project \in BOOLEAN :
         Arrives(c, e, cred, project)
    \/ SecondPasses \/ MinutePasses \/ RedisFails \/ EndSession

----------------------------------------------------------------------------
(* What should hold. *)

\* While the limiter's store answers, no caller gets more than its tier's
\* requests through in a second, nor more creations than the endpoint's limit
\* in a minute, however it mixes its requests and its credentials.
RatesHold ==
    ~traffic.blind /\ ~DryRun =>
      \A c \in Addresses :
        /\ traffic.second[c] <= TierLimit
        /\ traffic.minute[c] <= CreateLimit

\* A build agent reaches nothing but its own work, and nothing at all once its
\* session is closed.
AgentsConfined ==
    \/ traffic.agent.end = "health"
    \/ traffic.agent.open /\ traffic.agent.end \in {"create", "complete"}

RequestsHeld == RatesHold /\ AgentsConfined
=============================================================================
