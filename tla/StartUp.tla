------------------------------- MODULE StartUp -------------------------------
(***************************************************************************)
(* The control plane from its start to its end (cmd/api-server/main.go):   *)
(* which parts are put together from which settings, which background      *)
(* loops are started, which routes are served on them, and how it stops.   *)
(*                                                                         *)
(* A setting is something the environment gives: a variable that is set    *)
(* and well-formed, or a service that answers.  A part is built when the   *)
(* parts it needs are there and its settings are given; without a setting  *)
(* it must have, the process ends instead.                                 *)
(***************************************************************************)
EXTENDS Integers, Sequences, FiniteSets

CONSTANTS Settings,      \* the combinations of settings to start with
          Agents,        \* nodes that connect
          MaxOpen        \* bound: requests in flight

VARIABLE plane   \* the process: settings given, parts built, phase, and
                 \* the requests and agents' streams it is serving

Part(name, needs, wants, must) ==
    [name |-> name, needs |-> needs, wants |-> wants, must |-> must]

AccountParts == <<
    Part("database", {}, {"database"}, {"schema"}),
    Part("auth", {"database"}, {}, {"jwt"}),
    Part("billing", {"database", "auth"}, {}, {"taxes"}),
    Part("invoice_files", {"billing"}, {"bucket"}, {}),
    Part("stripe", {"billing"}, {"stripe"}, {}),
    Part("collector", {"billing"}, {}, {}),
    Part("expirer", {"billing"}, {}, {}),
    Part("alerter", {"billing"}, {}, {})>>

PaymentParts == <<
    Part("mailer", {"billing"}, {}, {}),
    Part("recharger", {"mailer"}, {}, {}),
    Part("crypto_watcher", {"billing"}, {"solana"}, {"wallet"}),
    Part("nodes", {"database"}, {"home"}, {}),
    Part("stale_sweep", {"nodes"}, {}, {}),
    Part("metrics_retention", {"nodes"}, {}, {}),
    Part("catalog", {"database"}, {}, {})>>

ClusterParts == <<
    Part("kubernetes", {}, {"kubernetes"}, {}),
    Part("registry", {"database", "auth", "kubernetes"}, {"harbor", "sealing"}, {}),
    Part("networking", {"kubernetes"}, {"endpoints"}, {}),
    Part("limiter", {}, {"limits"}, {}),
    Part("store", {"database"}, {}, {})>>

\* Agent mode, or else pods are reached over Kubernetes directly.
ChannelParts == <<
    Part("agents", {}, {"agent_mode"}, {"agent_token"}),
    Part("node_credentials", {"agents", "nodes"}, {}, {}),
    Part("direct", {"kubernetes"}, {}, {})>>

InferenceParts == <<
    Part("gateway", {"catalog"}, {}, {}),
    Part("tunnel", {"gateway", "agents"}, {}, {}),
    Part("probes", {"gateway"}, {}, {}),
    Part("health_checks", {"gateway"}, {}, {}),
    Part("inference", {"gateway"}, {}, {}),
    Part("model_cache", {"agents", "nodes", "gateway"}, {}, {}),
    Part("inference_reconciler", {"catalog", "nodes"}, {}, {})>>

LoopParts == <<
    Part("allocator", {}, {}, {}),
    Part("status_page", {}, {"status_page"}, {}),
    Part("reconciler", {"store"}, {}, {}),
    Part("retention", {"store"}, {}, {}),
    Part("enforcer", {"billing", "store", "collector"}, {}, {"enforcement"}),
    Part("held_disks", {"enforcer"}, {}, {})>>

ServerParts == <<
    Part("provision_gate", {"billing"}, {}, {}),
    Part("placer", {"nodes"}, {}, {}),
    Part("vault", {}, {"sealing"}, {}),
    Part("credit_guard", {"billing"}, {}, {}),
    Part("hidden_workloads", {"nodes"}, {}, {}),
    Part("project_policy", {"auth"}, {}, {})>>

StorageParts == <<
    Part("objects", {"database"}, {"objects"}, {}),
    Part("signer", {"objects"}, {"signing"}, {}),
    Part("attachments", {"objects"}, {"public_url"}, {}),
    Part("storage_meter", {"objects", "billing"}, {}, {}),
    Part("egress", {"objects", "billing"}, {}, {}),
    Part("holds", {"billing", "held_disks"}, {}, {"hold_mode"})>>

BuildParts == <<
    Part("build", {"billing", "gateway"}, {"build"}, {}),
    Part("secrets", {"build"}, {"sealing"}, {}),
    Part("build_capacity", {"build", "nodes"}, {}, {}),
    Part("session_checker", {"build", "auth"}, {}, {}),
    Part("agent_pods", {"build"}, {"agent_image", "callback"}, {}),
    Part("event_tickets", {"build"}, {}, {})>>

ImageParts == <<
    Part("harbor_builder", {"build", "registry"}, {}, {}),
    Part("ecr_builder", {"build"}, {"ecr"}, {}),
    Part("github", {"build"}, {"github"}, {})>>

EdgeParts == <<
    Part("admin", {"billing"}, {"admin_token"}, {}),
    Part("webhook", {"stripe", "billing"}, {}, {}),
    Part("proxy", {"agents", "store"}, {}, {}),
    Part("exec", {"agents", "store"}, {}, {}),
    Part("events", {"event_tickets"}, {}, {}),
    Part("recorder", {"events"}, {}, {}),
    Part("registry_sync", {"agents"}, {"agent_image"}, {})>>

BuildOrder == AccountParts \o PaymentParts \o ClusterParts \o ChannelParts
              \o InferenceParts \o LoopParts \o ServerParts \o StorageParts
              \o BuildParts \o ImageParts \o EdgeParts

\* Each of these is built only where the other is not.
Fallback == [part \in {"direct", "ecr_builder"} |->
               IF part = "direct" THEN "agents" ELSE "registry"]

----------------------------------------------------------------------------
(* The router: a group of routes is served if all of its parts are built,  *)
(* and its handlers use parts without asking whether they are there.       *)

Route(name, if, uses) == [name |-> name, if |-> if, uses |-> uses]

OpenRoutes == {
    Route("stripe_webhook", {"webhook"}, {"stripe", "billing"}),
    Route("terminal", {"exec"}, {"agents", "store"}),
    Route("session_events", {"events"}, {"event_tickets", "build"}),
    Route("enroll", {"nodes"}, {"database"}),
    Route("login", {"auth"}, {"database"}),
    Route("register", {"auth"}, {"auth", "database"}),
    Route("instance_traffic", {"proxy"}, {"agents", "store"})}

CustomerRoutes == {
    Route("users", {"auth"}, {"auth"}),
    Route("cards", {"auth", "billing"}, {"billing"}),
    Route("projects", {"auth"}, {"auth"}),
    Route("registry", {"auth", "registry"}, {"kubernetes", "database"}),
    Route("billing", {"billing", "auth"}, {"billing", "auth"}),
    Route("completions", {"inference"}, {"gateway", "catalog"}),
    Route("home_capacity", {"nodes"}, {"nodes"}),
    Route("terminal_ticket", {"exec"}, {"exec", "store"})}

\* Served whatever is built: their handlers answer 404 without their part.
BareRoutes == {
    Route("compute", {}, {}), Route("storage", {}, {}), Route("build_sessions", {}, {})}

AdminRoutes == {
    Route("prices", {"admin"}, {"billing"}),
    Route("invoices", {"admin"}, {"billing", "auth"}),
    Route("node_admin", {"admin", "nodes"}, {"nodes"}),
    Route("playground", {"admin", "gateway"}, {"gateway"}),
    Route("cached_models", {"admin", "model_cache"}, {"agents", "nodes", "catalog"}),
    Route("models", {"admin", "catalog"}, {"catalog", "gateway", "probes"})}

Served(parts) ==
    {r \in OpenRoutes \union CustomerRoutes \union BareRoutes \union AdminRoutes :
        r.if \subseteq parts}

----------------------------------------------------------------------------
Starting(settings) ==
    [settings |-> settings, parts |-> {}, next |-> 1, phase |-> "starting",
     open |-> 0, streams |-> {}, closed |-> FALSE]

StartInit == plane \in {Starting(s) : s \in Settings}

Due == BuildOrder[plane.next]
Configured(part) ==
    /\ part.needs \subseteq plane.parts
    /\ part.wants \subseteq plane.settings
    /\ part.name \in DOMAIN Fallback => Fallback[part.name] \notin plane.parts

BuildPart ==
    /\ plane.phase = "starting" /\ plane.next <= Len(BuildOrder)
    /\ Configured(Due) => Due.must \subseteq plane.settings
    /\ plane' = [plane EXCEPT !.next = @ + 1,
                              !.parts = IF Configured(Due) THEN @ \union {Due.name} ELSE @]

\* log.Fatal.
Refuse ==
    /\ plane.phase = "starting" /\ plane.next <= Len(BuildOrder)
    /\ Configured(Due) /\ ~(Due.must \subseteq plane.settings)
    /\ plane' = [plane EXCEPT !.phase = "dead"]

Serve ==
    /\ plane.phase = "starting" /\ plane.next > Len(BuildOrder)
    /\ plane' = [plane EXCEPT !.phase = "serving"]

RequestBegins ==
    /\ plane.phase = "serving" /\ plane.open < MaxOpen
    /\ plane' = [plane EXCEPT !.open = @ + 1]

RequestEnds ==
    /\ plane.open > 0
    /\ plane.phase # "dead"
    /\ plane' = [plane EXCEPT !.open = @ - 1]

\* An agent's stream ends when the agent goes, never from this side.
AgentConnects(a) ==
    /\ plane.phase \in {"serving", "draining"} /\ "agents" \in plane.parts
    /\ a \notin plane.streams
    /\ plane' = [plane EXCEPT !.streams = @ \union {a}]

AgentLeaves(a) ==
    /\ plane.phase # "dead" /\ a \in plane.streams
    /\ plane' = [plane EXCEPT !.streams = @ \ {a}]

Signal ==
    /\ plane.phase = "serving"
    /\ plane' = [plane EXCEPT !.phase = "draining"]

LeaveAtOnce ==
    /\ plane.phase = "draining"
    /\ plane' = [plane EXCEPT !.phase = "dead", !.closed = "database" \in plane.parts]

\* srv.Shutdown waits for the requests, and gives up after five seconds.
HttpDrained ==
    /\ plane.phase = "draining"
    /\ plane' = [plane EXCEPT !.phase = IF plane.open = 0 THEN "parting" ELSE "dead"]

\* GracefulStop waits for every stream; then the database is closed.
Leave ==
    /\ plane.phase = "parting" /\ plane.streams = {}
    /\ plane' = [plane EXCEPT !.phase = "dead", !.closed = "database" \in plane.parts]

\* The platform does not wait for ever.
Killed ==
    /\ plane.phase \in {"draining", "parting"}
    /\ plane' = [plane EXCEPT !.phase = "dead"]

StartNext ==
    \/ BuildPart \/ Refuse \/ Serve \/ Signal \/ HttpDrained \/ Leave \/ Killed
    \/ RequestBegins \/ RequestEnds
    \/ \E a \in Agents : AgentConnects(a) \/ AgentLeaves(a)

----------------------------------------------------------------------------
(* What should hold. *)

\* With whatever settings it starts, the control plane serves no handler
\* whose parts are missing, and where customers can create instances that are
\* recorded, or store objects, the loops that bill them, follow them and stop
\* them at zero credit run, and so do the gate and the guard in front.
Wired ==
    plane.phase = "serving" =>
      /\ \A r \in Served(plane.parts) : r.uses \subseteq plane.parts
      /\ "store" \in plane.parts =>
           {"auth", "collector", "enforcer", "reconciler", "retention", "holds",
            "provision_gate", "credit_guard"} \subseteq plane.parts
      /\ "objects" \in plane.parts => {"storage_meter", "holds"} \subseteq plane.parts

\* It closes its database after the last request and the last agent.
ClosedLast == plane.closed => plane.open = 0 /\ plane.streams = {}

StartUpSound == Wired /\ ClosedLast
=============================================================================
