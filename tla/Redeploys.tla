------------------------------ MODULE Redeploys ------------------------------
(***************************************************************************)
(* The app of a Teepin Build session after its first deploy: redeploys     *)
(* swap its pod in place (redeployBuildInstance in api/build_handlers.go,  *)
(* UpdateInstance in cluster/direct.go) while the agent reports, the       *)
(* reconciler writes, credit runs out and returns, the customer deletes,   *)
(* and the control plane restarts.  BuildDeploys says which redeploys run  *)
(* (one at a time); here a redeploy is taken statement by statement.       *)
(*                                                                         *)
(* The app lives on home node "n"; "m" is another connected node.  An      *)
(* image is the number of the deploy that built it, the first is 1.        *)
(* Delivery of statuses over the stream is in InstanceLifecycle; a status  *)
(* here is recorded as it is reported.                                     *)
(***************************************************************************)
EXTENDS Integers, FiniteSets, SequencesExt

CONSTANTS Legacy,       \* rows whose first deploy stored no provider exist
          MaxDeploys,   \* bound: images
          MaxFailures,  \* bound: statements that fail
          MaxHolds      \* bound: times credit runs out

VARIABLES app,      \* the row in compute.instances
          kept,     \* its sealed launch spec: what is run, and if as "home"
          pods,     \* its pods on node "n", oldest first
          told,     \* the agent's lastReported entry, "none" if it has none
          cached,   \* the control plane's cached status of the app
          warm,     \* the grace period after a restart is over
          flow,     \* the redeploy under way
          tried,    \* deploys so far
          failures, \* statements that failed, by kind
          holds

redeployVars == <<app, kept, pods, told, cached, warm, flow, tried, failures, holds>>

Live == {"pending", "running"}
NotCached == [status |-> "none", endpoint |-> FALSE, provider |-> FALSE]
NoFlow == [pc |-> "idle", image |-> 0, home |-> FALSE, recovered |-> FALSE]

RedeployInit ==
    /\ \E known \in (IF Legacy THEN BOOLEAN ELSE {TRUE}) :
         app = [status |-> "running", image |-> 1, port |-> TRUE, endpoint |-> TRUE,
                provider |-> known, node |-> known]
    /\ kept = [image |-> 1, home |-> app.provider]
    /\ pods = <<[image |-> 1, phase |-> "running"]>>
    /\ told = "running"
    /\ cached = [status |-> "running", endpoint |-> TRUE, provider |-> TRUE]
    /\ warm = TRUE /\ flow = NoFlow /\ tried = 1 /\ failures = {} /\ holds = 0

\* A statement of some kind fails, or its answer is lost.
Fails(kind) == /\ kind \notin failures /\ Cardinality(failures) < MaxFailures
               /\ failures' = failures \union {kind}

----------------------------------------------------------------------------
(* The node.                                                               *)

\* podStatus of the newest pod; an evicted one ends as "done" (Succeeded).
Newest == Last(pods)
StatusOf(pod) == CASE pod.phase = "starting" -> "pending"
                   [] pod.phase \in {"running", "ending"} -> "running"
                   [] pod.phase = "done" -> "terminated"

Ended(ps) == [i \in DOMAIN ps |->
                IF ps[i].phase = "done" THEN ps[i] ELSE [ps[i] EXCEPT !.phase = "ending"]]

PodStarts ==
    \E i \in DOMAIN pods :
        /\ pods[i].phase = "starting"
        /\ pods' = [pods EXCEPT ![i].phase = "running"]
        /\ UNCHANGED <<app, kept, told, cached, warm, flow, tried, failures, holds>>

\* A deleted pod's container exits, and Kubernetes removes it.
PodExits ==
    \E i \in DOMAIN pods :
        /\ pods[i].phase \in {"ending", "done"}
        /\ \/ pods[i].phase = "ending" /\ pods' = [pods EXCEPT ![i].phase = "done"]
           \/ pods' = RemoveAt(pods, i)
        /\ UNCHANGED <<app, kept, told, cached, warm, flow, tried, failures, holds>>

\* RecordStatus: a terminated status stays, and a status without an endpoint
\* keeps the one cached.
Record(status, endpoint, provider) ==
    cached' = IF cached.status = "terminated" /\ status # "terminated" THEN cached
              ELSE [status |-> status, endpoint |-> endpoint \/ cached.endpoint,
                    provider |-> provider]

\* reportStatuses on a home node, whose statuses carry no endpoint.
SweepApp ==
    LET status == IF pods = <<>> THEN "none" ELSE StatusOf(Newest) IN
    /\ status # told \/ ~warm
    /\ told' = status
    /\ warm' = TRUE
    /\ IF status # told
       THEN Record(IF status = "none" THEN "terminated" ELSE status, FALSE, TRUE)
       ELSE UNCHANGED cached
    /\ UNCHANGED <<app, kept, pods, flow, tried, failures, holds>>

----------------------------------------------------------------------------
(* The redeploy.                                                           *)

Goes(pc) == flow' = [flow EXCEPT !.pc = pc]
EndsFlow == flow' = NoFlow

\* The provider: the row's, re-resolved when the row has no node, or else the
\* one whose status is cached.
Provider ==
    [home |-> app.provider \/ cached.provider,
     recovered |-> IF app.provider THEN ~app.node ELSE cached.provider]

\* Read the row; without a port, detected or on record, nothing is done.
BeginRedeploy(detected) ==
    /\ flow.pc = "idle" /\ tried < MaxDeploys
    /\ tried' = tried + 1
    /\ detected \/ app.port
    /\ flow' = [pc |-> "send", image |-> tried + 1,
                home |-> Provider.home, recovered |-> Provider.recovered]
    /\ UNCHANGED <<app, kept, pods, told, cached, warm, failures, holds>>

\* UpdateInstance on the agent: the old pods go first.  Without a provider
\* the command goes to any connected agent, and one that has no pod of the
\* app refuses it, as "n" does once the pod is gone.
EndOldPods ==
    /\ flow.pc = "send"
    /\ pods # <<>>
    /\ pods' = Ended(pods)
    /\ Goes("create")
    /\ UNCHANGED <<app, kept, told, cached, warm, tried, failures, holds>>

NotFound ==
    /\ flow.pc = "send"
    /\ ~flow.home \/ pods = <<>>
    /\ EndsFlow
    /\ UNCHANGED <<app, kept, pods, told, cached, warm, tried, failures, holds>>

\* ... then the new one is created, and its status seeded in the cache.
CreateNewPod ==
    /\ flow.pc = "create"
    /\ pods' = Append(pods, [image |-> flow.image, phase |-> "starting"])
    /\ \/ /\ Record("pending", flow.home, FALSE)
          /\ Goes("keep") /\ UNCHANGED failures
       \/ Fails("answer") /\ EndsFlow /\ UNCHANGED cached
    /\ UNCHANGED <<app, kept, told, warm, tried, holds>>

NewPodRefused ==
    /\ flow.pc = "create"
    /\ Fails("create") /\ EndsFlow
    /\ UNCHANGED <<app, kept, pods, told, cached, warm, tried, holds>>

KeepFirstSpec ==
    /\ flow.pc = "keep" /\ Goes("image")
    /\ UNCHANGED <<app, kept, pods, told, cached, warm, tried, failures, holds>>

\* persistLaunchSpec, best-effort; SaveLaunchSpec refuses a terminated row,
\* which UpdateImage is only about to revive.
KeepSpec ==
    /\ flow.pc = "keep"
    /\ \/ /\ app.status # "terminated"
          /\ kept' = [image |-> flow.image, home |-> flow.home]
          /\ UNCHANGED failures
       \/ /\ \/ app.status = "terminated" /\ failures' = failures \union {"spec"}
             \/ Fails("spec")
          /\ UNCHANGED kept
    /\ Goes("image")
    /\ UNCHANGED <<app, pods, told, cached, warm, tried, holds>>

\* UpdateImage, on a terminated row too; a failure is only logged.
WriteImage ==
    /\ flow.pc = "image"
    /\ \/ /\ app' = [app EXCEPT !.image = flow.image, !.port = TRUE, !.status = "pending"]
          /\ UNCHANGED failures
       \/ Fails("image") /\ UNCHANGED app
    /\ Goes("place")
    /\ UNCHANGED <<kept, pods, told, cached, warm, tried, holds>>

\* UpdateNodePlacement of a provider just recovered.
WritePlacement ==
    /\ flow.pc = "place"
    /\ \/ /\ app' = IF flow.recovered THEN [app EXCEPT !.provider = TRUE, !.node = TRUE] ELSE app
          /\ UNCHANGED failures
       \/ flow.recovered /\ Fails("placement") /\ UNCHANGED app
    /\ EndsFlow
    /\ UNCHANGED <<kept, pods, told, cached, warm, tried, holds>>

----------------------------------------------------------------------------
(* Meanwhile.                                                              *)

Overlaps == failures' = IF flow.pc = "idle" THEN failures ELSE failures \union {"overlap"}

\* The enforcer stops the app and keeps its disk (MarkStopped).
Hold ==
    /\ holds < MaxHolds /\ holds' = holds + 1
    /\ app.status \in Live /\ kept.image # 0 /\ cached.status # "none"
    /\ pods' = Ended(pods)
    /\ app' = [app EXCEPT !.status = "stopped"]
    /\ cached' = NotCached
    /\ UNCHANGED <<kept, told, warm, flow, tried, failures>>

\* StartInstance: the kept spec, unless a pod is found alive; MarkStarted
\* stores the endpoint the answer carries.
Start ==
    /\ app.status = "stopped"
    /\ pods' = IF pods # <<>> /\ StatusOf(Newest) \in Live THEN pods
               ELSE Append(pods, [image |-> kept.image, phase |-> "starting"])
    /\ Record("pending", kept.home, FALSE)
    /\ app' = [app EXCEPT !.status = "pending", !.endpoint = kept.home]
    /\ Overlaps
    /\ UNCHANGED <<kept, told, warm, flow, tried, holds>>

\* DeleteInstance by the customer, and MarkTerminated.
Delete ==
    /\ app.status = "stopped" \/ cached.status # "none"
    /\ app.status # "terminated"
    /\ pods' = Ended(pods)
    /\ cached' = NotCached
    /\ app' = [app EXCEPT !.status = "terminated"]
    /\ UNCHANGED <<kept, told, warm, flow, tried, failures, holds>>

\* The control plane restarts: the redeploy and the cache are gone, and the
\* agent connects again with nothing reported.
RestartServer ==
    /\ warm /\ Cardinality(failures) < MaxFailures
    /\ failures' = failures \union {IF flow.pc = "idle" THEN "restart" ELSE "answer"}
    /\ cached' = NotCached /\ told' = "none" /\ warm' = FALSE
    /\ EndsFlow
    /\ UNCHANGED <<app, kept, pods, tried, holds>>

EndpointCached == cached.endpoint

\* The endpoint a pass writes: never none over one on record.
EndpointSeen == app.endpoint \/ cached.endpoint

\* One pass of the reconciler over the app, after the grace period.
ReconcileApp ==
    /\ warm
    /\ \/ /\ app.status \notin {"stopped", "terminated"}
          /\ app' = IF cached.status \in {"none", "terminated"}
                    THEN [app EXCEPT !.status = "terminated"]
                    ELSE [app EXCEPT !.status = cached.status, !.endpoint = EndpointSeen]
       \/ /\ app.status = "terminated" /\ cached.status \in Live
          /\ app' = [app EXCEPT !.status = cached.status]
    /\ app' # app
    /\ UNCHANGED <<kept, pods, told, cached, warm, flow, tried, failures, holds>>

----------------------------------------------------------------------------
RedeployNext ==
    \/ PodStarts \/ PodExits \/ SweepApp \/ ReconcileApp
    \/ \E detected \in BOOLEAN : BeginRedeploy(detected)
    \/ EndOldPods \/ NotFound \/ CreateNewPod \/ NewPodRefused
    \/ KeepSpec \/ WriteImage \/ WritePlacement
    \/ Hold \/ Start \/ Delete \/ RestartServer

RedeploySpec == RedeployInit /\ [][RedeployNext]_redeployVars

----------------------------------------------------------------------------
(* Properties.                                                             *)

\* After a redeploy, a hold and a start in any order, the app runs the image
\* that its row names: the launch details a start uses must follow each
\* redeploy.  Excused are redeploys that lost an answer or a write, a row
\* that was terminated when its launch details were to be stored, and a start
\* while a redeploy is under way.
RunsWhatItsRowSays ==
    /\ flow.pc = "idle" /\ app.status \in Live
    /\ pods # <<>> /\ Newest.phase \in {"starting", "running"}
    /\ failures \subseteq {"create", "placement", "restart"}
    => Newest.image = app.image

\* An app kept as one of a home node never loses its public endpoint:
\* redeploys, starts, restarts of the control plane and the statuses of home
\* nodes, which carry none, all leave it.
EndpointStays == [][kept.home /\ app.endpoint => app'.endpoint]_redeployVars
=============================================================================
