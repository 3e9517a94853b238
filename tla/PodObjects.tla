----------------------------- MODULE PodObjects -----------------------------
(***************************************************************************)
(* One instance as Kubernetes objects: its pods, volume claim, network     *)
(* policy, service and ingress, and the orders of the agent that create,   *)
(* replace and remove them, one call of the API server at a time           *)
(* (pkg/cluster/direct.go, pkg/networking, pkg/agentrunner/runner.go).     *)
(* Each order is a goroutine of its own: nothing keeps two for the same    *)
(* instance apart.                                                         *)
(*                                                                         *)
(* The instance is a customer's, or the agent of a build session, whose    *)
(* claim holds the customer's files and outlives its pods.                 *)
(***************************************************************************)
EXTENDS Integers, FiniteSets, FiniteSetsExt

CONSTANTS MaxOrders,   \* bound: orders for the instance
          MaxSlips,    \* bound: calls that fail
          MaxTurns     \* bound: changes of a pod's phase by itself

VARIABLE site   \* the objects, the orders under way, and what has happened

Orders == 1..MaxOrders
Kinds  == {"create", "update", "stop", "delete"}
Phases == {"pending", "unstartable", "running", "succeeded", "failed", "unknown", "given up"}

NoPods  == [p \in {} |-> "pending"]
NoOrder == [kind |-> "none", at |-> "idle", pods |-> {}]

Site(hidden, disk, ports) ==
    [hidden |-> hidden, disk |-> disk, ports |-> ports,
     pods |-> NoPods, ending |-> {}, made |-> 0,
     claim |-> FALSE, policy |-> FALSE, service |-> FALSE, ingress |-> FALSE,
     orders |-> [o \in Orders |-> NoOrder], slips |-> 0, turns |-> 0,
     files |-> FALSE,    \* an agent has worked on the claim
     met |-> FALSE,      \* two orders have been under way at once
     hasty |-> FALSE,    \* a delete came while a pod was still ending
     strayed |-> FALSE,  \* a pod has disappeared by itself
     left |-> FALSE,     \* a create has left a pod behind that may come up again
     last |-> "none"]    \* the order that ended last, if it worked

NoSite == Site(FALSE, FALSE, FALSE)

SiteInit ==
    \E hidden, disk, ports \in BOOLEAN :
      (hidden => disk /\ ~ports) /\ site = Site(hidden, disk, ports)

----------------------------------------------------------------------------
(* What the agent reports of the instance: its newest pod. *)

Pods == DOMAIN site.pods
Up   == {p \in Pods \ site.ending : site.pods[p] \in {"pending", "running", "unstartable"}}

podStatus(phase) ==
    CASE phase \in {"unstartable", "failed"} -> "failed"
      [] phase \in {"succeeded", "given up"} -> "terminated"
      [] phase \in {"pending", "unknown"}    -> "pending"
      [] OTHER                               -> phase

Reported == IF Pods = {} THEN "none" ELSE podStatus(site.pods[Max(Pods)])

\* Its address is computed from its name whatever objects there are.
ReportedEndpoint ==
    [url |-> site.ports /\ Pods # {}, port |-> site.service, secure |-> site.ingress]

----------------------------------------------------------------------------
(* The orders. *)

Busy(o)     == site.orders[o].at # "idle"
OrderAt(o, at)   == site.orders[o].at = at
Goes(o, at) ==
    [site.orders EXCEPT ![o] = IF at = "idle" THEN [NoOrder EXCEPT !.kind = "done"]
                               ELSE [@ EXCEPT !.at = at]]

\* An agent is launched, and removed while it is reported alive.
Receive(o, kind) ==
    /\ site.orders[o].kind = "none" /\ \A before \in 1..o - 1 : site.orders[before].kind # "none"
    /\ site.hidden => \/ kind = "create"
                      \/ kind = "delete" /\ Reported \in {"pending", "running"}
    /\ site' = [site EXCEPT !.orders[o] = [NoOrder EXCEPT !.kind = kind, !.at = "find"],
                            !.met = @ \/ \E other \in Orders : Busy(other),
                            !.hasty = @ \/ (kind = "delete" /\ site.ending # {}),
                            !.last = "none"]

\* The calls that fail with their order, and nothing of it is undone.
CallFails(o) ==
    /\ Busy(o) /\ ~OrderAt(o, "service") /\ ~OrderAt(o, "ingress") /\ ~OrderAt(o, "revoke")
    /\ site.slips < MaxSlips
    /\ site' = [site EXCEPT !.slips = @ + 1, !.orders = Goes(o, "idle")]

\* Pods that may yet run, whatever is reported of them.
MayRun(p) == p \in Pods \ site.ending /\ site.pods[p] \notin {"succeeded", "failed"}

\* A create that finds the instance alive is a redelivered one; an update
\* must find a pod to replace; a removal goes on with what it finds.
Find(o) ==
    LET kind == site.orders[o].kind
        next == IF kind = "create"
                THEN IF Reported \in {"pending", "running"} THEN "idle" ELSE "claim"
                ELSE IF kind = "update" /\ Pods = {} THEN "idle" ELSE "pods" IN
    /\ OrderAt(o, "find")
    /\ site' = [site EXCEPT !.orders = [Goes(o, next) EXCEPT
                                ![o].pods = IF next = "pods" THEN Pods ELSE {}]]

\* The pods that were listed are told to end.  A removal that listed one
\* revokes the endpoint too.
EndPods(o) ==
    LET order == site.orders[o] IN
    /\ OrderAt(o, "pods")
    /\ site' = [site EXCEPT
         !.ending = @ \union (order.pods \intersect Pods),
         !.orders = Goes(o, IF order.kind = "update" THEN "claim"
                            ELSE IF site.ports /\ order.pods # {} THEN "revoke" ELSE "volume")]

\* PVC, then policy, then pod; the first two may be there already.
CreateClaim(o) ==
    /\ OrderAt(o, "claim")
    /\ site' = [site EXCEPT !.claim = @ \/ site.disk, !.orders = Goes(o, "policy")]

CreatePolicy(o) ==
    /\ OrderAt(o, "policy")
    /\ site' = [site EXCEPT !.policy = TRUE, !.orders = Goes(o, "pod")]

CreatePod(o) ==
    LET p == site.made + 1 IN
    /\ OrderAt(o, "pod")
    /\ site' = [site EXCEPT
         !.made = p, !.files = @ \/ site.hidden,
         !.left = @ \/ (site.orders[o].kind = "create" /\ \E q \in Pods : MayRun(q)),
         !.pods = [q \in Pods \union {p} |-> IF q = p THEN "pending" ELSE site.pods[q]],
         !.orders = Goes(o, IF site.ports THEN "service" ELSE "idle"),
         !.last = IF site.ports THEN @ ELSE site.orders[o].kind]

\* A service that is there already serves.  An endpoint that cannot be made
\* does not fail the order.
createInstanceService(o) ==
    /\ OrderAt(o, "service")
    /\ \/ site' = [site EXCEPT !.service = TRUE, !.orders = Goes(o, "ingress")]
       \/ /\ site.slips < MaxSlips
          /\ site' = [site EXCEPT !.slips = @ + 1, !.orders = Goes(o, "idle"),
                                  !.last = site.orders[o].kind]

\* An ingress that cannot be made takes the service with it, and one that
\* is there already cannot be made.
createIngress(o) ==
    LET fails(slip) == [site EXCEPT !.service = FALSE, !.slips = @ + slip,
                                    !.orders = Goes(o, "idle"), !.last = site.orders[o].kind] IN
    /\ OrderAt(o, "ingress")
    /\ \/ site' = IF site.ingress THEN fails(0)
                  ELSE [site EXCEPT !.ingress = TRUE, !.last = site.orders[o].kind,
                                    !.orders = Goes(o, "idle")]
       \/ site.slips < MaxSlips /\ site' = fails(1)

\* Ingress first, and the service only if that works; failures are ignored.
RevokeEndpoint(o) ==
    /\ OrderAt(o, "revoke")
    /\ \/ site' = [site EXCEPT !.ingress = FALSE, !.service = FALSE, !.orders = Goes(o, "volume")]
       \/ /\ site.slips < MaxSlips
          /\ \E ingress \in {site.ingress, FALSE} :
               site' = [site EXCEPT !.slips = @ + 1, !.ingress = ingress,
                                    !.orders = Goes(o, "volume")]

\* Mutant of keepsVolume: an agent is removed like any other instance.
keepsVolumeOfStopped(o) == site.orders[o].kind = "stop"

\* A stop keeps the volume, and so does the removal of an agent, which is
\* known for one by the pods that were listed.
keepsVolume(o) ==
    \/ site.orders[o].kind = "stop"
    \/ site.hidden /\ site.orders[o].pods # {}

DeleteVolume(o) ==
    /\ OrderAt(o, "volume")
    /\ site' = [site EXCEPT !.claim = @ /\ keepsVolume(o), !.orders = Goes(o, "last")]

DeletePolicy(o) ==
    /\ OrderAt(o, "last")
    /\ site' = [site EXCEPT !.policy = FALSE, !.orders = Goes(o, "idle"),
                            !.last = site.orders[o].kind]

----------------------------------------------------------------------------
(* The pods. *)

\* A pod that was told to end is gone after its grace period; others can be
\* evicted or their node removed.
PodGone(p) ==
    /\ p \in Pods /\ (p \notin site.ending => site.turns < MaxTurns)
    /\ site' = [site EXCEPT !.pods = [q \in Pods \ {p} |-> site.pods[q]],
                            !.ending = @ \ {p},
                            !.strayed = @ \/ p \notin site.ending,
                            !.turns = IF p \in site.ending THEN @ ELSE @ + 1]

PodTurns(p, phase) ==
    /\ p \in Pods /\ site.turns < MaxTurns
    /\ CASE site.pods[p] = "pending"     -> phase \in {"running", "unstartable", "unknown"}
         [] site.pods[p] = "unstartable" -> phase \in {"running", "unknown"}
         [] site.pods[p] = "running"     -> phase \in {"succeeded", "failed", "unknown"}
         [] site.pods[p] = "unknown"     -> phase \in {"running", "given up"}
         [] site.pods[p] = "given up"    -> phase = "running"
         [] OTHER                        -> FALSE
    /\ site' = [site EXCEPT !.pods[p] = phase, !.turns = @ + 1]

SiteNext ==
    \/ \E o \in Orders :
         \/ \E kind \in Kinds : Receive(o, kind)
         \/ CallFails(o) \/ Find(o) \/ EndPods(o)
         \/ CreateClaim(o) \/ CreatePolicy(o) \/ CreatePod(o)
         \/ createInstanceService(o) \/ createIngress(o)
         \/ RevokeEndpoint(o) \/ DeleteVolume(o) \/ DeletePolicy(o)
    \/ \E p \in 1..site.made : PodGone(p) \/ \E phase \in Phases : PodTurns(p, phase)

SiteSpec == SiteInit /\ [][SiteNext]_site

----------------------------------------------------------------------------
(* What should hold. *)

Alone == ~site.met

\* A pod is never up without its network policy, nor one with a disk without
\* its claim, unless orders for the instance have overlapped
\* (direct.go:279-287).
Isolated == Alone /\ Up # {} => site.policy /\ (site.disk => site.claim)

\* An agent's files outlive its pods, unless its pod has disappeared by
\* itself or a delete came while the pod of an earlier order was ending
\* (direct.go:487-504).
WorkspaceKept == Alone /\ site.files /\ ~site.strayed /\ ~site.hasty => site.claim

\* A delete that works leaves nothing of a customer's instance, unless the
\* endpoint could not be revoked or no pod was left to find it by.
LeavesNothing ==
    Alone /\ site.last = "delete" /\ ~site.hidden =>
      /\ Pods \subseteq site.ending /\ ~site.policy /\ ~site.claim
      /\ site.slips = 0 /\ ~site.strayed => ~site.service /\ ~site.ingress

\* An instance is reported ended only when no pod of it runs, unless a create
\* has left a pod behind that was reported failed or given up and came up
\* later: a redeploy never does (direct.go:839-850, runner.go:449-460).
EndedIsEnded ==
    Alone /\ ~site.left /\ Reported = "terminated" => ~\E p \in Up : site.pods[p] = "running"

\* The objects of an instance whose orders come one after the other, each
\* with steps that may fail, are those its customer was promised.
ObjectsSound == Isolated /\ WorkspaceKept /\ LeavesNothing /\ EndedIsEnded

\* An instance that asked for ports and whose last order replaced its pod is
\* reachable, as long as no call of the API server failed
\* (direct.go:349-359).
EndpointKept ==
    Alone /\ site.slips = 0 /\ site.ports /\ site.last = "update" =>
        site.service /\ site.ingress
=============================================================================
