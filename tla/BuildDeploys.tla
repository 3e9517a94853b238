---------------------------- MODULE BuildDeploys ----------------------------
(***************************************************************************)
(* One Teepin Build session: the versions of its workspace, the plans its  *)
(* customer approves, and the deploys that build the workspace and run it  *)
(* (api/build_handlers.go, teepinbuild/session.go, workspace.go,           *)
(* plans.go).  A deploy reads the session, claims the session's deploy     *)
(* lock, and then builds, creates or updates the app, and marks what it    *)
(* shipped, one statement at a time; saves and rollbacks go on meanwhile.  *)
(*                                                                         *)
(* A workspace is one number, 0 for a workspace without files.  An app is  *)
(* what it runs, or Gone once the customer has terminated it.              *)
(***************************************************************************)
EXTENDS Integers, Sequences

CONSTANTS Deploys,       \* deploy calls under way at once
          Savers,        \* saves under way at once: the agent's, the customer's
          FlowTimeout,   \* deployFlowTimeout, in ticks
          StaleAfter,    \* deployLockStaleAfter, in ticks
          Sizes,         \* sizes of app a plan and a deploy name
          MaxVersions,   \* MaxWorkspaceVersions
          MaxPlans,      \* MaxPlansPerSession
          MaxEdits,      \* bound: contents the workspace has had
          MaxApps,       \* bound: apps created
          MaxCrashes     \* bound: crashes of the control plane

ASSUME DeployAssumption == FlowTimeout \in Nat /\ StaleAfter \in Nat /\ FlowTimeout < StaleAfter

VARIABLES build,      \* the row of the session
          versions,   \* build_workspace_versions, by version
          plans,      \* build_plans, in order of creation
          apps,       \* the instances deploys created, in order of creation
          deploys,    \* the deploy calls
          saving,     \* the saves
          edits, crashes

deployVars == <<build, versions, plans, apps, deploys, saving, edits, crashes>>

Gone == -1
NoApp == 0
Free == -1          \* deploy_lock_acquired_at IS NULL
NoVersion == 0
Unasked == [pc |-> "idle", app |-> NoApp, image |-> 0, size |-> 0, age |-> 0, made |-> NoApp]
NotSaving == [pc |-> "idle", content |-> 0, version |-> NoVersion, draft |-> FALSE, empty |-> TRUE]

DeploysInit ==
    /\ build = [app |-> NoApp, approved |-> FALSE, plan |-> 0, lock |-> Free,
                current |-> NoVersion, deployed |-> NoVersion, failed |-> FALSE]
    /\ versions = <<>> /\ plans = <<>> /\ apps = <<>>
    /\ deploys = [d \in Deploys |-> Unasked]
    /\ saving = [s \in Savers |-> NotSaving]
    /\ edits = 0 /\ crashes = 0

\* The calls that hold the deploy lock, or believe they do.
InFlow(d) == deploys[d].pc \notin {"idle", "loaded"}

----------------------------------------------------------------------------
(* The workspace.                                                          *)

\* SaveVersion: it reads the current version first, with no lock on it.
ReadDraft(s, content) ==
    /\ saving[s].pc = "idle"
    /\ content \in {0, edits + 1}
    /\ content <= MaxEdits
    /\ edits' = IF content = 0 THEN edits ELSE content
    /\ LET v == build.current IN
         saving' = [saving EXCEPT ![s] =
            [pc |-> "read", content |-> content, version |-> v,
             draft |-> v # NoVersion /\ ~versions[v].checkpoint,
             empty |-> v = NoVersion \/ versions[v].content = 0]]
    /\ UNCHANGED <<build, versions, plans, apps, deploys, crashes>>

\* ... and writes the draft it read in place (an empty workspace never over
\* one with files).
OverwriteDraft(s) ==
    LET w == saving[s] IN
    /\ w.pc = "read" /\ w.draft
    /\ versions' = IF w.content = 0 /\ ~w.empty THEN versions
                   ELSE [versions EXCEPT ![w.version].content = w.content]
    /\ saving' = [saving EXCEPT ![s] = NotSaving]
    /\ UNCHANGED <<build, plans, apps, deploys, edits, crashes>>

\* ... or adds a version and moves the pointer to it.
AddVersion(s) ==
    LET w == saving[s] IN
    /\ w.pc = "read" /\ ~w.draft
    /\ IF Len(versions) >= MaxVersions THEN UNCHANGED <<versions, build>>
       ELSE /\ versions' = Append(versions, [content |-> w.content, checkpoint |-> FALSE])
            /\ build' = [build EXCEPT !.current = Len(versions) + 1]
    /\ saving' = [saving EXCEPT ![s] = NotSaving]
    /\ UNCHANGED <<plans, apps, deploys, edits, crashes>>

\* SetCurrentVersion: a rollback, to a checkpointed version only.
Rollback(v) ==
    /\ v \in DOMAIN versions /\ versions[v].checkpoint
    /\ build' = [build EXCEPT !.current = v]
    /\ UNCHANGED <<versions, plans, apps, deploys, saving, edits, crashes>>

----------------------------------------------------------------------------
(* Plans.                                                                  *)

RecordPlan(size) ==
    /\ Len(plans) < MaxPlans
    /\ plans' = Append(plans, [size |-> size, approved |-> FALSE])
    /\ UNCHANGED <<build, versions, apps, deploys, saving, edits, crashes>>

\* ApprovePlan: plan p, or (p = 0) the session as a whole when it has no plan.
ApprovePlan(p) ==
    /\ \/ p \in DOMAIN plans /\ plans' = [plans EXCEPT ![p].approved = TRUE]
       \/ p = 0 /\ plans = <<>> /\ UNCHANGED plans
    /\ build' = [build EXCEPT !.approved = TRUE, !.plan = IF p = 0 THEN @ ELSE p]
    /\ UNCHANGED <<versions, apps, deploys, saving, edits, crashes>>

\* CheckApprovedFor.
FitsPlan(size) == build.plan = 0 \/ size <= plans[build.plan].size

----------------------------------------------------------------------------
(* The deploy lock and the deploys.                                        *)

Goes(d, pc) == deploys' = [deploys EXCEPT ![d].pc = pc]

\* The end of the handler: the deferred release, whoever holds the lock.
Return(d) ==
    /\ deploys' = [deploys EXCEPT ![d] = Unasked]
    /\ build' = [build EXCEPT !.lock = Free]

\* The handler records the outcome and returns.
Fail(d) ==
    /\ deploys' = [deploys EXCEPT ![d] = Unasked]
    /\ build' = [build EXCEPT !.lock = Free, !.failed = TRUE]

\* GetSession, before the lock; what it read is used until the end.
LoadSession(d, size) ==
    /\ deploys[d].pc = "idle" /\ build.approved
    /\ deploys' = [deploys EXCEPT ![d] =
                     [Unasked EXCEPT !.pc = "loaded", !.app = build.app, !.size = size]]
    /\ UNCHANGED <<build, versions, plans, apps, saving, edits, crashes>>

\* AcquireDeployLock: free, or held for longer than a deploy can take (early:
\* a lock trusted no longer than the deploy it guards).
ClaimableEarly == build.lock = Free \/ build.lock >= FlowTimeout
Claimable == build.lock = Free \/ build.lock >= StaleAfter

AcquireDeployLock(d) ==
    /\ deploys[d].pc = "loaded"
    /\ IF Claimable
       THEN Goes(d, "locked") /\ build' = [build EXCEPT !.lock = 0]
       ELSE deploys' = [deploys EXCEPT ![d] = Unasked] /\ UNCHANGED build
    /\ UNCHANGED <<versions, plans, apps, saving, edits, crashes>>

\* refuseUnapprovedResources.
CheckPlan(d) ==
    /\ deploys[d].pc = "locked"
    /\ IF FitsPlan(deploys[d].size)
       THEN deploys' = [deploys EXCEPT ![d].pc = "fits", ![d].size = 0] /\ UNCHANGED build
       ELSE Return(d)
    /\ UNCHANGED <<versions, plans, apps, saving, edits, crashes>>

\* buildSessionImage: the builder fetches the archive of the current version.
FetchArchive(d) ==
    /\ deploys[d].pc = "fits"
    /\ \/ Fail(d)
       \/ /\ build.current # NoVersion
          /\ deploys' = [deploys EXCEPT ![d].pc = "built",
                                        ![d].image = versions[build.current].content]
          /\ UNCHANGED build
    /\ UNCHANGED <<versions, plans, apps, saving, edits, crashes>>

\* A first deploy: CreateInstance.
CreateApp(d) ==
    /\ deploys[d].pc = "built" /\ deploys[d].app = NoApp
    /\ \/ Fail(d) /\ UNCHANGED apps
       \/ /\ Len(apps) < MaxApps
          /\ apps' = Append(apps, deploys[d].image)
          /\ deploys' = [deploys EXCEPT ![d].pc = "created", ![d].made = Len(apps) + 1]
          /\ UNCHANGED build
    /\ UNCHANGED <<versions, plans, saving, edits, crashes>>

\* SetAppInstanceID; a failure is logged.
RecordApp(d) ==
    /\ deploys[d].pc = "created"
    /\ Goes(d, "shipped")
    /\ \/ build' = [build EXCEPT !.app = deploys[d].made]
       \/ UNCHANGED build
    /\ UNCHANGED <<versions, plans, apps, saving, edits, crashes>>

\* redeployBuildInstance: the app the session named when it was read; one
\* that is gone ends the deploy with no outcome recorded.
UpdateApp(d) ==
    LET a == deploys[d].app IN
    /\ deploys[d].pc = "built" /\ a # NoApp
    /\ \/ apps[a] = Gone /\ Return(d) /\ UNCHANGED apps
       \/ apps[a] # Gone /\ Fail(d) /\ UNCHANGED apps
       \/ /\ apps[a] # Gone
          /\ apps' = [apps EXCEPT ![a] = deploys[d].image]
          /\ Goes(d, "shipped") /\ UNCHANGED build
    /\ UNCHANGED <<versions, plans, saving, edits, crashes>>

\* CheckpointCurrentVersion, first statement: the version that is current
\* now.  A failure is logged and skips the second.
Checkpoint(d) ==
    /\ deploys[d].pc = "shipped"
    /\ \/ Goes(d, "ready") /\ UNCHANGED versions
       \/ /\ Goes(d, "checkpointed")
          /\ versions' = IF build.current = NoVersion THEN versions
                         ELSE [versions EXCEPT ![build.current].checkpoint = TRUE]
    /\ UNCHANGED <<build, plans, apps, saving, edits, crashes>>

\* ... second statement: last_deployed_version = current_workspace_version.
RecordDeployed(d) ==
    /\ deploys[d].pc = "checkpointed"
    /\ Goes(d, "ready")
    /\ \/ build' = [build EXCEPT !.deployed = build.current]
       \/ UNCHANGED build
    /\ UNCHANGED <<versions, plans, apps, saving, edits, crashes>>

\* waitForEndpointReady, recordDeployOutcome("") and the release.
FinishDeploy(d) ==
    /\ deploys[d].pc = "ready"
    /\ deploys' = [deploys EXCEPT ![d] = Unasked]
    /\ build' = [build EXCEPT !.lock = Free, !.failed = FALSE]
    /\ UNCHANGED <<versions, plans, apps, saving, edits, crashes>>

----------------------------------------------------------------------------
(* The surroundings.                                                       *)

\* DELETE of the app's instance by the customer.
TerminateApp(a) ==
    /\ a \in DOMAIN apps /\ apps[a] # Gone
    /\ apps' = [apps EXCEPT ![a] = Gone]
    /\ UNCHANGED <<build, versions, plans, deploys, saving, edits, crashes>>

\* The process ends: its deploys stop where they are, the lock stays.
CrashControlPlane ==
    /\ crashes < MaxCrashes
    /\ crashes' = crashes + 1
    /\ deploys' = [d \in Deploys |-> Unasked]
    /\ saving' = [s \in Savers |-> NotSaving]
    /\ UNCHANGED <<build, versions, plans, apps, edits>>

\* Time passes.  A deploy's context ends it after FlowTimeout, so no call is
\* older than that; the age of the lock counts up to StaleAfter.
PassTick ==
    /\ \A d \in Deploys : deploys[d].age < FlowTimeout
    /\ build.lock # Free \/ \E d \in Deploys : deploys[d].pc # "idle"
    /\ build' = [build EXCEPT !.lock = IF @ = Free \/ @ = StaleAfter THEN @ ELSE @ + 1]
    /\ deploys' = [d \in Deploys |->
                     IF deploys[d].pc = "idle" THEN deploys[d]
                     ELSE [deploys[d] EXCEPT !.age = @ + 1]]
    /\ UNCHANGED <<versions, plans, apps, saving, edits, crashes>>

DeploysNext ==
    \/ \E s \in Savers : \/ \E content \in 0 .. MaxEdits : ReadDraft(s, content)
                         \/ OverwriteDraft(s) \/ AddVersion(s)
    \/ \E v \in 1 .. MaxVersions : Rollback(v)
    \/ \E size \in Sizes : RecordPlan(size)
    \/ \E p \in 0 .. MaxPlans : ApprovePlan(p)
    \/ \E d \in Deploys :
         \/ \E size \in Sizes : LoadSession(d, size)
         \/ AcquireDeployLock(d) \/ CheckPlan(d) \/ FetchArchive(d)
         \/ CreateApp(d) \/ RecordApp(d) \/ UpdateApp(d)
         \/ Checkpoint(d) \/ RecordDeployed(d) \/ FinishDeploy(d)
    \/ \E a \in 1 .. MaxApps : TerminateApp(a)
    \/ CrashControlPlane
    \/ PassTick

DeploysSpec == DeploysInit /\ [][DeploysNext]_deployVars

----------------------------------------------------------------------------
\* Two deploys of one session never overlap, crashes and stale locks
\* included: the incident AcquireDeployLock's comment describes.
OneDeployAtATime == \A d, e \in Deploys : InFlow(d) /\ InFlow(e) => d = e
=============================================================================
