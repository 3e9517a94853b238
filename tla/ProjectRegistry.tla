--------------------------- MODULE ProjectRegistry ---------------------------
(***************************************************************************)
(* The container registry of one project: its Harbor project with a robot  *)
(* account, the pull secret in Kubernetes and the row that remembers them  *)
(* (pkg/harbor), and the Kaniko builds that push with them (pkg/build).    *)
(*                                                                         *)
(* Callers are requests to provision or to revoke, and builds, which       *)
(* provision first.  Harbor, Kubernetes and the database are called one    *)
(* after the other, each call may fail, and a clean-up that fails is not   *)
(* tried again.  All builds have one tag, as those of a session have.      *)
(***************************************************************************)
EXTENDS Integers, FiniteSets, Sequences

CONSTANTS
  Callers,      \* requests and builds at a time
  MaxTitles,    \* bound: names the project has had
  MaxRobots,    \* bound: robot accounts made
  MaxRequests,  \* bound: requests and builds begun
  MaxMishaps,   \* bound: calls that fail
  Direct        \* the control plane has a client of Kubernetes

ASSUME RegistryAssumption ==
  /\ IsFiniteSet(Callers)
  /\ {MaxTitles, MaxRobots, MaxRequests, MaxMishaps} \subseteq Nat /\ MaxTitles > 0
  /\ Direct \in BOOLEAN

VARIABLES
  title,         \* the project's name
  projects,      \* Harbor: its projects, by the title they are named after
  robots,        \* Harbor: robot accounts, each of a project
  minted,        \* robots made so far
  secret,        \* secret[t]: the robot in the pull secret of t, 0: there is none
  credentials,   \* rows of auth.registry_credentials
  caller,        \* caller[c]: where it is, and what it holds
  kaniko,        \* the build's pod
  images,        \* images[t]: the caller whose pod pushed to t last
  begun,         \* requests and builds so far
  mishaps,       \* calls that have failed
  spills         \* of those, clean-ups; and callers cut short

registryVars == <<title, projects, robots, minted, secret, credentials, caller, kaniko, images,
                  begun, mishaps, spills>>

Titles == 1 .. MaxTitles
Away   == [at |-> "away", builds |-> FALSE, title |-> 0, row |-> 0, robot |-> 0, ok |-> FALSE]
NoPod  == [state |-> "none", by |-> "nobody", title |-> 0, robot |-> 0]

RegistryInit ==
  /\ title = 1
  /\ projects = {} /\ robots = {} /\ minted = 0
  /\ secret = [t \in Titles |-> 0]
  /\ credentials = << >>
  /\ caller = [c \in Callers |-> Away]
  /\ kaniko = NoPod
  /\ images = [t \in Titles |-> "nobody"]
  /\ begun = 0 /\ mishaps = 0 /\ spills = 0

\* revoked: the row that the call which revoked this one had read, 0: none.
InForce == {i \in DOMAIN credentials : credentials[i].revoked = 0}

GoTo(c, at) == caller' = [caller EXCEPT ![c].at = at]
Leave(c)    == caller' = [caller EXCEPT ![c] = Away]

Begins == begun < MaxRequests /\ begun' = begun + 1 /\ UNCHANGED <<mishaps, spills>>
Well   == UNCHANGED <<begun, mishaps, spills>>
Mishap == mishaps < MaxMishaps /\ mishaps' = mishaps + 1 /\ UNCHANGED <<begun, spills>>
Spill  == mishaps < MaxMishaps /\ mishaps' = mishaps + 1 /\ spills' = spills + 1 /\ UNCHANGED begun

Harbor  == <<projects, robots, minted>>
Builder == <<kaniko, images>>

RenameProject ==
  /\ title < MaxTitles
  /\ title' = title + 1
  /\ UNCHANGED <<Harbor, secret, credentials, caller, Builder, begun, mishaps, spills>>

-----------------------------------------------------------------------------
(* ProvisionProjectRegistry                                                 *)

Provision(c) ==
  /\ caller[c] = Away
  /\ \E b \in BOOLEAN :
        caller' = [caller EXCEPT ![c].at = "read", ![c].builds = b, ![c].title = title]
  /\ Begins
  /\ UNCHANGED <<title, Harbor, secret, credentials, Builder>>

\* Whoever has access to a project, a build goes on with its prefix.
Provided(c, t) ==
  caller' = [caller EXCEPT ![c] = IF @.builds
                                  THEN [Away EXCEPT !.at = "config", !.builds = TRUE, !.title = t]
                                  ELSE Away]

\* Any error of this counts as: not provisioned yet.
GetRegistryCredentials(c) ==
  /\ caller[c].at = "read"
  /\ \/ InForce = {} /\ GoTo(c, "project") /\ Well
     \/ \E i \in InForce :
           caller' = [caller EXCEPT ![c].at = "look up", ![c].row = i] /\ Well
     \/ GoTo(c, "project") /\ Mishap
  /\ UNCHANGED <<title, Harbor, secret, credentials, Builder>>

GetProject(c) ==
  /\ caller[c].at = "look up"
  /\ LET t == credentials[caller[c].row].title
     IN  \/ t \in projects /\ Provided(c, t) /\ Well
         \/ t \notin projects /\ GoTo(c, "project") /\ Well
         \/ GoTo(c, "project") /\ Mishap
  /\ UNCHANGED <<title, Harbor, secret, credentials, Builder>>

\* It is made and then looked up; when only that fails it stays.
CreateProject(c) ==
  /\ caller[c].at = "project"
  /\ LET t == caller[c].title
     IN  \/ t \in projects /\ Leave(c) /\ Well /\ UNCHANGED projects
         \/ t \notin projects /\ projects' = projects \union {t} /\ GoTo(c, "robot") /\ Well
         \/ projects' \in {projects, projects \union {t}} /\ Leave(c) /\ Mishap
  /\ UNCHANGED <<title, robots, minted, secret, credentials, Builder>>

\* It may be made although its answer is lost.
CreateRobotAccount(c) ==
  /\ caller[c].at = "robot"
  /\ \/ /\ minted < MaxRobots
        /\ minted' = minted + 1
        /\ robots' = robots \union {[id |-> minted', title |-> caller[c].title]}
        /\ \/ /\ caller' = [caller EXCEPT ![c].at = IF Direct THEN "secret" ELSE "store",
                                          ![c].robot = minted']
              /\ Well
           \/ GoTo(c, "drop project") /\ Mishap
     \/ GoTo(c, "drop project") /\ Mishap /\ UNCHANGED <<robots, minted>>
  /\ UNCHANGED <<title, projects, secret, credentials, Builder>>

\* A secret of that name that is still there is an error, too.
CreateImagePullSecret(c) ==
  /\ caller[c].at = "secret"
  /\ LET t == caller[c].title
     IN  \/ /\ secret[t] = 0
            /\ secret' = [secret EXCEPT ![t] = caller[c].robot]
            /\ GoTo(c, "store") /\ Well
         \/ secret[t] # 0 /\ GoTo(c, "drop robot") /\ Well /\ UNCHANGED secret
         \/ GoTo(c, "drop robot") /\ Mishap /\ UNCHANGED secret
  /\ UNCHANGED <<title, Harbor, credentials, Builder>>

\* mutant: the error is returned at once
StoreFailsOnly(c) == Leave(c)

\* The secret is deleted in a namespace that it is not in, and so stays.
StoreFails(c) == GoTo(c, "drop robot")

CredentialRow(c) ==
  [title |-> caller[c].title, robot |-> caller[c].robot, revoked |-> 0, undone |-> FALSE]

\* Harbor's name is unique among all rows, the revoked ones included.  A row
\* whose answer is lost is there, while what it is for is cleaned up.
StoreCredentials(c) ==
  /\ caller[c].at = "store"
  /\ LET t == caller[c].title
         taken == \E i \in DOMAIN credentials : credentials[i].title = t
     IN  \/ /\ ~taken
            /\ credentials' = Append(credentials, CredentialRow(c))
            /\ Provided(c, t) /\ Well
         \/ taken /\ StoreFails(c) /\ Well /\ UNCHANGED credentials
         \/ StoreFails(c) /\ Mishap /\ UNCHANGED credentials
         \/ /\ ~taken
            /\ credentials' = Append(credentials, [CredentialRow(c) EXCEPT !.undone = TRUE])
            /\ StoreFails(c) /\ Mishap
  /\ UNCHANGED <<title, Harbor, secret, Builder>>

DeleteRobotAccount(c) ==
  /\ caller[c].at = "drop robot"
  /\ GoTo(c, "drop project")
  /\ \/ robots' = {r \in robots : r.id # caller[c].robot} /\ Well
     \/ Spill /\ UNCHANGED robots
  /\ UNCHANGED <<title, projects, minted, secret, credentials, Builder>>

\* Harbor deletes a project with its robots.
DeleteProject(c) ==
  /\ caller[c].at = "drop project"
  /\ Leave(c)
  /\ \/ /\ projects' = projects \ {caller[c].title}
        /\ robots' = {r \in robots : r.title # caller[c].title}
        /\ Well
     \/ Spill /\ UNCHANGED <<projects, robots>>
  /\ UNCHANGED <<title, minted, secret, credentials, Builder>>

-----------------------------------------------------------------------------
(* RevokeRegistryAccess.  The Harbor project stays.                         *)

Revoke(c) ==
  /\ caller[c] = Away
  /\ GoTo(c, "find") /\ Begins
  /\ UNCHANGED <<title, Harbor, secret, credentials, Builder>>

FindRow(c) ==
  /\ caller[c].at = "find"
  /\ \/ InForce = {} /\ Leave(c) /\ Well
     \/ \E i \in InForce :
           caller' = [caller EXCEPT ![c].at = "revoke robot", ![c].row = i] /\ Well
     \/ Leave(c) /\ Mishap
  /\ UNCHANGED <<title, Harbor, secret, credentials, Builder>>

RevokeRobot(c) ==
  /\ caller[c].at = "revoke robot"
  /\ GoTo(c, IF Direct THEN "revoke secret" ELSE "mark")
  /\ credentials' = [credentials EXCEPT ![caller[c].row].undone = TRUE]
  /\ \/ robots' = {r \in robots : r.id # credentials[caller[c].row].robot} /\ Well
     \/ Spill /\ UNCHANGED robots
  /\ UNCHANGED <<title, projects, minted, secret, Builder>>

RevokeSecret(c) ==
  /\ caller[c].at = "revoke secret"
  /\ GoTo(c, "mark")
  /\ \/ secret' = [secret EXCEPT ![credentials[caller[c].row].title] = 0] /\ Well
     \/ Mishap /\ UNCHANGED secret
  /\ UNCHANGED <<title, Harbor, credentials, Builder>>

\* All rows of the project, not only the one that was read.
MarkRevoked(c) ==
  /\ caller[c].at = "mark"
  /\ Leave(c)
  /\ \/ /\ credentials' = [i \in DOMAIN credentials |->
                             IF i \in InForce
                             THEN [credentials[i] EXCEPT !.revoked = caller[c].row]
                             ELSE credentials[i]]
        /\ Well
     \/ Mishap /\ UNCHANGED credentials
  /\ UNCHANGED <<title, Harbor, secret, Builder>>

-----------------------------------------------------------------------------
(* Build                                                                    *)

\* The credential is read anew, of any row that is not revoked.
DockerConfigJSONForBuild(c) ==
  /\ caller[c].at = "config"
  /\ \/ \E i \in InForce :
           /\ credentials[i].title \in projects
           /\ caller' = [caller EXCEPT ![c].at = "launch", ![c].robot = credentials[i].robot]
           /\ Well
     \/ (\A i \in InForce : credentials[i].title \notin projects) /\ Leave(c) /\ Well
     \/ Leave(c) /\ Mishap
  /\ UNCHANGED <<title, Harbor, secret, credentials, Builder>>

\* A pod of that name is refused; one whose answer is lost runs unattended.
CreateInstance(c) ==
  /\ caller[c].at = "launch"
  /\ LET pod == [state |-> "running", by |-> c, title |-> caller[c].title,
                 robot |-> caller[c].robot]
     IN  \/ kaniko # NoPod /\ Leave(c) /\ Well /\ UNCHANGED kaniko
         \/ kaniko = NoPod /\ kaniko' = pod /\ GoTo(c, "wait") /\ Well
         \/ Leave(c) /\ Mishap /\ UNCHANGED kaniko
         \/ kaniko = NoPod /\ kaniko' = pod /\ Leave(c) /\ Spill
  /\ UNCHANGED <<title, Harbor, secret, credentials, images>>

\* Harbor takes a push from a robot of that project.
Push ==
  /\ kaniko.state = "running"
  /\ \/ /\ [id |-> kaniko.robot, title |-> kaniko.title] \in robots
        /\ images' = [images EXCEPT ![kaniko.title] = kaniko.by]
        /\ kaniko' = [kaniko EXCEPT !.state = "terminated"]
     \/ kaniko' = [kaniko EXCEPT !.state = "failed"] /\ UNCHANGED images
  /\ Well
  /\ UNCHANGED <<title, Harbor, secret, credentials, caller>>

\* Until the pod has ended, or the time is up.
WaitForCompletion(c) ==
  /\ caller[c].at = "wait"
  /\ \/ /\ kaniko.state \in {"terminated", "failed"}
        /\ caller' = [caller EXCEPT ![c].at = "clean up", ![c].ok = kaniko.state = "terminated"]
        /\ Well
     \/ GoTo(c, "clean up") /\ Mishap
  /\ UNCHANGED <<title, Harbor, secret, credentials, Builder>>

DeleteInstance(c) ==
  /\ caller[c].at = "clean up"
  /\ Leave(c)
  /\ \/ kaniko' = NoPod /\ Well
     \/ Spill /\ UNCHANGED kaniko
  /\ UNCHANGED <<title, Harbor, secret, credentials, images>>

\* The process ends, and every call with it.
Crash ==
  /\ mishaps < MaxMishaps
  /\ mishaps' = mishaps + 1
  /\ spills' = spills + Cardinality({c \in Callers : caller[c] # Away})
  /\ caller' = [c \in Callers |-> Away]
  /\ UNCHANGED <<title, Harbor, secret, credentials, Builder, begun>>

-----------------------------------------------------------------------------
RegistryNext ==
  \/ RenameProject \/ Push \/ Crash
  \/ \E c \in Callers :
        \/ Provision(c) \/ GetRegistryCredentials(c) \/ GetProject(c) \/ CreateProject(c)
        \/ CreateRobotAccount(c) \/ CreateImagePullSecret(c) \/ StoreCredentials(c)
        \/ DeleteRobotAccount(c) \/ DeleteProject(c)
        \/ Revoke(c) \/ FindRow(c) \/ RevokeRobot(c) \/ RevokeSecret(c) \/ MarkRevoked(c)
        \/ DockerConfigJSONForBuild(c) \/ CreateInstance(c) \/ WaitForCompletion(c)
        \/ DeleteInstance(c)

RegistrySpec == RegistryInit /\ [][RegistryNext]_registryVars

-----------------------------------------------------------------------------
\* A caller that still holds the robot, or will delete its project.
Attended(r) == \E c \in Callers :
  \/ caller[c].robot = r.id /\ caller[c].at \in {"secret", "store", "drop robot"}
  \/ caller[c].title = r.title /\ caller[c].at = "drop project"

\* Robots that may push and that no row in use names; but for those whose row
\* was revoked by a call that had read another row.
Strays == {r \in robots :
  /\ ~Attended(r)
  /\ \A i \in DOMAIN credentials :
        credentials[i].robot = r.id => credentials[i].revoked = i}

\* Whatever fails on the way of a provisioning or revocation, and whichever of
\* them overlap, each robot account that outlives its record is due to a
\* clean-up that failed or a process that died (ProvisionProjectRegistry,
\* RevokeRegistryAccess).
StraysExcused == Cardinality(Strays) <= spills

\* What a row in use promises is there, unless it is being revoked or was
\* taken for not stored (GetRegistryCredentials).
RowsWork == \A i \in InForce :
  ~credentials[i].undone =>
    /\ credentials[i].title \in projects
    /\ [id |-> credentials[i].robot, title |-> credentials[i].title] \in robots
    /\ Direct => secret[credentials[i].title] = credentials[i].robot

\* A build that reports success has pushed what it reports, also when several
\* run with one tag, and no pod is left behind but by a failure of its
\* clean-up (Build).
BuildsPush ==
  /\ \A c \in Callers : caller[c].at = "clean up" /\ caller[c].ok => images[caller[c].title] = c
  /\ kaniko # NoPod => spills > 0 \/ caller[kaniko.by].at \in {"wait", "clean up"}

RegistrySound == StraysExcused /\ RowsWork /\ BuildsPush
=============================================================================
