------------------------------ MODULE Projects ------------------------------
(***************************************************************************)
(* A project of an account (pkg/auth, pkg/api/auth_handlers.go): its keys, *)
(* the instances created in it, and its deletion, which refuses while      *)
(* instances are live and revokes the keys.  Requests are authenticated    *)
(* first and write their row later; nothing locks the project.             *)
(***************************************************************************)
EXTENDS Naturals

CONSTANTS
  Keys,        \* API keys that may be created
  Requests     \* creations of instances

VARIABLES
  project,     \* "none", "open" or "deleted"
  deleting,    \* a deletion has counted no live instance and goes on
  key,         \* key[k]: "none", "checked", "live" or "revoked"
  request,     \* request[r]: "none", "admitted", "live" or "ended"
  overlapping  \* requests under way at some time during the deletion

projectVars == <<project, deleting, key, request, overlapping>>

InState(state) == {r \in Requests : request[r] = state}

ProjectInit ==
  /\ project = "none"
  /\ deleting = FALSE
  /\ key = [k \in Keys |-> "none"]
  /\ request = [r \in Requests |-> "none"]
  /\ overlapping = {}

CreateProject ==
  /\ project = "none"
  /\ project' = "open"
  /\ UNCHANGED <<deleting, key, request, overlapping>>

\* CreateAPIKey: the handler looks the project up, and then inserts the key.
CheckProject(k) ==
  /\ key[k] = "none" /\ project = "open"
  /\ key' = [key EXCEPT ![k] = "checked"]
  /\ UNCHANGED <<project, deleting, request, overlapping>>

InsertKey(k) ==
  /\ key[k] = "checked"
  /\ key' = [key EXCEPT ![k] = "live"]
  /\ UNCHANGED <<project, deleting, request, overlapping>>

RevokeAPIKey(k) ==
  /\ key[k] = "live" /\ project = "open"
  /\ key' = [key EXCEPT ![k] = "revoked"]
  /\ UNCHANGED <<project, deleting, request, overlapping>>

\* Mutant of ValidateAPIKey: the project is not joined.
ValidateKeyOnly(k) == key[k] = "live"

\* ValidateAPIKey: a key opens its project, which must not be deleted.
ValidateAPIKey(k) == key[k] = "live" /\ project = "open"

\* authenticate: a signed-in user names a project of the account, or a key does.
Authenticate(r) ==
  /\ request[r] = "none"
  /\ project = "open" \/ \E k \in Keys : ValidateAPIKey(k)
  /\ request' = [request EXCEPT ![r] = "admitted"]
  /\ overlapping' = IF deleting THEN overlapping \cup {r} ELSE overlapping
  /\ UNCHANGED <<project, deleting, key>>

\* CreateInstance writes its row at the end, or never.
RecordInstance(r) ==
  /\ request[r] = "admitted"
  /\ \E state \in {"live", "ended"} : request' = [request EXCEPT ![r] = state]
  /\ UNCHANGED <<project, deleting, key, overlapping>>

EndInstance(r) ==
  /\ request[r] = "live"
  /\ request' = [request EXCEPT ![r] = "ended"]
  /\ UNCHANGED <<project, deleting, key, overlapping>>

\* DeleteProject: the count, and the transaction that may fail.
CountInstances ==
  /\ project = "open" /\ ~deleting
  /\ InState("live") = {}
  /\ deleting' = TRUE
  /\ overlapping' = InState("admitted")
  /\ UNCHANGED <<project, key, request>>

RevokeAndDelete ==
  /\ deleting
  /\ deleting' = FALSE
  /\ project' = "deleted"
  /\ key' = [k \in Keys |-> IF key[k] = "live" THEN "revoked" ELSE key[k]]
  /\ UNCHANGED <<request, overlapping>>

DeleteFails ==
  /\ deleting
  /\ deleting' = FALSE
  /\ overlapping' = {}
  /\ UNCHANGED <<project, key, request>>

ProjectNext ==
  \/ CreateProject
  \/ \E k \in Keys : CheckProject(k) \/ InsertKey(k) \/ RevokeAPIKey(k)
  \/ \E r \in Requests : Authenticate(r) \/ RecordInstance(r) \/ EndInstance(r)
  \/ CountInstances \/ RevokeAndDelete \/ DeleteFails

ProjectSpec == ProjectInit /\ [][ProjectNext]_projectVars

-----------------------------------------------------------------------------
(* What should hold. *)

\* A deletion strands no instance but those whose creation overlapped with it:
\* none that was live, and none asked for later, with whatever key
\* (service.go:408-410, 448-449).
StrandsOnlyOverlapping ==
  project = "deleted" => InState("live") \subseteq overlapping
=============================================================================
