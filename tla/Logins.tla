------------------------------- MODULE Logins -------------------------------
(***************************************************************************)
(* The logins of an account (pkg/auth): sub-users that its owner and its   *)
(* admins create, change, disable and remove, and the tokens they hold.    *)
(* An access token carries the role its user had when it was issued and is *)
(* checked against no row; a refresh token is exchanged for a new pair.    *)
(* Time is counted in ticks of the shortest interval that matters.         *)
(***************************************************************************)
EXTENDS Naturals, FiniteSets

CONSTANTS
  Users,           \* sub-users that may be created
  Roles,           \* roles they may have, of "admin", "member", "viewer"
  AccessLife,      \* lifetime of an access token, in ticks
  RefreshLife,     \* lifetime of a refresh token
  MaxTokens        \* bound: tokens that are valid at once

ASSUME LoginAssumption ==
  /\ {AccessLife, RefreshLife} \subseteq Nat \ {0}
  /\ MaxTokens \in Nat
  /\ "none" \notin Roles
  /\ "owner" \notin Users

VARIABLES
  user,        \* user[u]: role, status and deleted_at
  suspended,   \* the account is
  tokens,      \* those not yet expired
  lapse        \* lapse[u][r]: ticks since u could last sign in as r

loginVars == <<user, suspended, tokens, lapse>>

NoUser == [role |-> "none", status |-> "active", deleted |-> FALSE]

LoginInit ==
  /\ user = [u \in Users |-> NoUser]
  /\ suspended = FALSE
  /\ tokens = {}
  /\ lapse = [u \in Users |-> [r \in Roles |-> AccessLife]]

\* authenticate: a refresh token opens nothing but the refresh endpoint.
Accepted(t) == t.kind # "refresh"

\* requireUserAdmin.  The owner can always sign in.
MayManage(by) ==
  by = "owner" \/ \E t \in tokens : Accepted(t) /\ t.of = by /\ t.role = "admin"

Holds(row, r) == row.role = r /\ row.status = "active" /\ ~row.deleted

\* The row becomes `row`.
Becomes(u, row) ==
  /\ user' = [user EXCEPT ![u] = row]
  /\ lapse' = [lapse EXCEPT ![u] = [r \in Roles |->
                 IF Holds(user[u], r) \/ Holds(row, r) THEN 0 ELSE @[r]]]
  /\ UNCHANGED <<suspended, tokens>>

CreateSubUser(u, by, role) ==
  /\ MayManage(by)
  /\ user[u].role = "none"
  /\ Becomes(u, [NoUser EXCEPT !.role = role])

\* Neither looks whether the user has been removed.
UpdateSubUserRole(u, by, role) ==
  /\ MayManage(by)
  /\ user[u].role # "none"
  /\ Becomes(u, [user[u] EXCEPT !.role = role])

SetSubUserStatus(u, by, status) ==
  /\ MayManage(by)
  /\ user[u].role # "none"
  /\ Becomes(u, [user[u] EXCEPT !.status = status])

DeleteSubUser(u, by) ==
  /\ MayManage(by) /\ by # u
  /\ user[u].role # "none" /\ ~user[u].deleted
  /\ Becomes(u, [user[u] EXCEPT !.deleted = TRUE, !.status = "disabled"])

\* issueTokens, for the role that was read.
Issue(u, role) ==
  /\ tokens' = tokens \cup {[of |-> u, role |-> role, kind |-> "access", left |-> AccessLife],
                            [of |-> u, role |-> role, kind |-> "refresh", left |-> RefreshLife]}
  /\ Cardinality(tokens') <= MaxTokens
  /\ UNCHANGED <<user, suspended, lapse>>

MayEnter(u) == user[u].role # "none" /\ ~user[u].deleted /\ user[u].status # "disabled"

LoginSubUser(u) ==
  /\ ~suspended
  /\ MayEnter(u)
  /\ Issue(u, user[u].role)

\* Mutant of Refresh: the claims are trusted for another cycle.
RefreshAsClaimed(t) ==
  /\ t.kind = "refresh"
  /\ Issue(t.of, t.role)

\* The user is read again; the old refresh token stays valid.
Refresh(t) ==
  /\ t.kind = "refresh"
  /\ MayEnter(t.of)
  /\ Issue(t.of, user[t.of].role)

\* The suspension sweeper.  Nothing in the code lifts a suspension.
SuspendAccount ==
  /\ ~suspended
  /\ suspended' = TRUE
  /\ UNCHANGED <<user, tokens, lapse>>

TimePasses ==
  /\ tokens' = {[t EXCEPT !.left = @ - 1] : t \in {s \in tokens : s.left > 1}}
  /\ lapse' = [u \in Users |-> [r \in Roles |->
                 IF Holds(user[u], r) THEN 0
                 ELSE IF lapse[u][r] = AccessLife THEN AccessLife ELSE lapse[u][r] + 1]]
  /\ UNCHANGED <<user, suspended>>

LoginNext ==
  \/ \E u \in Users, by \in Users \cup {"owner"} :
       \/ \E role \in Roles : CreateSubUser(u, by, role) \/ UpdateSubUserRole(u, by, role)
       \/ \E status \in {"active", "disabled"} : SetSubUserStatus(u, by, status)
       \/ DeleteSubUser(u, by)
  \/ \E u \in Users : LoginSubUser(u)
  \/ \E t \in tokens : Refresh(t)
  \/ SuspendAccount
  \/ TimePasses

LoginSpec == LoginInit /\ [][LoginNext]_loginVars

-----------------------------------------------------------------------------
(* What should hold. *)

\* Whoever is let in as something could have signed in as it less than an
\* access token's lifetime ago: a removed, disabled or demoted user keeps no
\* more than that, however often they refresh (service.go:126-128).
ServedAsLatelyHeld ==
  \A t \in tokens : Accepted(t) => lapse[t.of][t.role] < AccessLife
=============================================================================
