--------------------------- MODULE AccountsProofs ---------------------------
(***************************************************************************)
(* Theorems about logins, projects, home nodes with what is placed on      *)
(* them, and redeploys, for any number of users, keys, requests, nodes,    *)
(* instances and failures and any lifetimes of the tokens.                 *)
(***************************************************************************)
EXTENDS Logins, Projects, Placement, Redeploys, SumTheorems, TLAPS

-----------------------------------------------------------------------------
(* Logins.  An access token and the time since its holder could last sign  *)
(* in with its role share one lifetime: what the second has gone up, the   *)
(* first has gone down.                                                    *)

UserRow == [role : Roles \cup {"none"}, status : {"active", "disabled"}, deleted : BOOLEAN]

Token == [of : Users, role : Roles, kind : {"access", "refresh"}, left : Nat \ {0}]

LoginTypeOK ==
  /\ user \in [Users -> UserRow]
  /\ tokens \subseteq Token
  /\ lapse \in [Users -> [Roles -> 0 .. AccessLife]]

HoldersLapseNot ==
  \A u \in Users, r \in Roles : Holds(user[u], r) => lapse[u][r] = 0

LapseWithinLife ==
  \A t \in tokens : t.kind = "access" => lapse[t.of][t.role] + t.left <= AccessLife

LoginInv == LoginTypeOK /\ HoldersLapseNot /\ LapseWithinLife

\* A row of a user may change in any way: whoever held a role until now, or
\* holds it from now on, starts a new lapse.
LEMMA BecomesKeeps ==
  ASSUME LoginInv, NEW u \in Users, NEW row \in UserRow, Becomes(u, row)
  PROVE  LoginInv'
<1>1. /\ user \in [Users -> UserRow]
      /\ tokens \subseteq Token
      /\ lapse \in [Users -> [Roles -> 0 .. AccessLife]]
      /\ AccessLife \in Nat
  BY LoginAssumption DEF LoginInv, LoginTypeOK
<1>2. /\ user' = [user EXCEPT ![u] = row]
      /\ tokens' = tokens
      /\ \A v \in Users, r \in Roles : lapse'[v][r] =
           IF v = u /\ (Holds(user[u], r) \/ Holds(row, r)) THEN 0 ELSE lapse[v][r]
  BY <1>1 DEF Becomes
<1>3. lapse' \in [Users -> [Roles -> 0 .. AccessLife]]
  <2>1. [r \in Roles |-> IF Holds(user[u], r) \/ Holds(row, r) THEN 0 ELSE lapse[u][r]]
          \in [Roles -> 0 .. AccessLife]
    BY <1>1
  <2> QED BY <1>1, <2>1 DEF Becomes
<1>4. LoginTypeOK'
  BY <1>1, <1>2, <1>3 DEF LoginTypeOK
<1>5. HoldersLapseNot'
  BY <1>1, <1>2 DEF LoginInv, HoldersLapseNot
<1>6. LapseWithinLife'
  <2> SUFFICES ASSUME NEW t \in tokens, t.kind = "access"
               PROVE  lapse'[t.of][t.role] + t.left <= AccessLife
    BY <1>2 DEF LapseWithinLife
  <2>1. t.of \in Users /\ t.role \in Roles /\ t.left \in Nat
    BY <1>1 DEF Token
  <2>2. lapse[t.of][t.role] \in 0 .. AccessLife
    BY <1>1, <2>1
  <2>3. lapse'[t.of][t.role] \in {0, lapse[t.of][t.role]}
    BY <1>2, <2>1
  <2>4. lapse[t.of][t.role] + t.left <= AccessLife
    BY DEF LoginInv, LapseWithinLife
  <2> QED BY <1>1, <2>1, <2>2, <2>3, <2>4
<1> QED BY <1>4, <1>5, <1>6 DEF LoginInv

\* Tokens are issued to someone who holds their role now.
LEMMA IssueKeeps ==
  ASSUME LoginInv, NEW u \in Users, NEW role, MayEnter(u), role = user[u].role, Issue(u, role)
  PROVE  LoginInv'
<1>1. /\ user \in [Users -> UserRow]
      /\ tokens \subseteq Token
      /\ lapse \in [Users -> [Roles -> 0 .. AccessLife]]
      /\ AccessLife \in Nat \ {0} /\ RefreshLife \in Nat \ {0}
  BY LoginAssumption DEF LoginInv, LoginTypeOK
<1>2. role \in Roles /\ lapse[u][role] = 0
  <2>1. user[u] \in UserRow
    BY <1>1
  <2>2. role \in Roles /\ Holds(user[u], role)
    BY <2>1 DEF MayEnter, Holds, UserRow
  <2> QED BY <2>2 DEF LoginInv, HoldersLapseNot
<1> DEFINE access  == [of |-> u, role |-> role, kind |-> "access", left |-> AccessLife]
           refresh == [of |-> u, role |-> role, kind |-> "refresh", left |-> RefreshLife]
<1>3. access \in Token /\ refresh \in Token
  BY <1>1, <1>2 DEF Token
<1>4. tokens' = tokens \cup {access, refresh} /\ UNCHANGED <<user, lapse>>
  BY DEF Issue
<1>5. LoginTypeOK' /\ HoldersLapseNot'
  BY <1>1, <1>3, <1>4 DEF LoginTypeOK, LoginInv, HoldersLapseNot, Holds
<1>6. LapseWithinLife'
  <2> SUFFICES ASSUME NEW t \in tokens', t.kind = "access"
               PROVE  lapse[t.of][t.role] + t.left <= AccessLife
    BY <1>4 DEF LapseWithinLife
  <2>1. CASE t \in tokens
    BY <2>1 DEF LoginInv, LapseWithinLife
  <2>2. CASE t = access
    BY <1>1, <1>2, <2>2
  <2>3. CASE t = refresh
    BY <2>3
  <2> QED BY <1>4, <2>1, <2>2, <2>3
<1> QED BY <1>5, <1>6 DEF LoginInv

LEMMA TimeKeeps == ASSUME LoginInv, TimePasses PROVE LoginInv'
<1>1. /\ user \in [Users -> UserRow]
      /\ tokens \subseteq Token
      /\ lapse \in [Users -> [Roles -> 0 .. AccessLife]]
      /\ AccessLife \in Nat
  BY LoginAssumption DEF LoginInv, LoginTypeOK
<1>2. /\ user' = user
      /\ \A u \in Users, r \in Roles : lapse'[u][r] =
           IF Holds(user[u], r) THEN 0
           ELSE IF lapse[u][r] = AccessLife THEN AccessLife ELSE lapse[u][r] + 1
  BY DEF TimePasses
<1>3. ASSUME NEW t \in tokens'
      PROVE  \E s \in tokens : s.left > 1 /\ t = [s EXCEPT !.left = @ - 1]
  BY DEF TimePasses
<1>4. tokens' \subseteq Token
  <2> SUFFICES ASSUME NEW t \in tokens' PROVE t \in Token
    OBVIOUS
  <2>1. PICK s \in tokens : s.left > 1 /\ t = [s EXCEPT !.left = @ - 1]
    BY <1>3
  <2>2. s \in Token /\ s.left - 1 \in Nat \ {0}
    BY <1>1, <2>1 DEF Token
  <2> QED BY <2>1, <2>2 DEF Token
<1>5. lapse' \in [Users -> [Roles -> 0 .. AccessLife]]
  <2>1. \A u \in Users, r \in Roles :
          (IF Holds(user[u], r) THEN 0
           ELSE IF lapse[u][r] = AccessLife THEN AccessLife ELSE lapse[u][r] + 1) \in 0 .. AccessLife
    BY <1>1
  <2> QED BY <2>1 DEF TimePasses
<1>6. LoginTypeOK' /\ HoldersLapseNot'
  BY <1>1, <1>2, <1>4, <1>5 DEF LoginTypeOK, HoldersLapseNot, Holds
<1>7. LapseWithinLife'
  <2> SUFFICES ASSUME NEW t \in tokens', t.kind = "access"
               PROVE  lapse'[t.of][t.role] + t.left <= AccessLife
    BY DEF LapseWithinLife
  <2>1. PICK s \in tokens : s.left > 1 /\ t = [s EXCEPT !.left = @ - 1]
    BY <1>3
  <2>2. s \in Token
    BY <1>1
  <2>3. /\ t.of = s.of /\ t.role = s.role /\ s.kind = "access" /\ t.left = s.left - 1
        /\ s.of \in Users /\ s.role \in Roles /\ s.left \in Nat
    BY <2>1, <2>2 DEF Token
  <2>4. lapse[s.of][s.role] \in Nat /\ lapse[s.of][s.role] + s.left <= AccessLife
    BY <1>1, <2>3 DEF LoginInv, LapseWithinLife
  <2>5. lapse'[s.of][s.role] \in {0, lapse[s.of][s.role] + 1}
    BY <1>1, <1>2, <2>1, <2>3, <2>4
  <2> QED BY <1>1, <2>1, <2>3, <2>4, <2>5
<1> QED BY <1>6, <1>7 DEF LoginInv

LEMMA LoginStep == LoginInv /\ [LoginNext]_loginVars => LoginInv'
<1> SUFFICES ASSUME LoginInv, [LoginNext]_loginVars PROVE LoginInv'
  OBVIOUS
<1>0. /\ user \in [Users -> UserRow] /\ tokens \subseteq Token
      /\ NoUser \in UserRow
  BY DEF LoginInv, LoginTypeOK, NoUser, UserRow
<1>1. ASSUME NEW u \in Users, NEW by, NEW role \in Roles, CreateSubUser(u, by, role)
      PROVE  LoginInv'
  <2>1. [NoUser EXCEPT !.role = role] \in UserRow
    BY <1>0 DEF UserRow
  <2> QED BY <1>1, <2>1, BecomesKeeps DEF CreateSubUser
<1>2. ASSUME NEW u \in Users, NEW by, NEW role \in Roles, UpdateSubUserRole(u, by, role)
      PROVE  LoginInv'
  <2>1. [user[u] EXCEPT !.role = role] \in UserRow
    BY <1>0 DEF UserRow
  <2> QED BY <1>2, <2>1, BecomesKeeps DEF UpdateSubUserRole
<1>3. ASSUME NEW u \in Users, NEW by, NEW status \in {"active", "disabled"},
             SetSubUserStatus(u, by, status)
      PROVE  LoginInv'
  <2>1. [user[u] EXCEPT !.status = status] \in UserRow
    BY <1>0 DEF UserRow
  <2> QED BY <1>3, <2>1, BecomesKeeps DEF SetSubUserStatus
<1>4. ASSUME NEW u \in Users, NEW by, DeleteSubUser(u, by) PROVE LoginInv'
  <2>1. [user[u] EXCEPT !.deleted = TRUE, !.status = "disabled"] \in UserRow
    BY <1>0 DEF UserRow
  <2> QED BY <1>4, <2>1, BecomesKeeps DEF DeleteSubUser
<1>5. ASSUME NEW u \in Users, LoginSubUser(u) PROVE LoginInv'
  BY <1>5, IssueKeeps DEF LoginSubUser
<1>6. ASSUME NEW t \in tokens, Refresh(t) PROVE LoginInv'
  <2>1. t.of \in Users
    BY <1>0 DEF Token
  <2> QED BY <1>6, <2>1, IssueKeeps DEF Refresh
<1>7. CASE SuspendAccount \/ UNCHANGED loginVars
  BY <1>7 DEF SuspendAccount, loginVars, LoginInv, LoginTypeOK, HoldersLapseNot, Holds, LapseWithinLife
<1>8. CASE TimePasses
  BY <1>8, TimeKeeps
<1> QED BY <1>1, <1>2, <1>3, <1>4, <1>5, <1>6, <1>7, <1>8 DEF LoginNext

\* Whatever admins do and however often tokens are refreshed, whoever is let in
\* could have signed in with that role less than an access token's lifetime ago.
THEOREM ServedAsHeld == LoginSpec => []ServedAsLatelyHeld
<1>1. LoginInit => LoginInv
  <2> SUFFICES ASSUME LoginInit PROVE LoginInv
    OBVIOUS
  <2>1. NoUser \in UserRow /\ AccessLife \in 0 .. AccessLife
    BY LoginAssumption DEF NoUser, UserRow
  <2>2. LoginTypeOK
    BY <2>1 DEF LoginInit, LoginTypeOK
  <2>3. HoldersLapseNot /\ LapseWithinLife
    BY LoginAssumption DEF LoginInit, HoldersLapseNot, Holds, NoUser, LapseWithinLife
  <2> QED BY <2>2, <2>3 DEF LoginInv
<1>2. LoginInv => ServedAsLatelyHeld
  <2> SUFFICES ASSUME LoginInv, NEW t \in tokens, Accepted(t)
               PROVE  lapse[t.of][t.role] < AccessLife
    BY DEF ServedAsLatelyHeld
  <2>1. t \in Token
    BY DEF LoginInv, LoginTypeOK
  <2>2. t.kind = "access" /\ t.of \in Users /\ t.role \in Roles /\ t.left \in Nat \ {0}
    BY <2>1 DEF Accepted, Token
  <2>3. lapse[t.of][t.role] + t.left <= AccessLife
    BY <2>2 DEF LoginInv, LapseWithinLife
  <2>4. lapse[t.of][t.role] \in Nat /\ AccessLife \in Nat
    BY <2>2, LoginAssumption DEF LoginInv, LoginTypeOK
  <2> QED BY <2>2, <2>3, <2>4
<1> QED BY <1>1, <1>2, LoginStep, PTL DEF LoginSpec

-----------------------------------------------------------------------------
(* Projects. *)

\* While a deletion is under way, and after it, what is live or may become so
\* is among the requests that overlapped with it.
ProjectInv ==
  /\ deleting => project = "open"
  /\ deleting \/ project = "deleted" =>
       InState("live") \cup InState("admitted") \subseteq overlapping

\* A deletion strands no instance but those whose creation overlapped with it,
\* for any number of keys and requests.
THEOREM StrandsOnly == ProjectSpec => []StrandsOnlyOverlapping
<1> DEFINE States == {"none", "admitted", "live", "ended"}
           Inv == ProjectInv /\ request \in [Requests -> States]
<1>1. ProjectInit => Inv
  BY DEF ProjectInit, ProjectInv, InState
<1>2. Inv /\ [ProjectNext]_projectVars => Inv'
  <2> SUFFICES ASSUME Inv, [ProjectNext]_projectVars PROVE Inv'
    OBVIOUS
  <2>1. CASE CreateProject
    BY <2>1 DEF CreateProject, ProjectInv, InState
  <2>2. ASSUME NEW k \in Keys, CheckProject(k) \/ InsertKey(k) \/ RevokeAPIKey(k) PROVE Inv'
    BY <2>2 DEF CheckProject, InsertKey, RevokeAPIKey, ProjectInv, InState
  <2>3. ASSUME NEW r \in Requests, Authenticate(r) PROVE Inv'
    BY <2>3 DEF Authenticate, ValidateAPIKey, ProjectInv, InState
  <2>4. ASSUME NEW r \in Requests, RecordInstance(r) \/ EndInstance(r) PROVE Inv'
    BY <2>4 DEF RecordInstance, EndInstance, ProjectInv, InState
  <2>5. CASE CountInstances
    BY <2>5 DEF CountInstances, ProjectInv, InState
  <2>6. CASE RevokeAndDelete \/ DeleteFails
    BY <2>6 DEF RevokeAndDelete, DeleteFails, ProjectInv, InState
  <2>7. CASE UNCHANGED projectVars
    BY <2>7 DEF projectVars, ProjectInv, InState
  <2> QED BY <2>1, <2>2, <2>3, <2>4, <2>5, <2>6, <2>7 DEF ProjectNext
<1>3. Inv => StrandsOnlyOverlapping
  BY DEF ProjectInv, StrandsOnlyOverlapping
<1> QED BY <1>1, <1>2, <1>3, PTL DEF ProjectSpec

-----------------------------------------------------------------------------
(* Home nodes. *)

NodeRow ==
  [status : {"enrolled", "online", "offline", "disabled"}, revoked : BOOLEAN, ready : BOOLEAN,
   fresh : BOOLEAN, rentable : Nat, label : Nodes \cup Labels]

\* A row that is there is disabled exactly when its credential is revoked.
SoundRow == {row \in NodeRow : row.status = "disabled" <=> row.revoked}

NodesInv ==
  /\ node \in [Nodes -> SoundRow \cup {NoRow}]
  /\ seen \in [Nodes -> SUBSET BOOLEAN]

LEMMA RowFields ==
  /\ \A row \in SoundRow : row \in NodeRow /\ row # NoRow
  /\ \A n \in Nodes, ready \in BOOLEAN :
       NewRow(n, "enrolled", ready) \in SoundRow /\ NewRow(n, "online", ready) \in SoundRow
  /\ \A row \in SoundRow, ready \in BOOLEAN : Seen(row, ready) \in SoundRow
<1>1. ASSUME NEW row \in SoundRow PROVE row \in NodeRow /\ row # NoRow
  BY DEF SoundRow, NodeRow, NoRow
<1>2. ASSUME NEW n \in Nodes, NEW ready \in BOOLEAN
      PROVE  NewRow(n, "enrolled", ready) \in SoundRow /\ NewRow(n, "online", ready) \in SoundRow
  BY DEF NewRow, SoundRow, NodeRow
<1>3. ASSUME NEW row \in SoundRow, NEW ready \in BOOLEAN PROVE Seen(row, ready) \in SoundRow
  BY DEF Seen, SoundRow, NodeRow
<1> QED BY <1>1, <1>2, <1>3

\* One row changes, or appears, or goes.
LEMMA OneRowKeeps ==
  ASSUME NodesInv, NEW n \in Nodes, NEW row \in SoundRow \cup {NoRow},
         node' = [node EXCEPT ![n] = row], seen' \in [Nodes -> SUBSET BOOLEAN]
  PROVE  NodesInv'
BY DEF NodesInv

LEMMA NodesStep == NodesInv /\ [PlacementNext]_placementVars => NodesInv'
<1> SUFFICES ASSUME NodesInv, [PlacementNext]_placementVars PROVE NodesInv'
  OBVIOUS
<1>0. /\ node \in [Nodes -> SoundRow \cup {NoRow}]
      /\ seen \in [Nodes -> SUBSET BOOLEAN]
      /\ \A n \in Nodes : HasRow(n) => node[n] \in SoundRow
  BY DEF NodesInv, HasRow
<1>1. ASSUME NEW n \in Nodes, Enroll(n) PROVE NodesInv'
  <2>1. CASE HasRow(n)
    <3>1. [node[n] EXCEPT !.status = "enrolled", !.revoked = FALSE] \in SoundRow
      BY <1>0, <2>1 DEF SoundRow, NodeRow
    <3> QED BY <1>0, <1>1, <2>1, <3>1, OneRowKeeps DEF Enroll
  <2>2. CASE ~HasRow(n)
    BY <1>0, <1>1, <2>2, RowFields, OneRowKeeps DEF Enroll
  <2> QED BY <2>1, <2>2
<1>2. ASSUME NEW n \in Nodes, ConnectNode(n) \/ DisconnectNode(n) PROVE NodesInv'
  BY <1>0, <1>2 DEF ConnectNode, DisconnectNode, NodesInv
<1>3. ASSUME NEW n \in Nodes, NEW ready \in BOOLEAN, ReportInventory(n, ready) PROVE NodesInv'
  BY <1>0, <1>3 DEF ReportInventory, NodesInv
<1>4. ASSUME NEW n \in Nodes, NEW ready \in BOOLEAN, UpsertSeen(n, ready) PROVE NodesInv'
  <2>1. seen' \in [Nodes -> SUBSET BOOLEAN]
    BY <1>0, <1>4 DEF UpsertSeen
  <2>2. CASE HasRow(n)
    BY <1>0, <1>4, <2>1, <2>2, RowFields, OneRowKeeps DEF UpsertSeen
  <2>3. CASE ~HasRow(n)
    BY <1>0, <1>4, <2>1, <2>3, RowFields, OneRowKeeps DEF UpsertSeen
  <2> QED BY <2>2, <2>3
<1>5. ASSUME NEW n \in Nodes, GoesQuiet(n) PROVE NodesInv'
  <2>1. [node[n] EXCEPT !.fresh = FALSE] \in SoundRow
    BY <1>0, <1>5 DEF GoesQuiet, SoundRow, NodeRow
  <2>2. node' = [node EXCEPT ![n] = [node[n] EXCEPT !.fresh = FALSE]]
    BY <1>0, <1>5 DEF GoesQuiet
  <2> QED BY <1>0, <1>5, <2>1, <2>2, OneRowKeeps DEF GoesQuiet
<1>6. CASE MarkStaleOffline
  <2>1. ASSUME NEW n \in Nodes, HasRow(n), node[n].status = "online"
        PROVE  [node[n] EXCEPT !.status = "offline"] \in SoundRow
    BY <1>0, <2>1 DEF SoundRow, NodeRow
  <2> QED BY <1>0, <1>6, <2>1 DEF MarkStaleOffline, NodesInv
<1>7. ASSUME NEW n \in Nodes, NEW amount \in 0 .. Capacity, SetReservation(n, amount)
      PROVE  NodesInv'
  <2>1. [node[n] EXCEPT !.rentable = amount] \in SoundRow
    BY <1>0, <1>7, PlacementAssumption DEF SetReservation, SoundRow, NodeRow
  <2>2. node' = [node EXCEPT ![n] = [node[n] EXCEPT !.rentable = amount]]
    BY <1>0, <1>7 DEF SetReservation
  <2> QED BY <1>0, <1>7, <2>1, <2>2, OneRowKeeps DEF SetReservation
<1>8. ASSUME NEW n \in Nodes, NEW name \in Labels \cup Nodes, RenameNode(n, name)
      PROVE  NodesInv'
  <2>1. [node[n] EXCEPT !.label = name] \in SoundRow
    BY <1>0, <1>8 DEF RenameNode, SoundRow, NodeRow
  <2>2. node' = [node EXCEPT ![n] = [node[n] EXCEPT !.label = name]]
    BY <1>0, <1>8 DEF RenameNode
  <2> QED BY <1>0, <1>8, <2>1, <2>2, OneRowKeeps DEF RenameNode
<1>9. ASSUME NEW n \in Nodes, DisableNode(n) PROVE NodesInv'
  <2>1. [node[n] EXCEPT !.status = "disabled", !.revoked = TRUE] \in SoundRow
    BY <1>0, <1>9 DEF DisableNode, SoundRow, NodeRow
  <2>2. node' = [node EXCEPT ![n] = [node[n] EXCEPT !.status = "disabled", !.revoked = TRUE]]
    BY <1>0, <1>9 DEF DisableNode
  <2> QED BY <1>0, <1>9, <2>1, <2>2, OneRowKeeps DEF DisableNode
<1>10. ASSUME NEW n \in Nodes, CountInstancesOf(n) \/ DeleteNode(n) PROVE NodesInv'
  BY <1>0, <1>10, OneRowKeeps DEF CountInstancesOf, DeleteNode, NodesInv
<1>11. ASSUME NEW p \in Placings, NEW n \in Nodes, PlaceCPU(p, n) PROVE NodesInv'
  BY <1>0, <1>11 DEF PlaceCPU, NodesInv
<1>12. ASSUME NEW p \in Placings,
              CreatePlaced(p) \/ CreateRefused(p) \/ TerminatePlaced(p) \/ StopOrStart(p)
       PROVE  NodesInv'
  BY <1>0, <1>12 DEF CreatePlaced, CreateRefused, TerminatePlaced, Ends, StopOrStart, NodesInv
<1>13. CASE UNCHANGED placementVars
  BY <1>0, <1>13 DEF placementVars, NodesInv
<1> QED
  BY <1>1, <1>2, <1>3, <1>4, <1>5, <1>6, <1>7, <1>8, <1>9, <1>10, <1>11, <1>12, <1>13
  DEF PlacementNext

\* A node an operator disabled stays so, its credential revoked, until it is
\* enrolled again, for any number of nodes and in whatever order their reports
\* are written.
THEOREM DisabledStays == PlacementSpec => []DisabledIsRevoked
<1>1. PlacementInit => NodesInv
  BY DEF PlacementInit, NodesInv
<1>2. NodesInv => DisabledIsRevoked
  BY DEF NodesInv, SoundRow, DisabledIsRevoked, HasRow
<1> QED BY <1>1, <1>2, NodesStep, PTL DEF PlacementSpec

-----------------------------------------------------------------------------
(* Redeploys.  While every redeploy stored what it did, the launch details *)
(* and the row name one image between redeploys, and only during a redeploy *)
(* after its new pod was created is that not the image of the pods that    *)
(* start or run.                                                           *)

AppRow == [status : {"pending", "running", "stopped", "terminated"}, image : Nat,
           port : BOOLEAN, endpoint : BOOLEAN, provider : BOOLEAN, node : BOOLEAN]

Pod == [image : Nat, phase : {"starting", "running", "ending", "done"}]

CacheEntry == [status : {"none", "pending", "running", "terminated"},
               endpoint : BOOLEAN, provider : BOOLEAN]

FlowState == [pc : {"idle", "send", "create", "keep", "image", "place"}, image : Nat,
              home : BOOLEAN, recovered : BOOLEAN]

RedeployTypeOK ==
  /\ app \in AppRow
  /\ kept \in [image : Nat, home : BOOLEAN]
  /\ pods \in Seq(Pod)
  /\ cached \in CacheEntry
  /\ flow \in FlowState
  /\ tried \in Nat

\* The failures after which a redeploy left nothing unsaid.
Harmless == {"create", "placement", "restart"}

\* The phases of a redeploy in which its new pod exists.
Replaced == {"keep", "image", "place"}

DetailsFollow ==
  /\ flow.pc # "image" => kept.image = app.image
  /\ flow.pc = "image" => kept.image = flow.image
  /\ flow.pc = "place" => app.image = flow.image

PodsFollow ==
  \A i \in 1 .. Len(pods) : pods[i].phase \in {"starting", "running"} =>
    /\ flow.pc # "create"
    /\ flow.pc \in Replaced => pods[i].image = flow.image
    /\ flow.pc \notin Replaced => pods[i].image = app.image

RedeployInv ==
  /\ RedeployTypeOK
  /\ failures \subseteq Harmless => DetailsFollow /\ PodsFollow

\* A pod that is ended is neither started nor running.
LEMMA EndedAreNotLive ==
  ASSUME NEW ps \in Seq(Pod)
  PROVE  /\ Ended(ps) \in Seq(Pod)
         /\ Len(Ended(ps)) = Len(ps)
         /\ \A i \in 1 .. Len(ps) : Ended(ps)[i].phase \in {"ending", "done"}
<1> DEFINE item(i) == IF ps[i].phase = "done" THEN ps[i] ELSE [ps[i] EXCEPT !.phase = "ending"]
<1>1. ASSUME NEW i \in 1 .. Len(ps) PROVE item(i) \in Pod /\ item(i).phase \in {"ending", "done"}
  <2>1. ps[i] \in Pod
    OBVIOUS
  <2> QED BY <2>1 DEF Pod
<1>2. Ended(ps) = [i \in 1 .. Len(ps) |-> item(i)]
  BY DEF Ended
<1> HIDE DEF item
<1>3. Len(ps) \in Nat
  OBVIOUS
<1>4. Ended(ps) \in Seq(Pod) /\ Len(Ended(ps)) = Len(ps)
  BY <1>1, <1>2, <1>3
<1> QED BY <1>1, <1>2, <1>4

\* What remains of the pods when one is removed was there before.
LEMMA RemainingPods ==
  ASSUME NEW ps \in Seq(Pod), NEW i \in 1 .. Len(ps)
  PROVE  /\ RemoveAt(ps, i) \in Seq(Pod)
         /\ \A j \in 1 .. Len(RemoveAt(ps, i)) : \E k \in 1 .. Len(ps) :
              RemoveAt(ps, i)[j] = ps[k]
<1> DEFINE before == SubSeq(ps, 1, i - 1)
           after == SubSeq(ps, i + 1, Len(ps))
<1>1. before \in Seq(Pod) /\ Len(before) = i - 1 /\ \A j \in 1 .. i - 1 : before[j] = ps[j]
  OBVIOUS
<1>2. /\ after \in Seq(Pod) /\ Len(after) = Len(ps) - i
      /\ \A j \in 1 .. Len(ps) - i : after[j] = ps[i + j]
  OBVIOUS
<1>3. RemoveAt(ps, i) = before \o after
  BY DEF RemoveAt
<1>4. Len(ps) \in Nat /\ i \in Nat
  OBVIOUS
<1> HIDE DEF before, after
<1>5. before \o after \in Seq(Pod) /\ Len(before \o after) = Len(ps) - 1
  <2>0. before \in Seq(Pod) /\ after \in Seq(Pod)
    BY <1>1, <1>2
  <2>1. before \o after \in Seq(Pod) /\ Len(before \o after) = Len(before) + Len(after)
    BY <2>0
  <2> QED BY <1>1, <1>2, <1>4, <2>1
<1>6. ASSUME NEW j \in 1 .. Len(ps) - 1 PROVE \E k \in 1 .. Len(ps) : (before \o after)[j] = ps[k]
  <2>1. CASE j <= i - 1
    BY <1>1, <1>2, <1>4, <2>1
  <2>2. CASE j > i - 1
    <3>1. (before \o after)[j] = after[j - (i - 1)]
      BY <1>1, <1>2, <1>4, <2>2
    <3>2. after[j - (i - 1)] = ps[j + 1]
      BY <1>2, <1>4, <2>2
    <3> QED BY <1>4, <3>1, <3>2
  <2>3. j <= i - 1 \/ j > i - 1
    BY <1>4
  <2> QED BY <2>1, <2>2, <2>3
<1> QED BY <1>3, <1>5, <1>6

\* Pods that keep their images, none of them started anew, still follow.
LEMMA PodsKeep ==
  ASSUME PodsFollow, flow'.pc = flow.pc, flow'.image = flow.image, app'.image = app.image,
         \A j \in 1 .. Len(pods') : pods'[j].phase \in {"starting", "running"} =>
           \E k \in 1 .. Len(pods) : /\ pods[k].phase \in {"starting", "running"}
                                     /\ pods'[j].image = pods[k].image
  PROVE  PodsFollow'
BY DEF PodsFollow

\* No pod that starts or runs, no image to follow.
LEMMA NonePodFollows ==
  ASSUME \A j \in 1 .. Len(pods') : pods'[j].phase \in {"ending", "done"}
  PROVE  PodsFollow'
BY DEF PodsFollow

\* Where neither an image nor a pod changes, nothing to follow does.
LEMMA UnmovedFollow ==
  ASSUME UNCHANGED <<kept, pods, flow>>, app'.image = app.image
  PROVE  /\ DetailsFollow => DetailsFollow'
         /\ PodsFollow => PodsFollow'
BY DEF DetailsFollow, PodsFollow

LEMMA LastPodStatus ==
  ASSUME pods \in Seq(Pod), pods # <<>>
  PROVE  StatusOf(Newest) \in {"pending", "running", "terminated"}
<1>1. Len(pods) \in 1 .. Len(pods)
  OBVIOUS
<1>2. Newest \in Pod
  BY <1>1 DEF Newest, Last
<1> QED BY <1>2 DEF StatusOf, Pod

LEMMA PodInPhase ==
  ASSUME NEW pod \in Pod, NEW phase \in {"starting", "running", "ending", "done"}
  PROVE  /\ [pod EXCEPT !.phase = phase] \in Pod
         /\ [pod EXCEPT !.phase = phase].phase = phase
         /\ [pod EXCEPT !.phase = phase].image = pod.image
BY DEF Pod

LEMMA RecordTyped ==
  ASSUME cached \in CacheEntry, NEW status \in {"pending", "running", "terminated"},
         NEW endpoint \in BOOLEAN, NEW provider \in BOOLEAN,
         Record(status, endpoint, provider)
  PROVE  cached' \in CacheEntry
<1>1. (endpoint \/ cached.endpoint) \in BOOLEAN
  BY Zenon
<1>2. PICK carried \in BOOLEAN : carried = (endpoint \/ cached.endpoint)
  BY <1>1
<1>3. cached' = cached \/ cached' = [status |-> status, endpoint |-> carried, provider |-> provider]
  BY <1>2, Zenon DEF Record
<1> QED BY <1>3 DEF CacheEntry

\* A failure that is not harmless is not forgotten.
LEMMA FailureStays ==
  ASSUME NEW kind, Fails(kind)
  PROVE  failures' \subseteq Harmless => failures \subseteq Harmless /\ kind \in Harmless
BY DEF Fails

LEMMA GoesTyped ==
  ASSUME flow \in FlowState, NEW pc \in {"idle", "send", "create", "keep", "image", "place"}
  PROVE  /\ Goes(pc) => flow' \in FlowState /\ flow'.pc = pc /\ flow'.image = flow.image
         /\ EndsFlow => flow' \in FlowState /\ flow'.pc = "idle"
<1>1. Goes(pc) => flow' \in FlowState /\ flow'.pc = pc /\ flow'.image = flow.image
  BY DEF Goes, FlowState
<1>2. EndsFlow => flow' \in FlowState /\ flow'.pc = "idle"
  BY DEF EndsFlow, NoFlow, FlowState
<1> QED BY <1>1, <1>2

LEMMA RedeployStep == RedeployInv /\ [RedeployNext]_redeployVars => RedeployInv'
<1> SUFFICES ASSUME RedeployInv, [RedeployNext]_redeployVars
             PROVE  RedeployInv'
  OBVIOUS
<1>0. RedeployTypeOK /\ (failures \subseteq Harmless => DetailsFollow /\ PodsFollow)
  BY DEF RedeployInv
<1>1. ASSUME PodStarts PROVE RedeployInv'
  <2>1. PICK i \in DOMAIN pods : /\ pods[i].phase = "starting"
                                 /\ pods' = [pods EXCEPT ![i].phase = "running"]
    BY <1>1 DEF PodStarts
  <2>2. UNCHANGED <<app, kept, cached, flow, tried, failures>>
    BY <1>1 DEF PodStarts
  <2>3. i \in 1 .. Len(pods) /\ Len(pods) \in Nat /\ pods[i] \in Pod /\ pods \in Seq(Pod)
    BY <1>0, <2>1 DEF RedeployTypeOK
  <2>4. PICK p \in Pod : p = [pods[i] EXCEPT !.phase = "running"] /\ p.image = pods[i].image
    BY <2>3, PodInPhase
  <2>5. pods' = [pods EXCEPT ![i] = p]
    BY <2>1, <2>4
  <2>6. pods' \in Seq(Pod) /\ Len(pods') = Len(pods)
    BY <2>3, <2>4, <2>5
  <2>7. ASSUME NEW j \in 1 .. Len(pods'), pods'[j].phase \in {"starting", "running"}
        PROVE  \E k \in 1 .. Len(pods) : /\ pods[k].phase \in {"starting", "running"}
                                         /\ pods'[j].image = pods[k].image
    <3>1. CASE j = i
      BY <2>1, <2>3, <2>4, <2>5, <3>1
    <3>2. CASE j # i
      BY <2>3, <2>5, <2>6, <2>7, <3>2
    <3> QED BY <3>1, <3>2
  <2>8. RedeployTypeOK'
    BY <1>0, <2>2, <2>6 DEF RedeployTypeOK
  <2>9. PodsFollow => PodsFollow'
    BY <2>2, <2>7, PodsKeep
  <2>10. DetailsFollow => DetailsFollow'
    BY <2>2 DEF DetailsFollow
  <2> QED BY <1>0, <2>2, <2>8, <2>9, <2>10 DEF RedeployInv
<1>2. ASSUME PodExits PROVE RedeployInv'
  <2>1. PICK i \in DOMAIN pods :
          /\ pods[i].phase \in {"ending", "done"}
          /\ \/ pods[i].phase = "ending" /\ pods' = [pods EXCEPT ![i].phase = "done"]
             \/ pods' = RemoveAt(pods, i)
    BY <1>2 DEF PodExits
  <2>2. UNCHANGED <<app, kept, cached, flow, tried, failures>>
    BY <1>2 DEF PodExits
  <2>3. i \in 1 .. Len(pods) /\ Len(pods) \in Nat /\ pods[i] \in Pod /\ pods \in Seq(Pod)
    BY <1>0, <2>1 DEF RedeployTypeOK
  <2>4. ASSUME pods' = [pods EXCEPT ![i].phase = "done"]
        PROVE  /\ pods' \in Seq(Pod)
               /\ \A j \in 1 .. Len(pods') : pods'[j].phase \in {"starting", "running"} =>
                    \E k \in 1 .. Len(pods) : pods'[j] = pods[k]
    <3>1. PICK p \in Pod : p = [pods[i] EXCEPT !.phase = "done"] /\ p.phase = "done"
      BY <2>3, PodInPhase
    <3>2. pods' = [pods EXCEPT ![i] = p]
      BY <2>4, <3>1
    <3>3. pods' \in Seq(Pod) /\ Len(pods') = Len(pods)
      BY <2>3, <3>1, <3>2
    <3>4. ASSUME NEW j \in 1 .. Len(pods'), pods'[j].phase \in {"starting", "running"}
          PROVE  \E k \in 1 .. Len(pods) : pods'[j] = pods[k]
      <4>1. j # i
        BY <2>3, <3>1, <3>2, <3>4
      <4> QED BY <2>3, <3>2, <3>3, <4>1
    <3> QED BY <3>3, <3>4
  <2>5. ASSUME pods' = RemoveAt(pods, i)
        PROVE  /\ pods' \in Seq(Pod)
               /\ \A j \in 1 .. Len(pods') : \E k \in 1 .. Len(pods) : pods'[j] = pods[k]
    BY <2>3, <2>5, RemainingPods
  <2>6. /\ pods' \in Seq(Pod)
        /\ \A j \in 1 .. Len(pods') : pods'[j].phase \in {"starting", "running"} =>
             \E k \in 1 .. Len(pods) : pods'[j] = pods[k]
    BY <2>1, <2>4, <2>5
  <2>7. RedeployTypeOK'
    BY <1>0, <2>2, <2>6 DEF RedeployTypeOK
  <2>8. PodsFollow => PodsFollow'
    BY <2>2, <2>6, PodsKeep
  <2>9. DetailsFollow => DetailsFollow'
    BY <2>2 DEF DetailsFollow
  <2> QED BY <1>0, <2>2, <2>7, <2>8, <2>9 DEF RedeployInv
<1>3. ASSUME SweepApp PROVE RedeployInv'
  <2>1. UNCHANGED <<app, kept, pods, flow, tried, failures>>
    BY <1>3 DEF SweepApp
  <2>2. cached' \in CacheEntry
    <3>1. CASE UNCHANGED cached
      BY <1>0, <3>1 DEF RedeployTypeOK
    <3>2. CASE pods = <<>> /\ Record("terminated", FALSE, TRUE)
      BY <1>0, <3>2, RecordTyped DEF RedeployTypeOK
    <3>3. CASE pods # <<>> /\ Record(StatusOf(Newest), FALSE, TRUE)
      BY <1>0, <3>3, LastPodStatus, RecordTyped DEF RedeployTypeOK
    <3>4. pods # <<>> => StatusOf(Newest) # "none"
      BY <1>0, LastPodStatus DEF RedeployTypeOK
    <3> QED BY <1>3, <3>1, <3>2, <3>3, <3>4 DEF SweepApp
  <2> QED BY <1>0, <2>1, <2>2, UnmovedFollow DEF RedeployInv, RedeployTypeOK
<1>4. ASSUME ReconcileApp PROVE RedeployInv'
  <2>1. UNCHANGED <<kept, pods, cached, flow, tried, failures>>
    BY <1>4 DEF ReconcileApp
  <2>2. app' \in AppRow /\ app'.image = app.image
    BY <1>0, <1>4 DEF ReconcileApp, AppRow, EndpointSeen, RedeployTypeOK, CacheEntry, Live
  <2> QED BY <1>0, <2>1, <2>2, UnmovedFollow DEF RedeployInv, RedeployTypeOK
<1>5. ASSUME NEW detected \in BOOLEAN, BeginRedeploy(detected) PROVE RedeployInv'
  <2>1. /\ UNCHANGED <<app, kept, pods, cached, failures>>
        /\ flow.pc = "idle" /\ tried' = tried + 1
        /\ flow' = [pc |-> "send", image |-> tried + 1,
                    home |-> Provider.home, recovered |-> Provider.recovered]
    BY <1>5 DEF BeginRedeploy
  <2>2. Provider.home \in BOOLEAN /\ Provider.recovered \in BOOLEAN
    <3>1. app.provider \in BOOLEAN /\ app.node \in BOOLEAN /\ cached.provider \in BOOLEAN
      BY <1>0 DEF RedeployTypeOK, AppRow, CacheEntry
    <3> QED BY <3>1, Zenon DEF Provider
  <2>3. flow' \in FlowState /\ flow'.pc = "send" /\ tried' \in Nat
    <3> HIDE DEF Provider
    <3> QED BY <1>0, <2>1, <2>2 DEF RedeployTypeOK, FlowState
  <2> QED BY <1>0, <2>1, <2>3 DEF RedeployInv, RedeployTypeOK, DetailsFollow, PodsFollow, Replaced
<1>6. ASSUME EndOldPods PROVE RedeployInv'
  <2>1. /\ UNCHANGED <<app, kept, cached, tried, failures>>
        /\ flow.pc = "send" /\ flow'.pc = "create" /\ flow' \in FlowState /\ pods' = Ended(pods)
    BY <1>0, <1>6 DEF EndOldPods, Goes, RedeployTypeOK, FlowState
  <2>2. pods' \in Seq(Pod) /\ PodsFollow'
    BY <1>0, <2>1, EndedAreNotLive, NonePodFollows DEF RedeployTypeOK
  <2> QED BY <1>0, <2>1, <2>2 DEF RedeployInv, RedeployTypeOK, DetailsFollow
<1>7. ASSUME NotFound \/ NewPodRefused PROVE RedeployInv'
  <2>1. /\ UNCHANGED <<app, kept, pods, cached, tried>>
        /\ flow.pc \in {"send", "create"} /\ flow'.pc = "idle" /\ flow' \in FlowState
        /\ failures' \subseteq Harmless => failures \subseteq Harmless
    BY <1>0, <1>7, GoesTyped, FailureStays DEF NotFound, NewPodRefused, RedeployTypeOK
  <2> QED BY <1>0, <2>1 DEF RedeployInv, RedeployTypeOK, DetailsFollow, PodsFollow, Replaced
<1>8. ASSUME CreateNewPod PROVE RedeployInv'
  <2>1. UNCHANGED <<app, kept, tried>> /\ flow.pc = "create"
    BY <1>8 DEF CreateNewPod
  <2>2. PICK p \in Pod : p = [image |-> flow.image, phase |-> "starting"]
    BY <1>0 DEF Pod, RedeployTypeOK, FlowState
  <2>3. pods' = Append(pods, p)
    BY <1>8, <2>2 DEF CreateNewPod
  <2>4. /\ pods' \in Seq(Pod) /\ Len(pods) \in Nat /\ Len(pods') = Len(pods) + 1
        /\ \A j \in 1 .. Len(pods) : pods'[j] = pods[j]
        /\ pods'[Len(pods) + 1] = p
    BY <1>0, <2>3 DEF RedeployTypeOK
  <2>5. cached' \in CacheEntry /\ flow' \in FlowState
    <3>1. flow.home \in BOOLEAN /\ flow \in FlowState /\ cached \in CacheEntry
      BY <1>0 DEF RedeployTypeOK, FlowState
    <3>2. CASE Record("pending", flow.home, FALSE) /\ Goes("keep")
      BY <3>1, <3>2, RecordTyped, GoesTyped
    <3>3. CASE EndsFlow /\ UNCHANGED cached
      BY <3>1, <3>3, GoesTyped
    <3> QED BY <1>8, <3>2, <3>3 DEF CreateNewPod
  <2>6. failures' \subseteq Harmless =>
          /\ failures \subseteq Harmless
          /\ flow'.pc = "keep" /\ flow'.image = flow.image
    BY <1>0, <1>8 DEF CreateNewPod, Goes, EndsFlow, Fails, Harmless, RedeployTypeOK, FlowState
  <2>7. failures' \subseteq Harmless => DetailsFollow' /\ PodsFollow'
    <3> SUFFICES ASSUME failures' \subseteq Harmless PROVE DetailsFollow' /\ PodsFollow'
      OBVIOUS
    <3>1. DetailsFollow /\ PodsFollow
      BY <1>0, <2>6
    <3>2. DetailsFollow'
      BY <2>1, <2>6, <3>1 DEF DetailsFollow
    <3>3. ASSUME NEW j \in 1 .. Len(pods'), pods'[j].phase \in {"starting", "running"}
          PROVE  pods'[j].image = flow.image
      <4>1. CASE j = Len(pods) + 1
        BY <2>2, <2>4, <4>1
      <4>2. CASE j # Len(pods) + 1
        BY <2>1, <2>4, <3>1, <3>3, <4>2 DEF PodsFollow
      <4> QED BY <4>1, <4>2
    <3> QED BY <2>6, <3>2, <3>3 DEF PodsFollow, Replaced
  <2> QED BY <1>0, <2>1, <2>4, <2>5, <2>7 DEF RedeployInv, RedeployTypeOK
<1>9. ASSUME KeepSpec PROVE RedeployInv'
  <2>1. /\ UNCHANGED <<app, pods, cached, tried>> /\ flow.pc = "keep"
        /\ flow'.pc = "image" /\ flow'.image = flow.image /\ flow' \in FlowState
        /\ kept' \in [image : Nat, home : BOOLEAN]
    BY <1>0, <1>9 DEF KeepSpec, Goes, RedeployTypeOK, FlowState
  <2>2. failures' \subseteq Harmless => failures \subseteq Harmless /\ kept'.image = flow.image
    <3>1. "spec" \notin Harmless
      BY DEF Harmless
    <3>2. CASE Fails("spec") \/ failures' = failures \union {"spec"}
      BY <3>1, <3>2, FailureStays
    <3>3. CASE UNCHANGED failures /\ kept' = [image |-> flow.image, home |-> flow.home]
      BY <3>3
    <3> QED BY <1>9, <3>2, <3>3 DEF KeepSpec
  <2> QED BY <1>0, <2>1, <2>2 DEF RedeployInv, RedeployTypeOK, DetailsFollow, PodsFollow, Replaced
<1>10. ASSUME WriteImage PROVE RedeployInv'
  <2>1. /\ UNCHANGED <<kept, pods, cached, tried>> /\ flow.pc = "image"
        /\ flow'.pc = "place" /\ flow'.image = flow.image /\ flow' \in FlowState
    BY <1>0, <1>10 DEF WriteImage, Goes, RedeployTypeOK, FlowState
  <2>2. app' \in AppRow
    BY <1>0, <1>10 DEF WriteImage, AppRow, RedeployTypeOK, FlowState
  <2>3. failures' \subseteq Harmless => failures \subseteq Harmless /\ app'.image = flow.image
    BY <1>0, <1>10 DEF WriteImage, Fails, Harmless, AppRow, RedeployTypeOK
  <2> QED BY <1>0, <2>1, <2>2, <2>3
          DEF RedeployInv, RedeployTypeOK, DetailsFollow, PodsFollow, Replaced
<1>11. ASSUME WritePlacement PROVE RedeployInv'
  <2>1. /\ UNCHANGED <<kept, pods, cached, tried>> /\ flow.pc = "place"
        /\ flow'.pc = "idle" /\ flow' \in FlowState
    BY <1>0, <1>11 DEF WritePlacement, EndsFlow, NoFlow, RedeployTypeOK, FlowState
  <2>2. app' \in AppRow /\ app'.image = app.image
    BY <1>0, <1>11 DEF WritePlacement, AppRow, RedeployTypeOK
  <2>3. failures' \subseteq Harmless => failures \subseteq Harmless
    BY <1>11 DEF WritePlacement, Fails
  <2> QED BY <1>0, <2>1, <2>2, <2>3
          DEF RedeployInv, RedeployTypeOK, DetailsFollow, PodsFollow, Replaced
<1>12. ASSUME Hold \/ Delete PROVE RedeployInv'
  <2>1. UNCHANGED <<kept, flow, tried, failures>> /\ pods' = Ended(pods) /\ cached' = NotCached
    BY <1>12 DEF Hold, Delete
  <2>2. app' \in AppRow /\ app'.image = app.image
    BY <1>0, <1>12 DEF Hold, Delete, AppRow, RedeployTypeOK
  <2>3. pods' \in Seq(Pod) /\ PodsFollow'
    BY <1>0, <2>1, EndedAreNotLive, NonePodFollows DEF RedeployTypeOK
  <2>4. cached' \in CacheEntry
    BY <2>1 DEF NotCached, CacheEntry
  <2> QED BY <1>0, <2>1, <2>2, <2>3, <2>4 DEF RedeployInv, RedeployTypeOK, DetailsFollow
<1>13. ASSUME Start PROVE RedeployInv'
  <2>1. UNCHANGED <<kept, flow, tried>>
    BY <1>13 DEF Start
  <2>2. PICK p \in Pod : p = [image |-> kept.image, phase |-> "starting"]
    BY <1>0 DEF Pod, RedeployTypeOK
  <2>3. pods' = pods \/ pods' = Append(pods, p)
    BY <1>13, <2>2 DEF Start
  <2>4. app' \in AppRow /\ app'.image = app.image
    BY <1>0, <1>13 DEF Start, AppRow, RedeployTypeOK
  <2>5. cached' \in CacheEntry
    BY <1>0, <1>13 DEF Start, Record, RedeployTypeOK, CacheEntry
  <2>6. /\ Len(pods) \in Nat
        /\ Append(pods, p) \in Seq(Pod) /\ Len(Append(pods, p)) = Len(pods) + 1
        /\ \A j \in 1 .. Len(pods) : Append(pods, p)[j] = pods[j]
        /\ Append(pods, p)[Len(pods) + 1] = p
    BY <1>0 DEF RedeployTypeOK
  <2>7. failures' \subseteq Harmless => failures \subseteq Harmless /\ flow.pc = "idle"
    BY <1>13 DEF Start, Overlaps, Harmless
  <2>8. failures' \subseteq Harmless => DetailsFollow' /\ PodsFollow'
    <3> SUFFICES ASSUME failures' \subseteq Harmless PROVE DetailsFollow' /\ PodsFollow'
      OBVIOUS
    <3>1. DetailsFollow /\ PodsFollow /\ flow.pc = "idle"
      BY <1>0, <2>7
    <3>2. DetailsFollow'
      BY <2>1, <2>4, <3>1 DEF DetailsFollow
    <3>3. kept.image = app.image
      BY <3>1 DEF DetailsFollow
    <3>4. CASE pods' = pods
      BY <2>1, <2>4, <3>1, <3>2, <3>4 DEF PodsFollow
    <3>5. ASSUME pods' = Append(pods, p),
                 NEW j \in 1 .. Len(pods'), pods'[j].phase \in {"starting", "running"}
          PROVE  pods'[j].image = app.image
      <4>1. CASE j = Len(pods) + 1
        BY <2>2, <2>6, <3>3, <3>5, <4>1
      <4>2. CASE j # Len(pods) + 1
        BY <2>6, <3>1, <3>5, <4>2 DEF PodsFollow, Replaced
      <4> QED BY <4>1, <4>2
    <3> QED BY <2>1, <2>3, <2>4, <3>1, <3>2, <3>4, <3>5 DEF PodsFollow, Replaced
  <2> QED BY <1>0, <2>1, <2>3, <2>4, <2>5, <2>6, <2>8 DEF RedeployInv, RedeployTypeOK
<1>14. ASSUME RestartServer PROVE RedeployInv'
  <2>1. /\ UNCHANGED <<app, kept, pods, tried>>
        /\ cached' \in CacheEntry /\ flow' \in FlowState /\ flow'.pc = "idle"
    BY <1>14 DEF RestartServer, NotCached, CacheEntry, EndsFlow, NoFlow, FlowState
  <2>2. failures' \subseteq Harmless => failures \subseteq Harmless /\ flow.pc = "idle"
    BY <1>14 DEF RestartServer, Harmless
  <2> QED BY <1>0, <2>1, <2>2
          DEF RedeployInv, RedeployTypeOK, DetailsFollow, PodsFollow, Replaced
<1>15. CASE UNCHANGED redeployVars
  <2>1. UNCHANGED <<app, kept, pods, cached, flow, tried, failures>>
    BY <1>15 DEF redeployVars
  <2> QED BY <1>0, <2>1, UnmovedFollow DEF RedeployInv, RedeployTypeOK
<1> QED
  BY <1>1, <1>2, <1>3, <1>4, <1>5, <1>6, <1>7, <1>8, <1>9, <1>10, <1>11, <1>12, <1>13, <1>14, <1>15
  DEF RedeployNext

LEMMA RedeployStarts == RedeployInit => RedeployInv
<1> SUFFICES ASSUME RedeployInit PROVE RedeployInv
  OBVIOUS
<1>1. /\ app \in AppRow /\ app.image = 1
      /\ kept \in [image : Nat, home : BOOLEAN] /\ kept.image = 1
  <2>1. PICK known \in BOOLEAN :
          app = [status |-> "running", image |-> 1, port |-> TRUE, endpoint |-> TRUE,
                 provider |-> known, node |-> known]
    BY DEF RedeployInit
  <2>2. app \in AppRow /\ app.image = 1 /\ app.provider = known
    BY <2>1 DEF AppRow
  <2>3. kept = [image |-> 1, home |-> known]
    BY <2>2 DEF RedeployInit
  <2> QED BY <2>2, <2>3
<1>2. PICK p \in Pod : p = [image |-> 1, phase |-> "running"]
  BY DEF Pod
<1>3. pods = <<p>>
  BY <1>2 DEF RedeployInit
<1>4. pods \in Seq(Pod) /\ Len(pods) = 1 /\ pods[1] = p
  BY <1>2, <1>3
<1>5. cached \in CacheEntry /\ flow \in FlowState /\ flow.pc = "idle" /\ tried \in Nat
  BY DEF RedeployInit, CacheEntry, FlowState, NoFlow
<1>6. PodsFollow
  BY <1>1, <1>2, <1>4, <1>5 DEF PodsFollow, Replaced
<1> QED BY <1>1, <1>4, <1>5, <1>6 DEF RedeployInv, RedeployTypeOK, DetailsFollow

\* After redeploys, holds and starts in any order, and however often the
\* control plane restarts, an app runs the image its row names, for any number
\* of redeploys, holds and pods: the launch details that a start uses follow
\* each redeploy that lost no answer and no write.
THEOREM RunsItsImage == RedeploySpec => []RunsWhatItsRowSays
<1>1. RedeployInit => RedeployInv
  BY RedeployStarts
<1>2. RedeployInv => RunsWhatItsRowSays
  <2> SUFFICES ASSUME RedeployInv, flow.pc = "idle", pods # <<>>,
                      Newest.phase \in {"starting", "running"}, failures \subseteq Harmless
               PROVE  Newest.image = app.image
    BY DEF RunsWhatItsRowSays, Harmless
  <2>1. pods \in Seq(Pod) /\ PodsFollow
    BY DEF RedeployInv, RedeployTypeOK
  <2>2. Len(pods) \in 1 .. Len(pods) /\ Newest = pods[Len(pods)]
    BY <2>1 DEF Newest, Last
  <2> QED BY <2>1, <2>2 DEF PodsFollow, Replaced
<1> QED BY <1>1, <1>2, RedeployStep, PTL DEF RedeploySpec

\* An app kept as one of a home node never loses its public endpoint, for any
\* number of redeploys, starts, restarts and reports.
THEOREM EndpointKept == RedeploySpec => EndpointStays
<1>1. RedeployInit => RedeployInv
  BY RedeployStarts
<1>2. RedeployInv /\ [RedeployNext]_redeployVars
        => [kept.home /\ app.endpoint => app'.endpoint]_redeployVars
  <2> SUFFICES ASSUME RedeployInv, RedeployNext, kept.home, app.endpoint PROVE app'.endpoint
    BY DEF redeployVars
  <2>1. app \in AppRow
    BY DEF RedeployInv, RedeployTypeOK
  <2>2. CASE UNCHANGED app
    BY <2>2
  <2>3. CASE Start
    BY <2>1, <2>3 DEF Start, AppRow
  <2>4. CASE ReconcileApp
    BY <2>1, <2>4 DEF ReconcileApp, EndpointSeen, AppRow
  <2>5. CASE WriteImage \/ WritePlacement \/ Hold \/ Delete
    BY <2>1, <2>5 DEF WriteImage, WritePlacement, Hold, Delete, AppRow
  <2> QED
    BY <2>2, <2>3, <2>4, <2>5
    DEF RedeployNext, PodStarts, PodExits, SweepApp, BeginRedeploy, EndOldPods, NotFound,
        CreateNewPod, NewPodRefused, KeepSpec, RestartServer
<1> QED BY <1>1, <1>2, RedeployStep, PTL DEF RedeploySpec, EndpointStays

-----------------------------------------------------------------------------
(* What is placed on home nodes.  A node that needs no excuse has room for  *)
(* all that is on it, stopped or still without its row, and every row of an *)
(* instance it has names it: that is why what a placement counts by node_id *)
(* is all there is.                                                         *)

OnNode(n) == Running(n) \cup Held(n) \cup Pending(n)

PlacedRow ==
  [at : {"placed", "running", "stopped"}, on : Nodes, label : Nodes \cup Labels,
   node : Nodes \cup {"null"}]

PlaceState == {NotPlaced, [at |-> "ended"]} \cup PlacedRow

Asked == {p \in Placings : placing[p] # NotPlaced}

PlacingOK == placing \in [Placings -> PlaceState] /\ IsFiniteSet(Asked)

HasRoom(n) ==
  /\ HasRow(n) => TotalSize(OnNode(n)) <= node[n].rentable
  /\ ~HasRow(n) => OnNode(n) = {}
  /\ \A p \in Placings : placing[p].at \in {"running", "stopped"} /\ placing[p].on = n
       => placing[p].node = n

FitInv ==
  /\ NodesInv
  /\ PlacingOK
  /\ \A n \in Nodes \ excused : HasRoom(n)

LEMMA TotalIsSum == \A S : TotalSize(S) = SetSum(Size, S)
BY DEF TotalSize, SetSum, MapThenSumSet, MapThenFoldSet

LEMMA PlaceStates ==
  /\ \A row \in PlaceState : row.at \in {"none", "placed", "running", "stopped", "ended"}
  /\ \A row \in PlaceState : row.at \in {"placed", "running", "stopped"} => row \in PlacedRow
  /\ \A row \in PlaceState : row.at = "none" => row = NotPlaced
  /\ \A row \in PlacedRow : row # NotPlaced
BY DEF PlaceState, PlacedRow, NotPlaced

LEMMA OnNodeIs ==
  ASSUME PlacingOK, NEW n, NEW p
  PROVE  p \in OnNode(n) <=>
           /\ p \in Placings /\ placing[p].at \in {"placed", "running", "stopped"}
           /\ placing[p].on = n
BY DEF OnNode, Running, Held, Pending

\* Sums of what is on a node are numbers, and grow with what is summed.
LEMMA SumOnNode ==
  ASSUME PlacingOK, NEW n
  PROVE  /\ IsFiniteSet(OnNode(n)) /\ OnNode(n) \subseteq Asked
         /\ TotalSize(OnNode(n)) \in Nat
         /\ \A S \in SUBSET OnNode(n) : /\ TotalSize(S) \in Nat
                                        /\ TotalSize(S) <= TotalSize(OnNode(n))
<1>1. OnNode(n) \subseteq Asked
  BY OnNodeIs, PlaceStates DEF PlacingOK, Asked
<1>2. IsFiniteSet(OnNode(n))
  BY <1>1, FS_Subset DEF PlacingOK
<1>3. \A p \in OnNode(n) : Size[p] \in Nat
  BY <1>1, PlacementAssumption DEF Asked
<1>4. ASSUME NEW S \in SUBSET OnNode(n)
      PROVE  SetSum(Size, S) \in Nat /\ SetSum(Size, S) <= SetSum(Size, OnNode(n))
  <2>1. IsFiniteSet(S) /\ \A p \in S : Size[p] \in Nat
    BY <1>2, <1>3, FS_Subset
  <2>2. SetSum(Size, {}) = 0 /\ {} \in SUBSET S
    BY SetSumEmpty
  <2>3. SetSum(Size, S) \in Int
    BY <2>1, SetSumType
  <2>4. SetSum(Size, {}) <= SetSum(Size, S)
    BY <2>1, <2>2, SetSumMonotone
  <2>5. SetSum(Size, S) <= SetSum(Size, OnNode(n))
    BY <1>2, <1>3, SetSumMonotone
  <2> QED BY <2>2, <2>3, <2>4, <2>5
<1> QED BY <1>1, <1>2, <1>4, TotalIsSum

\* What changes nodes only, and their offers not, leaves them room.
LEMMA RoomKept ==
  ASSUME FitInv, UNCHANGED placing, NodesInv', NEW n \in Nodes \ excused,
         HasRow(n) => HasRow(n)' /\ node'[n].rentable = node[n].rentable
  PROVE  HasRoom(n)'
<1>1. HasRoom(n) /\ PlacingOK
  BY DEF FitInv
<1>2. OnNode(n)' = OnNode(n)
  BY DEF OnNode, Running, Held, Pending
<1>3. TotalSize({}) = 0
  BY TotalIsSum, SetSumEmpty
<1>4. HasRow(n)' => node'[n].rentable \in Nat
  BY DEF NodesInv, HasRow, SoundRow, NodeRow
<1>5. HasRow(n)' => TotalSize(OnNode(n)') <= node'[n].rentable
  <2>1. CASE HasRow(n)
    BY <1>1, <1>2, <2>1 DEF HasRoom
  <2>2. CASE ~HasRow(n)
    BY <1>1, <1>2, <1>3, <1>4, <2>2 DEF HasRoom
  <2> QED BY <2>1, <2>2
<1>6. ~HasRow(n)' => OnNode(n)' = {}
  BY <1>1, <1>2 DEF HasRoom
<1> QED BY <1>1, <1>5, <1>6 DEF HasRoom

\* So does what keeps everything placed where it is.
LEMMA RoomKeptPlaced ==
  ASSUME FitInv, UNCHANGED node, NEW n \in Nodes \ excused,
         OnNode(n)' \subseteq OnNode(n),
         \A p \in Placings : placing'[p].at \in {"running", "stopped"} /\ placing'[p].on = n
           => placing'[p].node = n
  PROVE  HasRoom(n)'
<1>1. HasRoom(n) /\ PlacingOK /\ NodesInv
  BY DEF FitInv
<1>2. PICK S : S = OnNode(n)'
  OBVIOUS
<1>3. TotalSize(S) \in Nat /\ TotalSize(OnNode(n)) \in Nat /\ TotalSize(S) <= TotalSize(OnNode(n))
  BY <1>1, <1>2, SumOnNode
<1>4. HasRow(n) => node[n].rentable \in Nat
  BY <1>1 DEF NodesInv, HasRow, SoundRow, NodeRow
<1>5. HasRow(n)' <=> HasRow(n)
  BY DEF HasRow
<1>6. HasRow(n) => TotalSize(S) <= node[n].rentable
  BY <1>1, <1>3, <1>4 DEF HasRoom
<1>7. ~HasRow(n) => S = {}
  BY <1>1, <1>2 DEF HasRoom
<1> QED BY <1>2, <1>5, <1>6, <1>7 DEF HasRoom

\* A placing that keeps its node, or ends, leaves no more on any node.
LEMMA PlacingMoves ==
  ASSUME PlacingOK, NEW p \in Placings, placing[p] \in PlacedRow, NEW row \in PlaceState,
         row \in PlacedRow => row.on = placing[p].on, row # NotPlaced,
         placing' = [placing EXCEPT ![p] = row]
  PROVE  /\ PlacingOK'
         /\ \A n \in Nodes : OnNode(n)' \subseteq OnNode(n)
<1>1. placing' \in [Placings -> PlaceState]
  BY DEF PlacingOK
<1>2. Asked' = Asked
  BY PlaceStates DEF PlacingOK, Asked
<1>3. PlacingOK'
  BY <1>1, <1>2 DEF PlacingOK
<1>4. ASSUME NEW n \in Nodes, NEW q, q \in OnNode(n)' PROVE q \in OnNode(n)
  <2>1. q \in Placings /\ placing'[q].at \in {"placed", "running", "stopped"} /\ placing'[q].on = n
    BY <1>3, <1>4 DEF OnNode, Running, Held, Pending
  <2>2. CASE q = p
    <3>1. placing'[q] = row /\ row \in PlacedRow
      BY <2>1, <2>2, PlaceStates DEF PlacingOK
    <3>2. placing[q].at \in {"placed", "running", "stopped"} /\ placing[q].on = n
      BY <2>1, <2>2, <3>1 DEF PlacedRow
    <3> QED BY <2>1, <3>2, OnNodeIs
  <2>3. CASE q # p
    BY <2>1, <2>3, OnNodeIs DEF PlacingOK
  <2> QED BY <2>2, <2>3
<1> QED BY <1>3, <1>4

LEMMA PlaceKeepsRoom == ASSUME FitInv, NEW p \in Placings, NEW n \in Nodes, PlaceCPU(p, n)
                        PROVE  FitInv'
<1>1. /\ NodesInv /\ PlacingOK /\ \A m \in Nodes \ excused : HasRoom(m)
      /\ placing[p] = NotPlaced /\ UNCHANGED node
  BY DEF FitInv, PlaceCPU
<1>2. NodesInv'
  BY NodesStep DEF FitInv, PlacementNext
<1>3. PICK row : row = [at |-> "placed", on |-> n, label |-> node[n].label, node |-> "null"]
  OBVIOUS
<1>4. HasRow(n) /\ node[n] \in NodeRow /\ node[n].rentable \in Nat
  BY <1>1 DEF PlaceCPU, Eligible, NodesInv, HasRow, SoundRow, NodeRow
<1>5. row \in PlacedRow /\ row.at = "placed" /\ row.on = n
  BY <1>3, <1>4 DEF PlacedRow, NodeRow
<1>6. placing' = [placing EXCEPT ![p] = row]
  BY <1>3 DEF PlaceCPU
<1>7. /\ placing' \in [Placings -> PlaceState]
      /\ \A q \in Placings : placing'[q] = IF q = p THEN row ELSE placing[q]
  BY <1>1, <1>5, <1>6 DEF PlacingOK, PlaceState
<1>8. Asked' = Asked \cup {p}
  BY <1>1, <1>5, <1>7, PlaceStates DEF Asked
<1>9. PlacingOK'
  BY <1>1, <1>7, <1>8, FS_AddElement DEF PlacingOK
<1>10. OnNode(n)' = OnNode(n) \cup {p} /\ p \notin OnNode(n)
  <2>1. p \notin OnNode(n)
    BY <1>1, OnNodeIs DEF NotPlaced
  <2>2. ASSUME NEW q PROVE q \in OnNode(n)' <=> q \in OnNode(n) \/ q = p
    <3>1. q \in OnNode(n)' <=> /\ q \in Placings
                               /\ placing'[q].at \in {"placed", "running", "stopped"}
                               /\ placing'[q].on = n
      BY DEF OnNode, Running, Held, Pending
    <3> QED BY <1>1, <1>5, <1>7, <3>1, OnNodeIs
  <2> QED BY <2>1, <2>2
<1>11. ASSUME NEW m \in Nodes \ excused', m # n PROVE HasRoom(m)'
  <2>1. m \in Nodes \ excused
    BY <1>11 DEF PlaceCPU
  <2>2. OnNode(m)' \subseteq OnNode(m)
    <3>1. ASSUME NEW q, q \in OnNode(m)' PROVE q \in OnNode(m)
      <4>1. /\ q \in Placings
            /\ placing'[q].at \in {"placed", "running", "stopped"}
            /\ placing'[q].on = m
        BY <3>1 DEF OnNode, Running, Held, Pending
      <4> QED BY <1>1, <1>5, <1>7, <1>11, <4>1, OnNodeIs
    <3> QED BY <3>1
  <2>3. \A q \in Placings : placing'[q].at \in {"running", "stopped"} /\ placing'[q].on = m
          => placing'[q].node = m
    BY <1>1, <1>5, <1>7, <2>1 DEF HasRoom
  <2> QED BY <1>1, <2>1, <2>2, <2>3, RoomKeptPlaced
<1>12. ASSUME n \notin excused' PROVE HasRoom(n)'
  <2>1. n \notin excused /\ Pending(n) = {}
    BY <1>12 DEF PlaceCPU
  <2>2. HasRoom(n)
    BY <1>1, <2>1
  <2>3. OnNode(n) \subseteq Linked(n)
    BY <1>1, <2>1, <2>2 DEF OnNode, Running, Held, Linked, HasRoom
  <2>4. IsFiniteSet(Linked(n)) /\ \A q \in Linked(n) : Size[q] \in Nat
    <3>1. Linked(n) \subseteq Asked
      BY DEF Linked, Asked, NotPlaced
    <3> QED BY <1>1, <3>1, FS_Subset, PlacementAssumption DEF PlacingOK, Asked
  <2>5. TotalSize(OnNode(n)) <= Used(n)
    BY <2>3, <2>4, SetSumMonotone, TotalIsSum DEF Used
  <2>6. Used(n) \in Int
    BY <2>4, SetSumType, TotalIsSum DEF Used
  <2>7. Used(n) + Size[p] <= node[n].rentable /\ Size[p] \in Nat
    BY PlacementAssumption DEF PlaceCPU, Eligible
  <2>8. IsFiniteSet(OnNode(n)) /\ \A q \in OnNode(n) : Size[q] \in Int
    BY <1>1, <2>3, <2>4, SumOnNode
  <2>9. TotalSize(OnNode(n) \cup {p}) = TotalSize(OnNode(n)) + Size[p]
    BY <1>10, <2>7, <2>8, SetSumAdd, TotalIsSum
  <2>10. TotalSize(OnNode(n)) \in Nat
    BY <1>1, SumOnNode
  <2>11. TotalSize(OnNode(n) \cup {p}) <= node[n].rentable
    BY <1>4, <2>5, <2>6, <2>7, <2>9, <2>10
  <2>12. PICK S : S = OnNode(n)' /\ S = OnNode(n) \cup {p}
    BY <1>10
  <2>13. HasRow(n)'
    BY <1>1, <1>4 DEF HasRow
  <2>14. \A q \in Placings : placing'[q].at \in {"running", "stopped"} /\ placing'[q].on = n
           => placing'[q].node = n
    BY <1>5, <1>7, <2>2 DEF HasRoom
  <2> QED BY <1>1, <2>11, <2>12, <2>13, <2>14 DEF HasRoom
<1> QED BY <1>2, <1>9, <1>11, <1>12 DEF FitInv

LEMMA CreateKeepsRoom == ASSUME FitInv, NEW p \in Placings, CreatePlaced(p) PROVE FitInv'
<1>1. /\ NodesInv /\ PlacingOK /\ \A m \in Nodes \ excused : HasRoom(m)
      /\ placing[p].at = "placed" /\ UNCHANGED node
  BY DEF FitInv, CreatePlaced
<1>2. NodesInv'
  BY NodesStep DEF FitInv, PlacementNext
<1>3. PICK link \in Nodes \cup {"null"} :
        /\ placing' = [placing EXCEPT ![p].at = "running", ![p].node = link]
        /\ excused' = IF link = placing[p].on THEN excused ELSE excused \cup {placing[p].on}
  <2> DEFINE named == {n \in Nodes : HasRow(n) /\ node[n].label = placing[p].label}
             found == IF named = {} THEN "null" ELSE CHOOSE n \in named : TRUE
  <2>1. found \in Nodes \cup {"null"}
    OBVIOUS
  <2>2. /\ placing' = [placing EXCEPT ![p].at = "running", ![p].node = found]
        /\ excused' = IF found = placing[p].on THEN excused ELSE excused \cup {placing[p].on}
    BY DEF CreatePlaced
  <2> HIDE DEF found
  <2> QED BY <2>1, <2>2
<1>4. placing[p] \in PlacedRow
  BY <1>1, PlaceStates DEF PlacingOK
<1>5. PICK row : row = [placing[p] EXCEPT !.at = "running", !.node = link]
  OBVIOUS
<1>6. row \in PlacedRow /\ row.at = "running" /\ row.on = placing[p].on /\ row.node = link
  BY <1>4, <1>5 DEF PlacedRow
<1>7. placing' = [placing EXCEPT ![p] = row]
  BY <1>1, <1>3, <1>5 DEF PlacingOK
<1>8. PlacingOK' /\ \A n \in Nodes : OnNode(n)' \subseteq OnNode(n)
  BY <1>1, <1>4, <1>6, <1>7, PlacingMoves, PlaceStates DEF PlaceState
<1>9. ASSUME NEW m \in Nodes \ excused' PROVE HasRoom(m)'
  <2>1. m \in Nodes \ excused /\ (placing[p].on = m => link = m)
    BY <1>3, <1>9
  <2>2. \A q \in Placings : placing'[q].at \in {"running", "stopped"} /\ placing'[q].on = m
          => placing'[q].node = m
    BY <1>1, <1>6, <1>7, <2>1 DEF HasRoom, PlacingOK
  <2> QED BY <1>1, <1>8, <2>1, <2>2, RoomKeptPlaced
<1> QED BY <1>2, <1>8, <1>9 DEF FitInv

LEMMA EndsKeepRoom ==
  ASSUME FitInv, NEW p \in Placings, CreateRefused(p) \/ TerminatePlaced(p)
  PROVE  FitInv'
<1>1. /\ NodesInv /\ PlacingOK /\ \A m \in Nodes \ excused : HasRoom(m)
      /\ placing[p].at \in {"placed", "running", "stopped"} /\ Ends(p) /\ UNCHANGED node
  BY DEF FitInv, CreateRefused, TerminatePlaced, Ends
<1>2. NodesInv'
  BY NodesStep DEF FitInv, PlacementNext
<1>3. placing[p] \in PlacedRow /\ placing[p].on \in Nodes
  BY <1>1, PlaceStates DEF PlacingOK, PlacedRow
<1>4. PICK row : row = [at |-> "ended"]
  OBVIOUS
<1>5. row \in PlaceState /\ row # NotPlaced /\ row \notin PlacedRow /\ row.at = "ended"
  BY <1>4 DEF PlaceState, NotPlaced, PlacedRow
<1>6. placing' = [placing EXCEPT ![p] = row]
  BY <1>1, <1>4 DEF Ends
<1>7. PlacingOK' /\ \A n \in Nodes : OnNode(n)' \subseteq OnNode(n)
  BY <1>1, <1>3, <1>5, <1>6, PlacingMoves
<1>8. \A q \in Placings : placing'[q] = IF q = p THEN row ELSE placing[q]
  BY <1>1, <1>6 DEF PlacingOK
<1>9. ASSUME NEW m \in Nodes \ excused PROVE HasRoom(m)'
  <2>1. \A q \in Placings : placing'[q].at \in {"running", "stopped"} /\ placing'[q].on = m
          => placing'[q].node = m
    BY <1>1, <1>5, <1>8 DEF HasRoom
  <2> QED BY <1>1, <1>7, <2>1, RoomKeptPlaced
<1>10. ASSUME NEW m \in Nodes \ excused', m \in excused PROVE HasRoom(m)'
  <2>1. m = placing[p].on /\ OnNode(m) \ {p} = {}
    BY <1>1, <1>10 DEF Ends, OnNode
  <2>2. ASSUME NEW q \in Placings,
               placing'[q].at \in {"placed", "running", "stopped"}, placing'[q].on = m
        PROVE  FALSE
    <3>1. q # p
      BY <1>5, <1>8, <2>2
    <3>2. q \in OnNode(m)
      BY <1>1, <1>8, <2>2, <3>1, OnNodeIs
    <3> QED BY <2>1, <3>1, <3>2
  <2>3. OnNode(m)' = {}
    BY <2>2 DEF OnNode, Running, Held, Pending
  <2>4. PICK S : S = OnNode(m)' /\ TotalSize(S) = 0
    BY <2>3, TotalIsSum, SetSumEmpty
  <2>5. HasRow(m)' => node'[m].rentable \in Nat
    BY <1>2 DEF NodesInv, HasRow, SoundRow, NodeRow
  <2> QED BY <2>2, <2>3, <2>4, <2>5 DEF HasRoom
<1> QED BY <1>2, <1>7, <1>9, <1>10 DEF FitInv

LEMMA DeleteKeepsRoom == ASSUME FitInv, NEW n \in Nodes, DeleteNode(n) PROVE FitInv'
<1>1. NodesInv /\ PlacingOK /\ \A m \in Nodes \ excused : HasRoom(m)
  BY DEF FitInv
<1>2. NodesInv'
  BY NodesStep DEF FitInv, PlacementNext
<1>3. ASSUME NEW p \in Linked(n)
      PROVE  /\ placing[p] \in PlacedRow
             /\ [placing[p] EXCEPT !.node = "null"] \in PlacedRow
             /\ [placing[p] EXCEPT !.node = "null"].at = placing[p].at
             /\ [placing[p] EXCEPT !.node = "null"].on = placing[p].on
  <2>1. placing[p] \in PlacedRow
    BY <1>1, <1>3, PlaceStates DEF Linked, PlacingOK
  <2> QED BY <2>1 DEF PlacedRow
<1>4. \A p \in Placings : /\ placing'[p] \in PlaceState
                          /\ placing'[p].at = placing[p].at
                          /\ p \in Linked(n) => placing'[p].on = placing[p].on
                          /\ p \notin Linked(n) => placing'[p] = placing[p]
  BY <1>1, <1>3 DEF DeleteNode, PlacingOK, PlaceState
<1>5. placing' \in [Placings -> PlaceState]
  BY <1>4 DEF DeleteNode
<1>6. Asked' = Asked
  BY <1>1, <1>4, <1>5, PlaceStates DEF Asked, PlacingOK, NotPlaced
<1>7. PlacingOK'
  BY <1>1, <1>5, <1>6 DEF PlacingOK
<1>8. ASSUME NEW m \in Nodes PROVE OnNode(m)' = OnNode(m)
  <2>1. \A p : p \in OnNode(m)' <=> /\ p \in Placings
                                    /\ placing'[p].at \in {"placed", "running", "stopped"}
                                    /\ placing'[p].on = m
    BY DEF OnNode, Running, Held, Pending
  <2>2. \A p \in Placings : placing[p].at \in {"placed", "running", "stopped"}
          => placing'[p].on = placing[p].on
    BY <1>4
  <2> QED BY <1>1, <1>4, <2>1, <2>2, OnNodeIs
<1>9. ASSUME NEW m \in Nodes \ excused', m # n PROVE HasRoom(m)'
  <2>1. m \in Nodes \ excused /\ HasRoom(m)
    BY <1>1, <1>9 DEF DeleteNode
  <2>2. \A p \in Placings : placing'[p].at \in {"running", "stopped"} /\ placing'[p].on = m
          => placing'[p].node = m
    <3> SUFFICES ASSUME NEW p \in Placings, placing'[p].at \in {"running", "stopped"},
                        placing'[p].on = m
                 PROVE  placing'[p].node = m
      OBVIOUS
    <3>1. CASE p \in Linked(n)
      <4>1. placing[p].at \in {"running", "stopped"} /\ placing[p].on = m
        BY <1>4, <3>1
      <4>2. placing[p].node = m
        BY <2>1, <4>1 DEF HasRoom
      <4> QED BY <1>9, <3>1, <4>2 DEF Linked
    <3>2. CASE p \notin Linked(n)
      BY <1>4, <2>1, <3>2 DEF HasRoom
    <3> QED BY <3>1, <3>2
  <2>3. node'[m] = node[m]
    BY <1>1, <1>9 DEF DeleteNode, NodesInv
  <2>4. PICK S : S = OnNode(m)' /\ S = OnNode(m)
    BY <1>8
  <2>5. HasRow(m)' <=> HasRow(m)
    BY <2>3 DEF HasRow
  <2> QED BY <2>1, <2>2, <2>3, <2>4, <2>5 DEF HasRoom
<1>10. ASSUME n \notin excused' PROVE HasRoom(n)'
  <2>1. OnNode(n) = {}
    BY <1>10 DEF DeleteNode, OnNode
  <2>2. OnNode(n)' = {}
    BY <1>8, <2>1
  <2>3. ~HasRow(n)'
    BY <1>1 DEF DeleteNode, NodesInv, HasRow
  <2>4. \A p \in Placings : placing'[p].at \in {"running", "stopped"} => placing'[p].on # n
    BY <2>2 DEF OnNode, Running, Held
  <2> QED BY <2>2, <2>3, <2>4 DEF HasRoom
<1> QED BY <1>2, <1>7, <1>9, <1>10 DEF FitInv

LEMMA StopOrStartKeepsRoom == ASSUME FitInv, NEW p \in Placings, StopOrStart(p) PROVE FitInv'
<1>1. /\ NodesInv /\ PlacingOK /\ \A m \in Nodes \ excused : HasRoom(m)
      /\ placing[p].at \in {"running", "stopped"} /\ UNCHANGED <<node, excused>>
  BY DEF FitInv, StopOrStart
<1>2. NodesInv'
  BY NodesStep DEF FitInv, PlacementNext
<1>3. placing[p] \in PlacedRow
  BY <1>1, PlaceStates DEF PlacingOK
<1>4. PICK at \in {"running", "stopped"} : placing' = [placing EXCEPT ![p].at = at]
  BY <1>1 DEF StopOrStart
<1>5. PICK row : row = [placing[p] EXCEPT !.at = at]
  OBVIOUS
<1>6. row \in PlacedRow /\ row.at = at /\ row.on = placing[p].on /\ row.node = placing[p].node
  BY <1>3, <1>4, <1>5 DEF PlacedRow
<1>7. placing' = [placing EXCEPT ![p] = row]
  BY <1>1, <1>4, <1>5 DEF PlacingOK
<1>8. PlacingOK' /\ \A n \in Nodes : OnNode(n)' \subseteq OnNode(n)
  BY <1>1, <1>3, <1>6, <1>7, PlacingMoves, PlaceStates DEF PlaceState
<1>9. ASSUME NEW m \in Nodes \ excused' PROVE HasRoom(m)'
  <2>1. \A q \in Placings : placing'[q].at \in {"running", "stopped"} /\ placing'[q].on = m
          => placing'[q].node = m
    BY <1>1, <1>6, <1>7, <1>9 DEF HasRoom, PlacingOK
  <2> QED BY <1>1, <1>8, <2>1, RoomKeptPlaced
<1> QED BY <1>2, <1>8, <1>9 DEF FitInv

LEMMA RowChanges ==
  ASSUME NEW row \in NodeRow, NEW ready \in BOOLEAN, NEW amount \in Nat,
         NEW name \in Labels \cup Nodes
  PROVE  /\ [row EXCEPT !.status = "enrolled", !.revoked = FALSE] \in NodeRow /\ [row EXCEPT !.status = "enrolled", !.revoked = FALSE].rentable = row.rentable
         /\ Seen(row, ready) \in NodeRow /\ Seen(row, ready).rentable = row.rentable
         /\ [row EXCEPT !.fresh = FALSE] \in NodeRow /\ [row EXCEPT !.fresh = FALSE].rentable = row.rentable
         /\ [row EXCEPT !.status = "offline"] \in NodeRow /\ [row EXCEPT !.status = "offline"].rentable = row.rentable
         /\ [row EXCEPT !.rentable = amount] \in NodeRow /\ [row EXCEPT !.rentable = amount].rentable = amount
         /\ [row EXCEPT !.label = name] \in NodeRow /\ [row EXCEPT !.label = name].rentable = row.rentable
         /\ [row EXCEPT !.status = "disabled", !.revoked = TRUE] \in NodeRow /\ [row EXCEPT !.status = "disabled", !.revoked = TRUE].rentable = row.rentable
<1>1. [row EXCEPT !.status = "enrolled", !.revoked = FALSE] \in NodeRow /\ [row EXCEPT !.status = "enrolled", !.revoked = FALSE].rentable = row.rentable
  BY DEF NodeRow
<1>2. Seen(row, ready) \in NodeRow /\ Seen(row, ready).rentable = row.rentable
  BY DEF NodeRow, Seen
<1>3. [row EXCEPT !.fresh = FALSE] \in NodeRow /\ [row EXCEPT !.fresh = FALSE].rentable = row.rentable
  BY DEF NodeRow
<1>4. [row EXCEPT !.status = "offline"] \in NodeRow /\ [row EXCEPT !.status = "offline"].rentable = row.rentable
  BY DEF NodeRow
<1>5. [row EXCEPT !.rentable = amount] \in NodeRow /\ [row EXCEPT !.rentable = amount].rentable = amount
  BY DEF NodeRow
<1>6. [row EXCEPT !.label = name] \in NodeRow /\ [row EXCEPT !.label = name].rentable = row.rentable
  BY DEF NodeRow
<1>7. [row EXCEPT !.status = "disabled", !.revoked = TRUE] \in NodeRow /\ [row EXCEPT !.status = "disabled", !.revoked = TRUE].rentable = row.rentable
  BY DEF NodeRow
<1> QED BY <1>1, <1>2, <1>3, <1>4, <1>5, <1>6, <1>7

LEMMA NodesKeepRoom ==
  ASSUME FitInv, NodesInv', UNCHANGED <<placing, excused>>,
         \A n \in Nodes : HasRow(n) => HasRow(n)' /\ node'[n].rentable = node[n].rentable
  PROVE  FitInv'
<1>1. \A n \in Nodes \ excused' : HasRoom(n)'
  BY RoomKept
<1>2. PlacingOK'
  BY DEF FitInv, PlacingOK, Asked
<1> QED BY <1>1, <1>2 DEF FitInv

LEMMA FitStep == FitInv /\ [PlacementNext]_placementVars => FitInv'
<1> SUFFICES ASSUME FitInv, [PlacementNext]_placementVars PROVE FitInv'
  OBVIOUS
<1>0. NodesInv /\ NodesInv' /\ PlacingOK
  BY NodesStep DEF FitInv
<1> DEFINE Offers == \A n \in Nodes : HasRow(n) => HasRow(n)' /\ node'[n].rentable = node[n].rentable
<1>1. ASSUME NEW n \in Nodes, HasRow(n), NEW row \in NodeRow, row # NoRow,
             row.rentable = node[n].rentable, node' = [node EXCEPT ![n] = row]
      PROVE  Offers
  BY <1>0, <1>1 DEF NodesInv, HasRow
<1>2. ASSUME NEW n \in Nodes, ~HasRow(n), NEW row, node' = [node EXCEPT ![n] = row]
      PROVE  Offers
  BY <1>0, <1>2 DEF NodesInv, HasRow
<1>3. ASSUME UNCHANGED node PROVE Offers
  BY <1>3 DEF HasRow
<1>4. \A n \in Nodes : HasRow(n) => node[n] \in NodeRow
  BY <1>0 DEF NodesInv, HasRow, SoundRow
<1>5. \A row \in NodeRow : row # NoRow
  BY DEF NodeRow, NoRow
<1>6. ASSUME NEW n \in Nodes, Enroll(n) PROVE FitInv'
  <2>1. CASE HasRow(n)
    <3>1. PICK row \in NodeRow : /\ row = [node[n] EXCEPT !.status = "enrolled", !.revoked = FALSE]
                                 /\ row.rentable = node[n].rentable
      BY <1>4, <2>1, RowChanges
    <3>2. node' = [node EXCEPT ![n] = row]
      BY <1>6, <2>1, <3>1 DEF Enroll
    <3> QED BY <1>0, <1>1, <1>5, <1>6, <2>1, <3>1, <3>2, NodesKeepRoom DEF Enroll
  <2>2. CASE ~HasRow(n)
    <3>1. node' = [node EXCEPT ![n] = NewRow(n, "enrolled", FALSE)]
      BY <1>6, <2>2 DEF Enroll
    <3> QED BY <1>0, <1>2, <1>6, <2>2, <3>1, NodesKeepRoom DEF Enroll
  <2> QED BY <2>1, <2>2
<1>7. ASSUME NEW n \in Nodes, NEW ready \in BOOLEAN,
             ConnectNode(n) \/ DisconnectNode(n) \/ ReportInventory(n, ready) \/ CountInstancesOf(n)
      PROVE  FitInv'
  BY <1>0, <1>3, <1>7, NodesKeepRoom DEF ConnectNode, DisconnectNode, ReportInventory, CountInstancesOf
<1>8. ASSUME NEW n \in Nodes, NEW ready \in BOOLEAN, UpsertSeen(n, ready) PROVE FitInv'
  <2>1. CASE HasRow(n)
    <3>1. PICK row \in NodeRow : row = Seen(node[n], ready) /\ row.rentable = node[n].rentable
      BY <1>4, <2>1, RowChanges
    <3>2. node' = [node EXCEPT ![n] = row]
      BY <1>8, <2>1, <3>1 DEF UpsertSeen
    <3> QED BY <1>0, <1>1, <1>5, <1>8, <2>1, <3>1, <3>2, NodesKeepRoom DEF UpsertSeen
  <2>2. CASE ~HasRow(n)
    <3>1. PICK row : node' = [node EXCEPT ![n] = row]
      BY <1>8 DEF UpsertSeen
    <3> QED BY <1>0, <1>2, <1>8, <2>2, <3>1, NodesKeepRoom DEF UpsertSeen
  <2> QED BY <2>1, <2>2
<1>9. ASSUME NEW n \in Nodes, GoesQuiet(n) PROVE FitInv'
  <2>1. PICK row \in NodeRow : row = [node[n] EXCEPT !.fresh = FALSE] /\ row.rentable = node[n].rentable
    BY <1>4, <1>9, RowChanges DEF GoesQuiet
  <2>2. node' = [node EXCEPT ![n] = row]
    BY <1>0, <1>9, <2>1 DEF GoesQuiet, NodesInv
  <2> QED BY <1>0, <1>1, <1>5, <1>9, <2>1, <2>2, NodesKeepRoom DEF GoesQuiet
<1>10. ASSUME MarkStaleOffline PROVE FitInv'
  <2>1. ASSUME NEW n \in Nodes, HasRow(n)
        PROVE  HasRow(n)' /\ node'[n].rentable = node[n].rentable
    <3>1. PICK row \in NodeRow : row = [node[n] EXCEPT !.status = "offline"] /\ row.rentable = node[n].rentable
      BY <1>4, <2>1, RowChanges
    <3>2. node'[n] = row \/ node'[n] = node[n]
      BY <1>10, <2>1, <3>1 DEF MarkStaleOffline
    <3> QED BY <1>4, <1>5, <2>1, <3>1, <3>2 DEF HasRow
  <2> QED BY <1>0, <1>10, <2>1, NodesKeepRoom DEF MarkStaleOffline
<1>11. ASSUME NEW n \in Nodes, NEW amount \in 0 .. Capacity, SetReservation(n, amount) PROVE FitInv'
  <2>1. amount \in Nat
    BY PlacementAssumption
  <2>2. PICK row \in NodeRow : row = [node[n] EXCEPT !.rentable = amount] /\ row.rentable = amount
    <3>1. node[n] \in NodeRow
      BY <1>4, <1>11 DEF SetReservation
    <3>2. PICK new : new = [node[n] EXCEPT !.rentable = amount]
      OBVIOUS
    <3>3. new \in NodeRow /\ new.rentable = amount
      BY <2>1, <3>1, <3>2 DEF NodeRow
    <3> QED BY <3>2, <3>3
  <2>3. node' = [node EXCEPT ![n] = row] /\ UNCHANGED placing
    BY <1>0, <1>11, <2>2 DEF SetReservation, NodesInv
  <2>4. PlacingOK' /\ \A m \in Nodes : OnNode(m)' = OnNode(m)
    BY <1>0, <2>3 DEF PlacingOK, Asked, OnNode, Running, Held, Pending
  <2>5. ASSUME NEW m \in Nodes \ excused' PROVE HasRoom(m)'
    <3>1. m \in Nodes \ excused /\ HasRoom(m)
      BY <1>11, <2>5 DEF SetReservation, FitInv
    <3>2. CASE m # n
      <4>1. node'[m] = node[m]
        BY <1>0, <2>3, <3>2 DEF NodesInv
      <4> QED BY <1>0, <2>3, <3>1, <4>1, RoomKept DEF HasRow
    <3>3. CASE m = n
      <4>1. TotalSize(OnNode(n)) <= amount
        <5>1. ~ (TotalSize(OnNode(n)) > amount)
          BY <1>11, <2>5, <3>1, <3>3 DEF SetReservation, OnNode
        <5> QED BY <1>0, <2>1, <5>1, SumOnNode
      <4>2. node'[n].rentable = amount /\ HasRow(n)'
        BY <1>0, <1>5, <2>2, <2>3 DEF NodesInv, HasRow
      <4>3. PICK S : S = OnNode(n)' /\ S = OnNode(n)
        BY <2>4
      <4> QED BY <2>3, <3>1, <3>3, <4>1, <4>2, <4>3 DEF HasRoom
    <3> QED BY <3>2, <3>3
  <2> QED BY <1>0, <2>4, <2>5 DEF FitInv
<1>12. ASSUME NEW n \in Nodes, NEW name \in Labels \cup Nodes, RenameNode(n, name) PROVE FitInv'
  <2>1. PICK row \in NodeRow : row = [node[n] EXCEPT !.label = name] /\ row.rentable = node[n].rentable
    BY <1>4, <1>12, RowChanges DEF RenameNode
  <2>2. node' = [node EXCEPT ![n] = row]
    BY <1>0, <1>12, <2>1 DEF RenameNode, NodesInv
  <2> QED BY <1>0, <1>1, <1>5, <1>12, <2>1, <2>2, NodesKeepRoom DEF RenameNode
<1>13. ASSUME NEW n \in Nodes, DisableNode(n) PROVE FitInv'
  <2>1. PICK row \in NodeRow : /\ row = [node[n] EXCEPT !.status = "disabled", !.revoked = TRUE]
                               /\ row.rentable = node[n].rentable
    BY <1>4, <1>13, RowChanges DEF DisableNode
  <2>2. node' = [node EXCEPT ![n] = row]
    BY <1>0, <1>13, <2>1 DEF DisableNode, NodesInv
  <2> QED BY <1>0, <1>1, <1>5, <1>13, <2>1, <2>2, NodesKeepRoom DEF DisableNode
<1>14. ASSUME NEW n \in Nodes, DeleteNode(n) PROVE FitInv'
  BY <1>14, DeleteKeepsRoom
<1>15. ASSUME NEW p \in Placings,
              \/ \E n \in Nodes : PlaceCPU(p, n)
              \/ CreatePlaced(p) \/ CreateRefused(p) \/ TerminatePlaced(p)
       PROVE  FitInv'
  BY <1>15, PlaceKeepsRoom, CreateKeepsRoom, EndsKeepRoom
<1>16. ASSUME NEW p \in Placings, StopOrStart(p) PROVE FitInv'
  BY <1>16, StopOrStartKeepsRoom
<1>17. CASE UNCHANGED placementVars
  BY <1>0, <1>3, <1>17, NodesKeepRoom DEF placementVars
<1> QED
  BY <1>6, <1>7, <1>8, <1>9, <1>10, <1>11, <1>12, <1>13, <1>14, <1>15, <1>16, <1>17
  DEF PlacementNext

\* A node never runs more than its operator offers unless it is excused, for
\* any nodes, machines, requests and sizes: what is on a node, stopped or not,
\* is what a placement there has counted (placement.go:61-107).
THEOREM PlacedFits == PlacementSpec => []FitsUnlessExcused
<1>1. PlacementInit => FitInv
  <2> SUFFICES ASSUME PlacementInit PROVE FitInv
    OBVIOUS
  <2>1. NodesInv
    BY DEF PlacementInit, NodesInv
  <2>2. Asked = {} /\ PlacingOK
    BY FS_EmptySet DEF PlacementInit, Asked, PlacingOK, PlaceState
  <2>3. \A n \in Nodes : HasRoom(n)
    BY <2>2, PlaceStates
    DEF PlacementInit, HasRoom, HasRow, OnNode, Running, Held, Pending, NotPlaced
  <2> QED BY <2>1, <2>2, <2>3 DEF FitInv
<1>2. FitInv => FitsUnlessExcused
  <2> SUFFICES ASSUME FitInv, NEW n \in Nodes \ excused, HasRow(n)
               PROVE  ~ (TotalSize(Running(n)) > node[n].rentable)
    BY DEF FitsUnlessExcused
  <2>1. Running(n) \in SUBSET OnNode(n)
    BY DEF OnNode
  <2>2. TotalSize(Running(n)) \in Nat /\ TotalSize(OnNode(n)) \in Nat
          /\ TotalSize(Running(n)) <= TotalSize(OnNode(n))
    BY <2>1, SumOnNode DEF FitInv
  <2>3. TotalSize(OnNode(n)) <= node[n].rentable /\ node[n].rentable \in Nat
    BY DEF FitInv, HasRoom, NodesInv, HasRow, SoundRow, NodeRow
  <2> QED BY <2>2, <2>3
<1> QED BY <1>1, <1>2, FitStep, PTL DEF PlacementSpec
=============================================================================
