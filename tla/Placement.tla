------------------------------ MODULE Placement ------------------------------
(***************************************************************************)
(* Home nodes and what is placed on them (pkg/nodes): enrolment, the       *)
(* sessions of their agents and the reports written behind them, the       *)
(* operator's changes, and the choice of a node for a new instance, whose  *)
(* row is written only after the node has started it (pkg/api/server.go).  *)
(*                                                                         *)
(* A node is its provider_id.  The row of an instance names its provider,  *)
(* but its node_id is found by the node's name, which an operator may      *)
(* change.  CPU and memory are one quantity.                               *)
(***************************************************************************)
EXTENDS Naturals, FiniteSetsExt

CONSTANTS
  Nodes,           \* providers
  Labels,          \* names an operator may give a node, besides the providers
  Placings,        \* requests for an instance
  Size,            \* Size[p]: what the instance needs
  Capacity,        \* what each machine has
  MaxEnrolments,      \* bound: enrolment tokens
  MaxChanges       \* bound: changes by the operator

ASSUME PlacementAssumption ==
  /\ Size \in [Placings -> Nat \ {0}]
  /\ {Capacity, MaxEnrolments, MaxChanges} \subseteq Nat
  /\ "null" \notin Nodes

VARIABLES
  node,        \* node[n]: its row, NoRow before there is one
  credential,  \* nodes whose agent holds the credential issued last
  attached,     \* nodes whose agent is connected
  seen,        \* seen[n]: reports being written, by what they say of k8s_ready
  dropping,     \* nodes whose deletion has counted no instance and goes on
  placing,     \* placing[p]: where the request has got, and its row
  excused,     \* nodes where something has happened that the code lets exceed
               \* the reservation
  changes,     \* by the operator, so far
  enrolments   \* so far

placementVars == <<node, credential, attached, seen, dropping, placing, excused,
                   changes, enrolments>>

NoRow == [status |-> "none"]

NewRow(n, status, ready) ==
  [status |-> status, revoked |-> FALSE, ready |-> ready, fresh |-> status = "online",
   rentable |-> 0, label |-> n]

HasRow(n)   == node[n] # NoRow
Taken(name) == \E n \in Nodes : HasRow(n) /\ node[n].label = name

NotPlaced == [at |-> "none"]

PlacementInit ==
  /\ node = [n \in Nodes |-> NoRow]
  /\ credential = {}
  /\ attached = {}
  /\ seen = [n \in Nodes |-> {}]
  /\ dropping = {}
  /\ placing = [p \in Placings |-> NotPlaced]
  /\ excused = {}
  /\ changes = 0
  /\ enrolments = 0

-----------------------------------------------------------------------------
(* What is on a node. *)

\* Between the choice of n and the row.
Pending(n) == {p \in Placings : placing[p].at = "placed" /\ placing[p].on = n}

\* Instances that n runs, and those that can be started there again.
Running(n) == {p \in Placings : placing[p].at = "running" /\ placing[p].on = n}
Held(n)    == {p \in Placings : placing[p].at = "stopped" /\ placing[p].on = n}

\* Rows with this node_id and no terminated_at.
Linked(n) == {p \in Placings : placing[p].at \in {"running", "stopped"} /\ placing[p].node = n}

TotalSize(S) == MapThenSumSet(LAMBDA p : Size[p], S)

\* Mutant of Used: only what runs is counted.
UsedByRunning(n) == TotalSize({p \in Linked(n) : placing[p].at = "running"})

Used(n) == TotalSize(Linked(n))

-----------------------------------------------------------------------------
(* Nodes and their agents. *)

\* A token is redeemed once, for a new row or for the one there is: a new
\* credential, and no longer disabled.
Enroll(n) ==
  /\ enrolments < MaxEnrolments
  /\ HasRow(n) \/ ~Taken(n)
  /\ enrolments' = enrolments + 1
  /\ node' = [node EXCEPT ![n] =
       IF HasRow(n) THEN [@ EXCEPT !.status = "enrolled", !.revoked = FALSE]
                    ELSE NewRow(n, "enrolled", FALSE)]
  /\ credential' = credential \cup {n}
  /\ UNCHANGED <<attached, seen, dropping, placing, excused, changes>>

\* AuthenticateNode, and the report of the registration, which knows nothing of
\* the node's Kubernetes.
ConnectNode(n) ==
  /\ n \notin attached
  /\ n \in credential /\ HasRow(n)
  /\ ~node[n].revoked /\ node[n].status # "disabled"
  /\ attached' = attached \cup {n}
  /\ seen' = [seen EXCEPT ![n] = @ \cup {FALSE}]
  /\ UNCHANGED <<node, credential, dropping, placing, excused, changes, enrolments>>

\* Nothing ends the session of a node that is disabled or deleted.
DisconnectNode(n) ==
  /\ n \in attached
  /\ attached' = attached \ {n}
  /\ UNCHANGED <<node, credential, seen, dropping, placing, excused, changes, enrolments>>

ReportInventory(n, ready) ==
  /\ n \in attached
  /\ seen' = [seen EXCEPT ![n] = @ \cup {ready}]
  /\ UNCHANGED <<node, credential, attached, dropping, placing, excused, changes, enrolments>>

\* UpsertSeen where there is a row.
Seen(row, ready) ==
  [row EXCEPT !.status = IF @ = "disabled" THEN @ ELSE "online",
              !.fresh = TRUE, !.ready = ready]

\* Each report is written by a goroutine of its own, in any order.  A row that
\* is gone is made again, unless its name is taken.
UpsertSeen(n, ready) ==
  /\ ready \in seen[n]
  /\ seen' = [seen EXCEPT ![n] = @ \ {ready}]
  /\ node' = [node EXCEPT ![n] =
       IF HasRow(n) THEN Seen(@, ready)
       ELSE IF Taken(n) THEN @ ELSE NewRow(n, "online", ready)]
  /\ UNCHANGED <<credential, attached, dropping, placing, excused, changes, enrolments>>

\* Two minutes without a report.
GoesQuiet(n) ==
  /\ HasRow(n) /\ node[n].fresh
  /\ node' = [node EXCEPT ![n].fresh = FALSE]
  /\ UNCHANGED <<credential, attached, seen, dropping, placing, excused, changes, enrolments>>

MarkStaleOffline ==
  /\ \E n \in Nodes : HasRow(n) /\ node[n].status = "online" /\ ~node[n].fresh
  /\ node' = [n \in Nodes |->
       IF HasRow(n) /\ node[n].status = "online" /\ ~node[n].fresh
         THEN [node[n] EXCEPT !.status = "offline"] ELSE node[n]]
  /\ UNCHANGED <<credential, attached, seen, dropping, placing, excused, changes, enrolments>>

-----------------------------------------------------------------------------
(* The operator. *)

Change == changes < MaxChanges /\ changes' = changes + 1

\* No more than the machine has; less than what runs there is accepted.
SetReservation(n, amount) ==
  /\ Change
  /\ HasRow(n) /\ amount <= Capacity
  /\ node' = [node EXCEPT ![n].rentable = amount]
  /\ excused' = IF TotalSize(Running(n) \cup Held(n) \cup Pending(n)) > amount
                  THEN excused \cup {n} ELSE excused
  /\ UNCHANGED <<credential, attached, seen, dropping, placing, enrolments>>

RenameNode(n, name) ==
  /\ Change
  /\ HasRow(n) /\ ~Taken(name)
  /\ node' = [node EXCEPT ![n].label = name]
  /\ UNCHANGED <<credential, attached, seen, dropping, placing, excused, enrolments>>

DisableNode(n) ==
  /\ Change
  /\ HasRow(n)
  /\ node' = [node EXCEPT ![n].status = "disabled", ![n].revoked = TRUE]
  /\ UNCHANGED <<credential, attached, seen, dropping, placing, excused, enrolments>>

\* DeleteNode counts, and then deletes; node_id is set to null by the latter.
CountInstancesOf(n) ==
  /\ Change
  /\ HasRow(n) /\ Linked(n) = {}
  /\ dropping' = dropping \cup {n}
  /\ UNCHANGED <<node, credential, attached, seen, placing, excused, enrolments>>

DeleteNode(n) ==
  /\ n \in dropping
  /\ dropping' = dropping \ {n}
  /\ node' = [node EXCEPT ![n] = NoRow]
  /\ credential' = credential \ {n}
  /\ placing' = [p \in Placings |->
       IF p \in Linked(n) THEN [placing[p] EXCEPT !.node = "null"] ELSE placing[p]]
  /\ excused' = IF Running(n) \cup Held(n) \cup Pending(n) = {}
                  THEN excused ELSE excused \cup {n}
  /\ UNCHANGED <<attached, seen, changes, enrolments>>

-----------------------------------------------------------------------------
(* Placing an instance. *)

Eligible(n, p) ==
  /\ HasRow(n)
  /\ node[n].status = "online" /\ node[n].ready /\ ~node[n].revoked
  /\ node[n].rentable >= Used(n) + Size[p]

\* PlaceCPU: of the nodes with room, one with the fewest instances.
PlaceCPU(p, n) ==
  /\ placing[p] = NotPlaced
  /\ Eligible(n, p)
  /\ \A m \in Nodes : Eligible(m, p) => Cardinality(Linked(n)) <= Cardinality(Linked(m))
  /\ placing' = [placing EXCEPT ![p] =
       [at |-> "placed", on |-> n, label |-> node[n].label, node |-> "null"]]
  /\ excused' = IF Pending(n) = {} THEN excused ELSE excused \cup {n}
  /\ UNCHANGED <<node, credential, attached, seen, dropping, changes, enrolments>>

\* The node starts it, and the row's node_id is looked up by name.
CreatePlaced(p) ==
  /\ placing[p].at = "placed"
  /\ LET named == {n \in Nodes : HasRow(n) /\ node[n].label = placing[p].label}
         link  == IF named = {} THEN "null" ELSE CHOOSE n \in named : TRUE
     IN  /\ placing' = [placing EXCEPT ![p].at = "running", ![p].node = link]
         /\ excused' = IF link = placing[p].on THEN excused ELSE excused \cup {placing[p].on}
  /\ UNCHANGED <<node, credential, attached, seen, dropping, changes, enrolments>>

\* The node is empty again, and nothing on it needs an excuse.
Ends(p) ==
  /\ placing' = [placing EXCEPT ![p] = [at |-> "ended"]]
  /\ excused' = LET n == placing[p].on
                IN  IF (Running(n) \cup Held(n) \cup Pending(n)) \ {p} = {}
                      THEN excused \ {n} ELSE excused
  /\ UNCHANGED <<node, credential, attached, seen, dropping, changes, enrolments>>

CreateRefused(p)  == placing[p].at = "placed" /\ Ends(p)
TerminatePlaced(p) == placing[p].at \in {"running", "stopped"} /\ Ends(p)

\* A held instance is started again on its own node, with no look at the room.
StopOrStart(p) ==
  /\ placing[p].at \in {"running", "stopped"}
  /\ placing' = [placing EXCEPT ![p].at = IF @ = "running" THEN "stopped" ELSE "running"]
  /\ UNCHANGED <<node, credential, attached, seen, dropping, excused, changes, enrolments>>

-----------------------------------------------------------------------------
PlacementNext ==
  \/ \E n \in Nodes :
       \/ Enroll(n) \/ ConnectNode(n) \/ DisconnectNode(n) \/ GoesQuiet(n)
       \/ \E ready \in BOOLEAN : ReportInventory(n, ready) \/ UpsertSeen(n, ready)
       \/ \E amount \in 0 .. Capacity : SetReservation(n, amount)
       \/ \E name \in Labels \cup Nodes : RenameNode(n, name)
       \/ DisableNode(n) \/ CountInstancesOf(n) \/ DeleteNode(n)
  \/ MarkStaleOffline
  \/ \E p \in Placings :
       \/ \E n \in Nodes : PlaceCPU(p, n)
       \/ CreatePlaced(p) \/ CreateRefused(p) \/ TerminatePlaced(p) \/ StopOrStart(p)

PlacementSpec == PlacementInit /\ [][PlacementNext]_placementVars

-----------------------------------------------------------------------------
(* What should hold. *)

\* A node runs more than its operator offers only for a reason the code leaves
\* open: a placement before the row of the last one was there, a row that lost
\* its node to a rename or a deletion, or an offer cut below what ran there.
\* Instances that are stopped keep their room (placement.go:61-107).
FitsUnlessExcused ==
  \A n \in Nodes : HasRow(n) /\ TotalSize(Running(n)) > node[n].rentable => n \in excused

\* A disabled node stays disabled, its credential revoked, until it is enrolled
\* again, whatever reports of it are still being written (service.go:379-381).
DisabledIsRevoked ==
  \A n \in Nodes : HasRow(n) => (node[n].status = "disabled" <=> node[n].revoked)
=============================================================================
