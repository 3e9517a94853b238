------------------------------ MODULE NodeAgent ------------------------------
(***************************************************************************)
(* One node: the agent's command handlers and status sweep                 *)
(* (pkg/agentrunner/runner.go) over the node's pods and volumes            *)
(* (pkg/cluster/direct.go).                                                *)
(*                                                                         *)
(* Commands arrive on a stream and each runs in a goroutine of its own, so *)
(* they are handled in any order and may outlive the connection they came  *)
(* on.  Messages to the control plane leave in order; they are kept per    *)
(* instance here because nothing relates two instances' messages.          *)
(***************************************************************************)
EXTENDS InstanceTypes, Naturals, Sequences, FiniteSets

CONSTANTS
  PodFates,      \* how a pod may end by itself: "failed", "terminated", "gone";
                 \* "recovers": a failed one (a crash loop) may run again
  GracefulExit,  \* TRUE: a deleted pod is still listed until it has exited
  NodeErrors,    \* TRUE: the node's API server may refuse a command
  SlowSweep,     \* TRUE: commands may overtake a sweep between list and report
  MaxPods,       \* bound: pods of one instance present at a time
  MaxCommands,   \* bound: commands ever received
  MaxDrops,      \* bound: connections lost
  MaxUplink      \* bound: undelivered messages of one instance

ASSUME NodeAssumption ==
  /\ PodFates \subseteq {"failed", "terminated", "gone", "recovers"}
  /\ {GracefulExit, NodeErrors, SlowSweep} \subseteq BOOLEAN
  /\ {MaxPods, MaxCommands, MaxDrops, MaxUplink} \subseteq Nat

VARIABLES
  pods,          \* pods[i]: the pods labelled with instance i, oldest first
  disks,         \* instances whose volume exists
  cmds,          \* commands being handled
  received,      \* how many commands have arrived
  lastReported,  \* lastReported[i]: the status last reported, "none" if none
  listing,       \* what a sweep in progress has listed, NoListing if none is
  linked,        \* the agent is connected and registered
  drops,         \* connections lost so far
  uplink         \* uplink[i]: messages about i on their way

nodeVars == <<pods, disks, cmds, received, lastReported, listing, linked, drops, uplink>>

NoListing == [i \in Instances |-> "unlisted"]

Phases  == {"pending", "running", "failed", "terminated"}
Pod     == [phase : Phases, leaving : BOOLEAN]
Command == [id : 1 .. MaxCommands, kind : Kinds, inst : Instances,
            step : {"start", "create"}, live : BOOLEAN]
Message == [about : {"status"}, value : Statuses]
           \cup [about : Kinds, value : {"ok", "error"}]

-----------------------------------------------------------------------------
(* What the cluster shows of an instance. *)

\* The newest pod decides: an older one is on its way out.
ObservedOf(ps) == IF ps = <<>> THEN "none" ELSE ps[Len(ps)].phase

Observed == [i \in Instances |-> ObservedOf(pods[i])]

Live(p) == ~p.leaving /\ p.phase \in {"pending", "running"}

LivePods(i) == {k \in DOMAIN pods[i] : Live(pods[i][k])}

-----------------------------------------------------------------------------
(* Talking to the control plane. *)

Status(s)    == [about |-> "status", value |-> s]
Result(k, v) == [about |-> k, value |-> v]

Room == \A i \in Instances : Len(uplink[i]) < MaxUplink

\* Mutant of Changes: an instance that is gone is just forgotten.
ChangesSeenOnly(seen) ==
  [i \in Instances |->
     IF seen[i] \in {lastReported[i], "none"} THEN <<>> ELSE <<Status(seen[i])>>]

\* Only changes are sent; an instance that was there last time and is gone now
\* is reported terminated.
Changes(seen) ==
  [i \in Instances |->
     IF seen[i] = lastReported[i] THEN <<>>
     ELSE <<Status(IF seen[i] = "none" THEN "terminated" ELSE seen[i])>>]

Report(seen) ==
  /\ lastReported' = seen
  /\ uplink' = [i \in Instances |-> uplink[i] \o Changes(seen)[i]]

\* A command that outlived its connection answers on a dead stream.
Reply(c, v) ==
  uplink' = IF c.live THEN [uplink EXCEPT ![c.inst] = Append(@, Result(c.kind, v))]
                      ELSE uplink

-----------------------------------------------------------------------------
NodeInit ==
  /\ pods = [i \in Instances |-> <<>>]
  /\ disks = {}
  /\ cmds = {}
  /\ received = 0
  /\ lastReported = [i \in Instances |-> "none"]
  /\ listing = NoListing
  /\ linked = TRUE
  /\ drops = 0
  /\ uplink = [i \in Instances |-> <<>>]

(* The stream. *)

Receive(kind, i) ==
  /\ linked
  /\ received < MaxCommands
  /\ received' = received + 1
  /\ cmds' = cmds \cup {[id |-> received', kind |-> kind, inst |-> i,
                         step |-> "start", live |-> TRUE]}
  /\ UNCHANGED <<pods, disks, lastReported, listing, linked, drops, uplink>>

\* Whatever was under way is lost; a command that had begun may yet be carried
\* out, unheard.
CutStream ==
  /\ linked' = FALSE
  /\ listing' = NoListing
  /\ uplink' = [i \in Instances |-> <<>>]
  /\ cmds' = {[c EXCEPT !.live = FALSE] : c \in cmds}
  /\ UNCHANGED <<pods, disks, received, lastReported>>

Drop ==
  /\ linked
  /\ drops < MaxDrops
  /\ drops' = drops + 1
  /\ CutStream

\* Mutant of Connect: only what has changed since the last connection is sent.
ConnectKeepsReported ==
  /\ ~linked
  /\ \A c \in cmds : c.live
  /\ linked' = TRUE
  /\ Report(Observed)
  /\ UNCHANGED <<pods, disks, cmds, received, listing, drops>>

\* Run: forget what was reported, register, and report everything.  What the
\* last connection was still doing has been cancelled with it.
Connect ==
  /\ ~linked
  /\ \A c \in cmds : c.live
  /\ linked' = TRUE
  /\ lastReported' = Observed
  /\ uplink' = [i \in Instances |->
       IF Observed[i] = "none" THEN <<>> ELSE <<Status(Observed[i])>>]
  /\ UNCHANGED <<pods, disks, cmds, received, listing, drops>>

-----------------------------------------------------------------------------
(* Commands. *)

Forget(i) == lastReported' = [lastReported EXCEPT ![i] = "none"]

\* handleCreate: an instance that is there already counts as created.
CheckExisting(c) ==
  /\ c.kind = "create" /\ c.step = "start"
  /\ IF Observed[c.inst] \in {"pending", "running"}
       THEN /\ cmds' = cmds \ {c}
            /\ Reply(c, "ok")
       ELSE /\ cmds' = (cmds \ {c}) \cup {[c EXCEPT !.step = "create"]}
            /\ UNCHANGED uplink
  /\ UNCHANGED <<pods, disks, received, lastReported, listing, linked, drops>>

\* CreateInstance: the volume (kept if it exists), the pod, the answer, and
\* the report that handleCreate sends at once.
CreatePod(c) ==
  /\ c.kind = "create" /\ c.step = "create"
  /\ Len(pods[c.inst]) < MaxPods
  /\ Room
  /\ cmds' = cmds \ {c}
  /\ disks' = disks \cup ({c.inst} \cap HasDisk)
  /\ pods' = [pods EXCEPT ![c.inst] = Append(@, [phase |-> "pending", leaving |-> FALSE])]
  /\ IF c.live
       THEN LET seen == [i \in Instances |-> ObservedOf(pods'[i])]
            IN  /\ lastReported' = seen
                /\ uplink' = [i \in Instances |->
                     uplink[i] \o (IF i = c.inst THEN <<Result("create", "ok")>> ELSE <<>>)
                               \o Changes(seen)[i]]
       ELSE UNCHANGED <<lastReported, uplink>>
  /\ UNCHANGED <<received, listing, linked, drops>>

\* The API server refuses the pod; the volume may have been made before.
CreateFails(c) ==
  /\ NodeErrors
  /\ c.kind = "create" /\ c.step = "create"
  /\ cmds' = cmds \ {c}
  /\ disks' \in {disks, disks \cup ({c.inst} \cap HasDisk)}
  /\ Reply(c, "error")
  /\ UNCHANGED <<pods, received, lastReported, listing, linked, drops>>

\* Every pod of the instance is deleted; the pod object stays until it exits.
Teardown(i) ==
  pods' = [pods EXCEPT ![i] =
    IF GracefulExit THEN [k \in DOMAIN @ |-> [@[k] EXCEPT !.leaving = TRUE]] ELSE <<>>]

HandleDelete(c) ==
  /\ c.kind = "delete"
  /\ cmds' = cmds \ {c}
  /\ Teardown(c.inst)
  /\ disks' = disks \ {c.inst}
  /\ Forget(c.inst)
  /\ Reply(c, "ok")
  /\ UNCHANGED <<received, listing, linked, drops>>

HandleStop(c) ==
  /\ c.kind = "stop"
  /\ cmds' = cmds \ {c}
  /\ Teardown(c.inst)
  /\ Forget(c.inst)
  /\ Reply(c, "ok")
  /\ UNCHANGED <<disks, received, listing, linked, drops>>

\* The API server fails half way: the pods are deleted first, then the volume,
\* then the rest.
RemoveFails(c) ==
  /\ NodeErrors
  /\ c.kind \in {"delete", "stop"}
  /\ cmds' = cmds \ {c}
  /\ \/ UNCHANGED <<pods, disks>>
     \/ Teardown(c.inst) /\ UNCHANGED disks
     \/ Teardown(c.inst) /\ c.kind = "delete" /\ disks' = disks \ {c.inst}
  /\ Reply(c, "error")
  /\ UNCHANGED <<received, lastReported, listing, linked, drops>>

\* The connection's context is cancelled, or the command was lost with it.
CommandLost(c) ==
  /\ ~c.live
  /\ cmds' = cmds \ {c}
  /\ UNCHANGED <<pods, disks, received, lastReported, listing, linked, drops, uplink>>

-----------------------------------------------------------------------------
(* The status sweep. *)

\* The pods are listed first, their endpoints looked up, and only then is the
\* lock on lastReported taken.
SweepList ==
  /\ linked /\ listing = NoListing
  /\ SlowSweep \/ Observed # lastReported   \* else it has nothing to report
  /\ listing' = Observed
  /\ UNCHANGED <<pods, disks, cmds, received, lastReported, linked, drops, uplink>>

SweepReport ==
  /\ listing # NoListing /\ Room
  /\ Report(listing)
  /\ listing' = NoListing
  /\ UNCHANGED <<pods, disks, cmds, received, linked, drops>>

-----------------------------------------------------------------------------
(* The pods themselves (Kubernetes). *)

SetPhase(i, k, phase) == pods' = [pods EXCEPT ![i][k].phase = phase]

\* A pod starts, fails or completes; one that is being deleted often exits 0.
PodChanges(i, k) ==
  /\ \/ pods[i][k].phase = "pending" /\ SetPhase(i, k, "running")
     \/ \E fate \in PodFates \cap {"failed", "terminated"} :
          Live(pods[i][k]) /\ SetPhase(i, k, fate)
     \/ /\ "recovers" \in PodFates
        /\ pods[i][k].phase = "failed" /\ ~pods[i][k].leaving
        /\ SetPhase(i, k, "running")
     \/ /\ pods[i][k].leaving /\ pods[i][k].phase = "running"
        /\ SetPhase(i, k, "terminated")
  /\ UNCHANGED <<disks, cmds, received, lastReported, listing, linked, drops, uplink>>

\* A deleted pod has exited; or a pod is evicted, or its node reboots.
PodGone(i, k) ==
  /\ pods[i][k].leaving \/ "gone" \in PodFates
  /\ pods' = [pods EXCEPT ![i] = SubSeq(@, 1, k - 1) \o SubSeq(@, k + 1, Len(@))]
  /\ UNCHANGED <<disks, cmds, received, lastReported, listing, linked, drops, uplink>>

-----------------------------------------------------------------------------
HandleCommand(c) ==
  CheckExisting(c) \/ CreatePod(c) \/ HandleDelete(c) \/ HandleStop(c)

CommandStep(c) ==
  \/ /\ SlowSweep \/ listing = NoListing
     /\ HandleCommand(c) \/ CreateFails(c) \/ RemoveFails(c)
  \/ CommandLost(c)

\* Everything a node does by itself.
NodeStep ==
  \/ \E c \in cmds : CommandStep(c)
  \/ SweepList \/ SweepReport
  \/ \E i \in Instances : \E k \in DOMAIN pods[i] : PodChanges(i, k) \/ PodGone(i, k)

(* The control plane, as far as a node by itself can tell. *)

Send    == \E kind \in Kinds, i \in Instances : Receive(kind, i)
Deliver == \E i \in Instances :
             /\ uplink[i] # <<>>
             /\ uplink' = [uplink EXCEPT ![i] = Tail(@)]
             /\ UNCHANGED <<pods, disks, cmds, received, lastReported, listing, linked, drops>>

NodeNext == NodeStep \/ Drop \/ Connect \/ Send \/ Deliver

NodeSpec == NodeInit /\ [][NodeNext]_nodeVars

-----------------------------------------------------------------------------
(* What should hold. *)

\* The type invariant of a node.
NodeTypeOK ==
  /\ pods \in [Instances -> Seq(Pod)]
  /\ disks \subseteq HasDisk
  /\ cmds \subseteq Command
  /\ received \in 0 .. MaxCommands
  /\ lastReported \in [Instances -> Statuses \cup {"none"}]
  /\ listing \in [Instances -> Statuses \cup {"none"}] \cup {NoListing}
  /\ linked \in BOOLEAN
  /\ drops \in 0 .. MaxDrops
  /\ uplink \in [Instances -> Seq(Message)]

=============================================================================
