-------------------------- MODULE InstanceLifecycle --------------------------
(***************************************************************************)
(* An instance from the customer's request to the pod and back to the      *)
(* bill: the control plane's records and one node, joined by the agent's   *)
(* stream (pkg/cluster/grpcserver.go).                                     *)
(***************************************************************************)
EXTENDS NodeAgent, InstanceRecords

CONSTANTS
  LostReplies,     \* TRUE: a caller may give up on an agent that is still at it
  LateSeed,        \* TRUE: reports may overtake a caller that has its answer
  PromptReconnect  \* TRUE: after a restart the node reports within the grace period

ASSUME LifecycleAssumption == {LostReplies, LateSeed, PromptReconnect} \subseteq BOOLEAN

vars == <<nodeVars, recordVars>>

Init == NodeInit /\ RecordInit

-----------------------------------------------------------------------------
(* Both sides at once. *)

DispatchCommand(c) ==
  /\ Dispatch(c, linked)
  /\ Receive(CommandOf(calls[c].kind), calls[c].inst)

Resuming(i) == \E c \in Callers :
  calls[c] # NoCall /\ calls[c].inst = i /\ calls[c].at \in {"ok", "error"}

\* The session's reader hands over one message.
DeliverNext(i) ==
  /\ uplink[i] # <<>>
  /\ LateSeed \/ ~Resuming(i)
  /\ uplink' = [uplink EXCEPT ![i] = Tail(@)]
  /\ LET m == Head(uplink[i])
     IN  IF m.about = "status" THEN RecordStatus(i, m.value)
                               ELSE Answer(i, m.about, m.value)
  /\ UNCHANGED <<pods, disks, cmds, received, lastReported, listing, linked, drops>>

LoseConnection == Drop /\ CloseSession

RestartControlPlane == Restart /\ CutStream /\ UNCHANGED drops

-----------------------------------------------------------------------------
(* One side by itself. *)

\* Somebody's command of this kind is still being carried out or answered.
Outstanding(kind, i) ==
  \/ \E c \in cmds : c.kind = kind /\ c.inst = i /\ c.live
  \/ \E n \in DOMAIN uplink[i] : uplink[i][n].about = kind

TimeOut(c) ==
  /\ Waiting(c)
  /\ LostReplies \/ ~Outstanding(CommandOf(calls[c].kind), calls[c].inst)
  /\ GiveUp(c)

Request == \E c \in Callers, kind \in Requests, i \in Instances :
             Ask(c, kind, i, linked \/ OtherAgents)

Proceed(c) ==
  SkipAbsent(c) \/ Unavailable(c, linked) \/ AskAnother(c) \/ Resume(c) \/ Save(c)

Reconcile ==
  ReconcileRead \/ ReconcileList(linked) \/ \E i \in Instances : ReconcileApply(i)

GracePeriodEnds ==
  /\ PromptReconnect => linked /\ \A i \in Instances : uplink[i] = <<>>
  /\ GraceOver

RecordStep == Request \/ (\E c \in Callers : Proceed(c) \/ TimeOut(c)) \/ Reconcile \/ GracePeriodEnds

Next ==
  \/ NodeStep /\ UNCHANGED recordVars
  \/ Connect /\ UNCHANGED recordVars
  \/ RecordStep /\ UNCHANGED nodeVars
  \/ \E c \in Callers : DispatchCommand(c)
  \/ \E i \in Instances : DeliverNext(i)
  \/ LoseConnection
  \/ RestartControlPlane

Spec == Init /\ [][Next]_vars

\* Goroutines run, the stream delivers what it carries, the agent reconnects
\* with backoff, tickers tick and a pod being deleted exits in the end.
Fairness ==
  /\ SF_vars(UNCHANGED recordVars /\ \E c \in cmds : CommandStep(c))
  /\ WF_vars(UNCHANGED recordVars /\ (SweepList \/ SweepReport))
  /\ WF_vars(UNCHANGED recordVars /\ Connect)
  /\ \A i \in Instances :
       /\ WF_vars(DeliverNext(i))
       /\ WF_vars(UNCHANGED recordVars /\ \E k \in DOMAIN pods[i] :
                    pods[i][k].leaving /\ PodGone(i, k))
  /\ \A c \in Callers : WF_vars((UNCHANGED nodeVars /\ Proceed(c)) \/ DispatchCommand(c))
  /\ WF_vars(UNCHANGED nodeVars /\ Reconcile)
  /\ WF_vars(UNCHANGED nodeVars /\ GracePeriodEnds)

FairSpec == Spec /\ Fairness

-----------------------------------------------------------------------------
(* What should hold. *)

\* The type invariant of the whole.
TypeOK == NodeTypeOK /\ RecordTypeOK

Runs(i) == LivePods(i) # {}

\* A running pod of a recorded instance comes to be billed: its row comes to
\* say "running" unless the pod ends first (reconciler.go, collector.go:235).
RunningPodIsBilled == \A i \in Instances :
  (row[i] # "none" /\ Observed[i] = "running")
    ~> (row[i] = "running" \/ Observed[i] # "running")

\* An instance without a pod is not billed for ever (runner.go:1380-1383).
NothingBilledWithoutPod == \A i \in Instances :
  (row[i] = "running" /\ pods[i] = <<>>) ~> (row[i] # "running" \/ pods[i] # <<>>)

BeingHandled(i) ==
  \/ \E c \in Callers : calls[c] # NoCall /\ calls[c].inst = i
  \/ \E c \in cmds : c.inst = i

\* No pod runs where nothing would ever bill or stop it: the reconciler passes
\* over stopped rows and never sees an instance without one (server.go:929-931,
\* instance_hold.go:216-217).
NoPodUnbilledForEver == \A i \in Instances :
  Runs(i) /\ row[i] \in {"none", "stopped"} => BeingHandled(i)

\* A row is only marked terminated when the instance has no pod that runs: a
\* delete or a stop that succeeded has removed it, and the reconciler does not
\* take an instance it knows nothing of for a vanished one (agent.go:526-548,
\* reconciler.go:128-150).
TerminatedHasNoPod == [][\A i \in Instances :
  row'[i] = "terminated" /\ row[i] # "terminated" => ~Runs(i)]_vars
=============================================================================
