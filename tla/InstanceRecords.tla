--------------------------- MODULE InstanceRecords ---------------------------
(***************************************************************************)
(* The control plane's record of compute instances: the rows billing       *)
(* meters (pkg/compute/store.go, hold.go), the status cache and the agent  *)
(* session's table of waiting callers (pkg/cluster/agent.go, registry.go), *)
(* the API handlers and the credit enforcer that change them               *)
(* (pkg/api/server.go, instance_hold.go, cmd/api-server/adapters.go), and  *)
(* the reconciler that copies the cache into the rows                      *)
(* (pkg/compute/reconciler.go).                                            *)
(*                                                                         *)
(* A caller's request is a sequence of steps: the check it starts with,    *)
(* the dispatch, the answer, what the client notes of it, and the row.     *)
(***************************************************************************)
EXTENDS InstanceTypes, Naturals, FiniteSets

CONSTANTS
  Callers,       \* request goroutines
  Requests,      \* the requests made, a subset of RequestKinds
  OtherAgents,   \* TRUE: another provider's agent is connected too
  DbFailures,    \* the requests whose last statement may fail, and "reconcile"
  MaxOfEach,     \* bound: requests of each kind ever made
  MaxRestarts    \* bound: restarts of the control plane

\* What a customer asks for, what the credit enforcer does to an account out
\* of credit (stop without, hold with a disk) and what the storage hold purges.
RequestKinds == {"create", "start", "delete", "purge", "stop", "hold"}
CallKinds    == RequestKinds \cup {"undo_create", "undo_start"}

ASSUME RecordAssumption ==
  /\ Requests \subseteq RequestKinds
  /\ OtherAgents \in BOOLEAN
  /\ DbFailures \subseteq RequestKinds \cup {"reconcile"}
  /\ {MaxOfEach, MaxRestarts} \subseteq Nat
  /\ "nobody" \notin Callers

VARIABLES
  row,       \* row[i]: status in compute.instances, "none" if there is no row
  cache,     \* cache[i]: AgentClient.statuses, "none" if absent
  routed,    \* routed[i]: AgentClient.providers names this node
  warm,      \* the status cache is past its grace period
  waiting,   \* waiting[i][k]: AgentSession.pending for k-commands on i
  calls,     \* calls[c]: the request c is working on
  drawn,     \* instance ids given out
  pass,      \* the reconciler's pass
  requests,  \* requests[k]: requests of kind k made so far
  restarts   \* restarts so far

recordVars ==
  <<row, cache, routed, warm, waiting, calls, drawn, pass, requests, restarts>>

Nobody  == "nobody"
NoCall  == [kind |-> "none"]
NoPass  == [at |-> "off"]
Idle(c) == calls[c] = NoCall

Active(s) == s \in {"pending", "running", "failed", "stopped"}

-----------------------------------------------------------------------------
(* What a request is made of. *)

CommandOf(kind) ==
  CASE kind \in {"create", "start"}    -> "create"
    [] kind \in {"hold", "undo_start"} -> "stop"
    [] OTHER                           -> "delete"

\* Commands restricted to the caller's project are let through only for an
\* instance the cache knows.
Scoped(kind) == kind \in {"delete", "stop", "hold", "undo_create"}

\* The handlers that note the row's provider first (RouteInstance).
Routes(kind) == kind \in {"start", "purge", "hold"}

\* What the handler has checked when it goes ahead.
MayAsk(kind, i, connected) ==
  CASE kind = "create" -> i \notin drawn
    [] kind = "start"  -> row[i] = "stopped"
    [] kind = "purge"  -> row[i] = "stopped"
    [] kind = "delete" -> row[i] # "stopped" /\ cache[i] # "none" /\ connected
    [] kind = "stop"   -> row[i] = "running" /\ i \notin HasDisk
    [] kind = "hold"   -> row[i] = "running" /\ i \in HasDisk

\* The enforcer is one loop, so its requests come one after the other.
Enforcer == {"stop", "hold"}

EnforcerFree == \A c \in Callers : calls[c].kind \notin Enforcer

SetCall(c, call) == calls' = [calls EXCEPT ![c] = call]
Finish(c)        == SetCall(c, NoCall)
Go(c, at)        == SetCall(c, [calls[c] EXCEPT !.at = at])

Ask(c, kind, i, connected) ==
  /\ Idle(c)
  /\ kind \in Requests
  /\ requests[kind] < MaxOfEach
  /\ MayAsk(kind, i, connected)
  /\ kind \in Enforcer => EnforcerFree
  /\ requests' = [requests EXCEPT ![kind] = @ + 1]
  /\ drawn' = IF kind = "create" THEN drawn \cup {i} ELSE drawn
  /\ SetCall(c, [kind |-> kind, inst |-> i, at |-> "send"])
  /\ UNCHANGED <<row, cache, routed, warm, waiting, pass, restarts>>

-----------------------------------------------------------------------------
(* Dispatching a command. *)

Sending(c) == calls[c] # NoCall /\ calls[c].at = "send"

\* An instance the cache does not know is treated as absent: success.
Absent(call) == Scoped(call.kind) /\ cache[call.inst] = "none"

Routed(call) == [routed EXCEPT ![call.inst] = @ \/ Routes(call.kind)]

\* The command goes to the node that holds the instance or to nobody; a create
\* goes to the node placement chose.
ForThisNode(call) == call.kind = "create" \/ Routed(call)[call.inst]

SkipAbsent(c) ==
  /\ Sending(c) /\ Absent(calls[c])
  /\ IF calls[c].kind = "undo_create" THEN Finish(c) ELSE Go(c, "save")
  /\ routed' = Routed(calls[c])
  /\ UNCHANGED <<row, cache, warm, waiting, drawn, pass, requests, restarts>>

\* The owning provider is known but away, or nobody is connected.
Unavailable(c, connected) ==
  /\ Sending(c) /\ ~Absent(calls[c]) /\ ~connected
  /\ ForThisNode(calls[c]) \/ ~OtherAgents
  /\ Finish(c)
  /\ routed' = Routed(calls[c])
  /\ UNCHANGED <<row, cache, warm, waiting, drawn, pass, requests, restarts>>

\* No provider on record: any session will do, and an agent that has never
\* heard of the instance reports it deleted.
AskAnother(c) ==
  /\ Sending(c) /\ ~Absent(calls[c])
  /\ OtherAgents /\ ~ForThisNode(calls[c])
  /\ Go(c, "ok")
  /\ UNCHANGED <<row, cache, routed, warm, waiting, drawn, pass, requests, restarts>>

\* The command is on its way to the node; its answer will be handed to whoever
\* asked last under the same request id.
Dispatch(c, connected) ==
  /\ Sending(c) /\ ~Absent(calls[c]) /\ connected
  /\ Go(c, "wait")
  /\ routed' = Routed(calls[c])
  /\ waiting' = [waiting EXCEPT ![calls[c].inst][CommandOf(calls[c].kind)] = c]
  /\ UNCHANGED <<row, cache, warm, drawn, pass, requests, restarts>>

\* deliverResult
Answer(i, kind, value) ==
  /\ LET c == waiting[i][kind]
     IN  IF c # Nobody /\ calls[c].at = "wait" THEN Go(c, value) ELSE UNCHANGED calls
  /\ UNCHANGED <<row, cache, routed, warm, waiting, drawn, pass, requests, restarts>>

Unregister(call) == waiting' = [waiting EXCEPT ![call.inst][CommandOf(call.kind)] = Nobody]

Waiting(c) == calls[c] # NoCall /\ calls[c].at = "wait"

\* The timeout; whoever is registered under the request id is struck out.
GiveUp(c) ==
  /\ Waiting(c)
  /\ Finish(c)
  /\ Unregister(calls[c])
  /\ UNCHANGED <<row, cache, routed, warm, drawn, pass, requests, restarts>>

-----------------------------------------------------------------------------
(* The status cache. *)

\* Terminated is final, as long as the cache has the instance.
Recorded(i, s) == IF cache[i] = "terminated" THEN cache ELSE [cache EXCEPT ![i] = s]

RecordStatus(i, s) ==
  /\ cache' = Recorded(i, s)
  /\ UNCHANGED <<row, routed, warm, waiting, calls, drawn, pass, requests, restarts>>

\* The caller resumes with its answer: an instance just created is seeded as
\* pending, a deleted one is forgotten, a stopped one keeps its provider.
Resume(c) ==
  /\ calls[c] # NoCall /\ calls[c].at \in {"ok", "error"}
  /\ LET call == calls[c]
         i    == call.inst
     IN  /\ Unregister(call)
         /\ IF call.at = "error" \/ call.kind \in {"undo_create", "undo_start"}
              THEN Finish(c) ELSE Go(c, "save")
         /\ IF call.at = "error" THEN UNCHANGED <<cache, routed>>
            ELSE CASE CommandOf(call.kind) = "create" ->
                        /\ cache' = Recorded(i, "pending")
                        /\ routed' = [routed EXCEPT ![i] = TRUE]
                   [] CommandOf(call.kind) = "delete" ->
                        /\ cache' = [cache EXCEPT ![i] = "none"]
                        /\ routed' = [routed EXCEPT ![i] = FALSE]
                   [] CommandOf(call.kind) = "stop" ->
                        /\ cache' = [cache EXCEPT ![i] = "none"]
                        /\ UNCHANGED routed
  /\ UNCHANGED <<row, warm, drawn, pass, requests, restarts>>

-----------------------------------------------------------------------------
(* The rows. *)

SetRow(i, s)      == row' = [row EXCEPT ![i] = s]
MarkTerminated(i) == IF Active(row[i]) THEN SetRow(i, "terminated") ELSE UNCHANGED row

Saving(c, kinds) == /\ calls[c] # NoCall /\ calls[c].at = "save"
                    /\ calls[c].kind \in kinds

\* Mutant of SaveNew: a failed insert leaves the pod running.
SaveNewKeepsPod(c) ==
  /\ Saving(c, {"create"})
  /\ Finish(c)
  /\ \/ SetRow(calls[c].inst, "pending")
     \/ "create" \in DbFailures /\ UNCHANGED row
  /\ UNCHANGED <<cache, routed, warm, waiting, drawn, pass, requests, restarts>>

\* Persist the instance, or roll back: it must not run unbilled.
SaveNew(c) ==
  /\ Saving(c, {"create"})
  /\ \/ SetRow(calls[c].inst, "pending") /\ Finish(c)
     \/ /\ "create" \in DbFailures
        /\ SetCall(c, [calls[c] EXCEPT !.kind = "undo_create", !.at = "send"])
        /\ UNCHANGED row
  /\ UNCHANGED <<cache, routed, warm, waiting, drawn, pass, requests, restarts>>

\* MarkStarted, or stop it again: it must not run unbilled.
SaveStarted(c) ==
  /\ Saving(c, {"start"})
  /\ \/ row[calls[c].inst] = "stopped" /\ SetRow(calls[c].inst, "pending") /\ Finish(c)
     \/ /\ "start" \in DbFailures \/ row[calls[c].inst] # "stopped"
        /\ SetCall(c, [calls[c] EXCEPT !.kind = "undo_start", !.at = "send"])
        /\ UNCHANGED row
  /\ UNCHANGED <<cache, routed, warm, waiting, drawn, pass, requests, restarts>>

SaveTerminated(c) ==
  /\ Saving(c, {"delete", "stop", "purge"})
  /\ Finish(c)
  /\ \/ MarkTerminated(calls[c].inst)
     \/ calls[c].kind \in DbFailures /\ UNCHANGED row
  /\ UNCHANGED <<cache, routed, warm, waiting, drawn, pass, requests, restarts>>

\* MarkStopped
SaveStopped(c) ==
  /\ Saving(c, {"hold"})
  /\ Finish(c)
  /\ IF row[calls[c].inst] \in {"running", "pending"}
       THEN SetRow(calls[c].inst, "stopped") \/ ("hold" \in DbFailures /\ UNCHANGED row)
       ELSE UNCHANGED row
  /\ UNCHANGED <<cache, routed, warm, waiting, drawn, pass, requests, restarts>>

Save(c) == SaveNew(c) \/ SaveStarted(c) \/ SaveTerminated(c) \/ SaveStopped(c)

-----------------------------------------------------------------------------
(* The reconciler. *)

ReconcileRead ==
  /\ pass = NoPass
  /\ \E i \in Instances : row[i] # "none"
  /\ pass' = [at |-> "list", rows |-> row]
  /\ UNCHANGED <<row, cache, routed, warm, waiting, calls, drawn, requests, restarts>>

\* Mutant of ReconcileList: it does not ask whether the cache can be trusted.
ReconcileListAlways(connected) ==
  /\ pass.at = "list"
  /\ pass' = [at |-> "apply", rows |-> pass.rows, live |-> cache,
              todo |-> {i \in Instances : pass.rows[i] # "none"}]
  /\ UNCHANGED <<row, cache, routed, warm, waiting, calls, drawn, requests, restarts>>

\* Nobody connected, or a cache still filling up after a restart: "unknown",
\* never "no instances".
ReconcileList(connected) ==
  /\ pass.at = "list"
  /\ pass' = IF warm /\ (connected \/ OtherAgents)
               THEN [at |-> "apply", rows |-> pass.rows, live |-> cache,
                     todo |-> {i \in Instances : pass.rows[i] # "none"}]
               ELSE NoPass
  /\ UNCHANGED <<row, cache, routed, warm, waiting, calls, drawn, requests, restarts>>

\* What one pass does to one row, given what it read before.
Reconciled(i, was, live) ==
  IF was \in {"stopped", live} THEN row
  ELSE IF was = "terminated"
    THEN IF live \in {"pending", "running"} THEN [row EXCEPT ![i] = live] ELSE row
  ELSE IF ~Active(row[i]) THEN row
  ELSE [row EXCEPT ![i] = IF live \in {"none", "terminated"} THEN "terminated" ELSE live]

ReconcileApply(i) ==
  /\ pass.at = "apply" /\ i \in pass.todo
  /\ \/ row' = Reconciled(i, pass.rows[i], pass.live[i])
     \/ "reconcile" \in DbFailures /\ UNCHANGED row
  /\ pass' = IF pass.todo = {i} THEN NoPass ELSE [pass EXCEPT !.todo = @ \ {i}]
  /\ UNCHANGED <<cache, routed, warm, waiting, calls, drawn, requests, restarts>>

-----------------------------------------------------------------------------
(* The process. *)

NoOneWaiting == [i \in Instances |-> [k \in Kinds |-> Nobody]]

RecordInit ==
  /\ row = [i \in Instances |-> "none"]
  /\ cache = [i \in Instances |-> "none"]
  /\ routed = [i \in Instances |-> FALSE]
  /\ warm = TRUE
  /\ waiting = NoOneWaiting
  /\ calls = [c \in Callers |-> NoCall]
  /\ drawn = {}
  /\ pass = NoPass
  /\ requests = [k \in RequestKinds |-> 0]
  /\ restarts = 0

\* AgentSession.Close: everyone waiting is told the agent is gone.
CloseSession ==
  /\ calls' = [c \in Callers |->
       IF \E i \in Instances, k \in Kinds : waiting[i][k] = c /\ calls[c].at = "wait"
         THEN [calls[c] EXCEPT !.at = "error"] ELSE calls[c]]
  /\ waiting' = NoOneWaiting
  /\ UNCHANGED <<row, cache, routed, warm, drawn, pass, requests, restarts>>

\* Only the rows survive.
Restart ==
  /\ restarts < MaxRestarts
  /\ restarts' = restarts + 1
  /\ cache' = [i \in Instances |-> "none"]
  /\ routed' = [i \in Instances |-> FALSE]
  /\ warm' = FALSE
  /\ waiting' = NoOneWaiting
  /\ calls' = [c \in Callers |-> NoCall]
  /\ pass' = NoPass
  /\ UNCHANGED <<row, drawn, requests>>

GraceOver ==
  /\ ~warm
  /\ warm' = TRUE
  /\ UNCHANGED <<row, cache, routed, waiting, calls, drawn, pass, requests, restarts>>

-----------------------------------------------------------------------------
Call == [kind : CallKinds, inst : Instances, at : {"send", "wait", "ok", "error", "save"}]

\* The type invariant of the control plane's records.
RecordTypeOK ==
  /\ row \in [Instances -> Statuses \cup {"none", "stopped"}]
  /\ cache \in [Instances -> Statuses \cup {"none"}]
  /\ routed \in [Instances -> BOOLEAN]
  /\ warm \in BOOLEAN
  /\ waiting \in [Instances -> [Kinds -> Callers \cup {Nobody}]]
  /\ calls \in [Callers -> Call \cup {NoCall}]
  /\ drawn \subseteq Instances
  /\ pass.at \in {"off", "list", "apply"}
  /\ requests \in [RequestKinds -> 0 .. MaxOfEach]
  /\ restarts \in 0 .. MaxRestarts
=============================================================================
