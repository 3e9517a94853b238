---------------------------- MODULE ModelMounts ----------------------------
(***************************************************************************)
(* Inference models mounted on a native node: the rows an operator asks    *)
(* for (pkg/nodeservices), the reconciler that makes them real within the  *)
(* node's memory budget (pkg/inferencereconciler), the status cache it     *)
(* reads (pkg/cluster/agent.go), and the agent's processes                 *)
(* (pkg/nativeruntime) that it starts and stops by commands.               *)
(*                                                                         *)
(* A model is the number of its row: rows are created in that order.  The  *)
(* reconciler works through a snapshot of the rows, one at a time, waiting *)
(* for each answer; everything else goes on meanwhile.                     *)
(***************************************************************************)
EXTENDS Naturals, Sequences, FiniteSetsExt

CONSTANTS
  Models,          \* rows that may be asked for, 1 .. n
  Gb,              \* Gb[m]: memory the model needs
  ModelBudget,     \* the node's memory less the reserve
  MaxMishaps       \* bound: processes that die, connections lost, and restarts
                   \* of the agent and of the control plane, together

ASSUME MountAssumption ==
  /\ Models \subseteq Nat \ {0}
  /\ Gb \in [Models -> Nat \ {0}]
  /\ {ModelBudget, MaxMishaps} \subseteq Nat

VARIABLES
  wanted,     \* wanted[m]: desired_state, "none" before the row exists
  found,      \* found[m]: observed_state
  round,      \* the reconciler's pass
  known,      \* known[m]: AgentClient.statuses, "none" if absent
  settled,    \* the cache is past its grace period
  online,     \* the agent is connected
  orders,     \* commands at the agent
  upstream,   \* upstream[m]: messages about m on their way to the control plane
  table,      \* table[m]: state of Runtime.instances[m], "none" if absent
  stopping,   \* models whose process has been told to stop and has not exited
  told,       \* told[m]: the status last reported on this connection
  gone,       \* what a previous run of the agent left, not yet reported
  mishaps     \* so far

mountVars == <<wanted, found, round, known, settled, online, orders, upstream,
               table, stopping, told, gone, mishaps>>

rowVars  == <<wanted, found>>
hostVars == <<orders, table, stopping, told, gone>>

Mishap == mishaps < MaxMishaps /\ mishaps' = mishaps + 1

NoRound == [at |-> "off"]

Alive(m) == table[m] \in {"pending", "running"}

MountInit ==
  /\ wanted = [m \in Models |-> "none"]
  /\ found = [m \in Models |-> "none"]
  /\ round = NoRound
  /\ known = [m \in Models |-> "none"]
  /\ settled = TRUE
  /\ online = TRUE
  /\ orders = {}
  /\ upstream = [m \in Models |-> <<>>]
  /\ table = [m \in Models |-> "none"]
  /\ stopping = {}
  /\ told = [m \in Models |-> "none"]
  /\ gone = {}
  /\ mishaps = 0

-----------------------------------------------------------------------------
(* The operator. *)

\* Mount always makes a new row.
Mount(m) ==
  /\ wanted[m] = "none"
  /\ \A n \in Models : n < m => wanted[n] # "none"
  /\ wanted' = [wanted EXCEPT ![m] = "mounted"]
  /\ found' = [found EXCEPT ![m] = "pending"]
  /\ UNCHANGED <<round, known, settled, online, upstream, hostVars, mishaps>>

Unmount(m) ==
  /\ wanted[m] = "mounted"
  /\ wanted' = [wanted EXCEPT ![m] = "unmounted"]
  /\ UNCHANGED <<found, round, known, settled, online, upstream, hostVars, mishaps>>

-----------------------------------------------------------------------------
(* The reconciler. *)

InAge(S) ==
  LET age(m) == Cardinality({n \in S : n <= m})
  IN  [k \in 1 .. Cardinality(S) |-> CHOOSE m \in S : age(m) = k]

\* Reconcile: read the rows; those to be unmounted come first.
BeginRound ==
  /\ round = NoRound
  /\ LET rows == {m \in Models : wanted[m] # "none"}
         out  == {m \in rows : wanted[m] = "unmounted"}
     IN  /\ rows # {}
         /\ round' = [at |-> "row", todo |-> InAge(out) \o InAge(rows \ out),
                      wanted |-> wanted, found |-> found,
                      released |-> {}, victims |-> {}]
  /\ UNCHANGED <<rowVars, known, settled, online, upstream, hostVars, mishaps>>

Current    == Head(round.todo)
Remaining  == IF Tail(round.todo) = <<>> THEN NoRound
              ELSE [round EXCEPT !.at = "row", !.todo = Tail(@), !.victims = {}]
GoTo(step) == round' = [round EXCEPT !.at = step]
InStep(step)   == round # NoRound /\ round.at = step

\* GetInstanceStatus of the agent client.
Lookup(m) ==
  CASE known[m] = "none" -> IF settled THEN "absent" ELSE "unavailable"
    [] OTHER             -> IF online THEN known[m] ELSE "unavailable"

\* The row is not touched and the next one is taken up.
PassOver == round' = Remaining /\ UNCHANGED found

\* ReportObserved, and on to the next row.
Note(m, state) == found' = [found EXCEPT ![m] = state] /\ round' = Remaining

\* A command is sent, or refused at once when no agent is connected.
Order(kind, m, why) ==
  /\ round' = [at |-> IF online THEN "waiting" ELSE "error", todo |-> round.todo,
               wanted |-> round.wanted, found |-> round.found,
               released |-> round.released, victims |-> round.victims,
               why |-> why, of |-> m]
  /\ orders' = IF online THEN orders \cup {[kind |-> kind, of |-> m, live |-> TRUE]}
                         ELSE orders

\* The row was evicted earlier in this pass, or wants nothing.
Settled(m) ==
  \/ m \in round.released
  \/ round.wanted[m] = "unmounted" /\ round.found[m] = "unmounted"

SkipSettled ==
  /\ InStep("row") /\ Settled(Current)
  /\ PassOver
  /\ UNCHANGED <<wanted, known, settled, online, upstream, hostVars, mishaps>>

StartUnmount ==
  /\ InStep("row") /\ ~Settled(Current) /\ round.wanted[Current] = "unmounted"
  /\ Order("delete", Current, "unmount")
  /\ UNCHANGED <<rowVars, known, settled, online, upstream, table, stopping, told, gone,
                 mishaps>>

\* verify: a mounted row whose instance has vanished or failed is mounted again.
Verify ==
  /\ InStep("row") /\ ~Settled(Current)
  /\ round.wanted[Current] = "mounted" /\ round.found[Current] = "mounted"
  /\ IF Lookup(Current) \in {"absent", "failed", "terminated"}
       THEN GoTo("mount") /\ UNCHANGED found
       ELSE PassOver
  /\ UNCHANGED <<wanted, known, settled, online, upstream, hostVars, mishaps>>

Mounting ==
  \/ InStep("mount")
  \/ /\ InStep("row") /\ ~Settled(Current)
     /\ round.wanted[Current] = "mounted" /\ round.found[Current] # "mounted"

\* mount, where there is no command to give: an error of the lookup leaves the
\* row alone, and a running server is advertised once it can generate.
MountLooks ==
  /\ Mounting
  /\ CASE Lookup(Current) = "unavailable" -> PassOver
       [] Lookup(Current) = "pending"     -> Note(Current, "pending")
       [] Lookup(Current) = "running"     -> \E state \in {"mounted", "error"} : Note(Current, state)
       [] Lookup(Current) = "absent"      -> GoTo("admit") /\ UNCHANGED found
       [] OTHER                           -> FALSE
  /\ UNCHANGED <<wanted, known, settled, online, upstream, hostVars, mishaps>>

\* The remains of a crash, or of an instance that is gone, are cleared first.
MountClears ==
  /\ Mounting
  /\ Lookup(Current) \in {"failed", "terminated"}
  /\ Order("delete", Current, Lookup(Current))
  /\ UNCHANGED <<rowVars, known, settled, online, upstream, table, stopping, told, gone,
                 mishaps>>

-----------------------------------------------------------------------------
(* admit: the memory budget. *)

\* holdsMemory, as the snapshot has it.
HoldsMemory(m) == m \notin round.released /\ round.found[m] \in {"mounted", "pending"}

Holders  == {m \in Models \ {Current} : HoldsMemory(m)}
Memory(S) == MapThenSumSet(LAMBDA m : Gb[m], S)

\* Oldest first until there is room, never a model newer than the one mounted.
Victims ==
  {v \in Holders : /\ v < Current
                   /\ Memory({h \in Holders : h >= v}) + Gb[Current] > ModelBudget}

AdmitModel ==
  /\ InStep("admit")
  /\ IF Memory(Holders \ Victims) + Gb[Current] > ModelBudget
       THEN Note(Current, "error")
       ELSE /\ round' = [round EXCEPT !.at = "evict", !.victims = Victims]
            /\ UNCHANGED found
  /\ UNCHANGED <<wanted, known, settled, online, upstream, hostVars, mishaps>>

Evict ==
  /\ InStep("evict") /\ round.victims # {}
  /\ LET v == Min(round.victims)
     IN  /\ wanted' = [wanted EXCEPT ![v] = "unmounted"]
         /\ Order("delete", v, "evict")
  /\ UNCHANGED <<found, known, settled, online, upstream, table, stopping, told, gone, mishaps>>

OrderCreate ==
  /\ InStep("evict") /\ round.victims = {}
  /\ Order("create", Current, "create")
  /\ UNCHANGED <<rowVars, known, settled, online, upstream, table, stopping, told, gone, mishaps>>

\* What the client notes of an answer before the reconciler sees it: a deleted
\* instance is forgotten, a created one is "pending" - but terminated is final.
NoteInCache(kind, m) ==
  known' = [known EXCEPT ![m] =
    IF kind = "delete" THEN "none" ELSE IF @ = "terminated" THEN @ ELSE "pending"]

Succeeded ==
  /\ InStep("ok")
  /\ LET m == round.of
     IN  CASE round.why = "unmount" -> NoteInCache("delete", m) /\ Note(m, "unmounted")
           [] round.why = "failed"  -> NoteInCache("delete", m) /\ Note(m, "error")
           [] round.why = "terminated" ->
                NoteInCache("delete", m) /\ GoTo("admit") /\ UNCHANGED found
           [] round.why = "evict"   ->
                /\ NoteInCache("delete", m)
                /\ found' = [found EXCEPT ![m] = "unmounted"]
                /\ round' = [round EXCEPT !.at = "evict", !.released = @ \cup {m},
                                          !.victims = @ \ {m}]
           [] round.why = "create"  -> NoteInCache("create", m) /\ Note(m, "pending")
  /\ UNCHANGED <<wanted, settled, online, upstream, hostVars, mishaps>>

\* Mutant of Failed: a model that could not be deleted counts as gone.
FailedIgnored ==
  /\ InStep("error")
  /\ CASE round.why = "terminated" -> GoTo("admit") /\ UNCHANGED found
       [] round.why = "unmount"    -> Note(Current, "unmounted")
       [] OTHER                    -> Note(Current, "error")
  /\ UNCHANGED <<wanted, known, settled, online, upstream, hostVars, mishaps>>

\* A failed command is noted against the row, a failed eviction against both;
\* failing to clear what is gone stops nothing.
Failed ==
  /\ InStep("error")
  /\ CASE round.why = "terminated" -> GoTo("admit") /\ UNCHANGED found
       [] round.why = "evict"      ->
            /\ found' = [found EXCEPT ![round.of] = "error", ![Current] = "error"]
            /\ round' = Remaining
       [] OTHER                    -> Note(Current, "error")
  /\ UNCHANGED <<wanted, known, settled, online, upstream, hostVars, mishaps>>

-----------------------------------------------------------------------------
(* The agent and its processes. *)

Says(status)      == [about |-> "status", value |-> status]
Verdict(verdict)  == [about |-> "result", value |-> verdict]

Changed(now) ==
  [m \in Models |-> IF now[m] = told[m] THEN <<>>
                    ELSE <<Says(IF now[m] = "none" THEN "terminated" ELSE now[m])>>]

ReplyTo(o, verdict, more) ==
  upstream' = IF o.live
    THEN [m \in Models |-> upstream[m]
            \o (IF m = o.of THEN <<Verdict(verdict)>> ELSE <<>>) \o more[m]]
    ELSE upstream

NoMore == [m \in Models |-> <<>>]

\* CreateInstance: a live process counts as created, a dead one is replaced.
CreateExisting(o) ==
  /\ o.kind = "create" /\ Alive(o.of)
  /\ orders' = orders \ {o}
  /\ ReplyTo(o, "ok", NoMore)
  /\ UNCHANGED <<table, stopping, told>>

\* The statuses are reported at once.
Launch(o) ==
  /\ o.kind = "create" /\ ~Alive(o.of)
  /\ orders' = orders \ {o}
  /\ table' = [table EXCEPT ![o.of] = "pending"]
  /\ ReplyTo(o, "ok", Changed(table'))
  /\ told' = IF o.live THEN table' ELSE told
  /\ UNCHANGED stopping

LaunchFails(o) ==
  /\ o.kind = "create" /\ ~Alive(o.of)
  /\ orders' = orders \ {o}
  /\ table' = [table EXCEPT ![o.of] = "none"]
  /\ ReplyTo(o, "error", NoMore)
  /\ UNCHANGED <<stopping, told>>

\* DeleteInstance forgets the process, and answers when it has exited.
DeleteBegins(o) ==
  /\ o.kind = "delete" /\ Alive(o.of)
  /\ table' = [table EXCEPT ![o.of] = "none"]
  /\ stopping' = stopping \cup {o.of}
  /\ UNCHANGED <<orders, told, upstream>>

DeleteEnds(o) ==
  /\ o.kind = "delete" /\ ~Alive(o.of)
  /\ orders' = orders \ {o}
  /\ table' = [table EXCEPT ![o.of] = "none"]
  /\ stopping' = stopping \ {o.of}
  /\ told' = [told EXCEPT ![o.of] = "none"]
  /\ ReplyTo(o, "ok", NoMore)

CarryOut(o) ==
  /\ CreateExisting(o) \/ Launch(o) \/ LaunchFails(o) \/ DeleteBegins(o) \/ DeleteEnds(o)
  /\ UNCHANGED <<rowVars, round, known, settled, online, gone, mishaps>>

\* watchReady: the process accepts connections.
Ready(m) ==
  /\ table[m] = "pending"
  /\ table' = [table EXCEPT ![m] = "running"]
  /\ UNCHANGED <<rowVars, round, known, settled, online, upstream, orders, stopping, told,
                 gone, mishaps>>

\* supervise: a process that was not asked to stop has failed.
Dies(m) ==
  /\ Alive(m) /\ Mishap
  /\ table' = [table EXCEPT ![m] = "failed"]
  /\ UNCHANGED <<rowVars, round, known, settled, online, upstream, orders, stopping, told,
                 gone>>

\* reportStatuses: what has changed since the last report.
ReportChanges ==
  /\ online /\ table # told
  /\ told' = table
  /\ upstream' = [m \in Models |-> upstream[m] \o Changed(table)[m]]
  /\ UNCHANGED <<rowVars, round, known, settled, online, orders, table, stopping, gone, mishaps>>

-----------------------------------------------------------------------------
(* The connection and its ends. *)

\* RecordStatus: terminated is final.
DeliverStatus(m) ==
  /\ upstream[m] # <<>> /\ Head(upstream[m]).about = "status"
  /\ upstream' = [upstream EXCEPT ![m] = Tail(@)]
  /\ known' = [known EXCEPT ![m] =
       IF @ = "terminated" THEN @ ELSE Head(upstream[m]).value]
  /\ UNCHANGED <<rowVars, round, settled, online, hostVars, mishaps>>

DeliverAnswer(m) ==
  /\ upstream[m] # <<>> /\ Head(upstream[m]).about = "result"
  /\ upstream' = [upstream EXCEPT ![m] = Tail(@)]
  /\ IF InStep("waiting") /\ round.of = m THEN GoTo(Head(upstream[m]).value) ELSE UNCHANGED round
  /\ UNCHANGED <<rowVars, known, settled, online, hostVars, mishaps>>

\* Waiting callers get an error; a command that has begun is finished unheard.
Cut ==
  /\ online' = FALSE
  /\ upstream' = [m \in Models |-> <<>>]

LoseLink ==
  /\ online /\ Mishap
  /\ Cut
  /\ orders' = {[o EXCEPT !.live = FALSE] : o \in orders}
  /\ IF InStep("waiting") THEN GoTo("error") ELSE UNCHANGED round
  /\ UNCHANGED <<rowVars, known, settled, table, stopping, told, gone>>

\* Run: what the last run left is reported terminated, once; then everything.
Reconnect ==
  /\ ~online /\ \A o \in orders : o.live
  /\ online' = TRUE
  /\ told' = table
  /\ gone' = {}
  /\ upstream' = [m \in Models |->
       (IF m \in gone THEN <<Says("terminated")>> ELSE <<>>)
       \o (IF table[m] = "none" THEN <<>> ELSE <<Says(table[m])>>)]
  /\ UNCHANGED <<rowVars, round, known, settled, orders, table, stopping, mishaps>>

\* The agent starts again: New stops what the last run had recorded.
AgentRestarts ==
  /\ Mishap
  /\ Cut
  /\ gone' = {m \in Models : Alive(m)}
  /\ table' = [m \in Models |-> "none"]
  /\ told' = [m \in Models |-> "none"]
  /\ stopping' = {}
  /\ orders' = {}
  /\ IF InStep("waiting") THEN GoTo("error") ELSE UNCHANGED round
  /\ UNCHANGED <<rowVars, known, settled>>

\* The control plane starts again with an empty cache.
ControlRestarts ==
  /\ Mishap
  /\ Cut
  /\ known' = [m \in Models |-> "none"]
  /\ settled' = FALSE
  /\ round' = NoRound
  /\ orders' = {[o EXCEPT !.live = FALSE] : o \in orders}
  /\ UNCHANGED <<rowVars, table, stopping, told, gone>>

GraceEnds ==
  /\ ~settled
  /\ settled' = TRUE
  /\ UNCHANGED <<rowVars, round, known, online, upstream, hostVars, mishaps>>

-----------------------------------------------------------------------------
RoundStep ==
  \/ BeginRound \/ SkipSettled \/ StartUnmount \/ Verify \/ MountLooks \/ MountClears
  \/ AdmitModel \/ Evict \/ OrderCreate \/ Succeeded \/ Failed

MountNext ==
  \/ RoundStep
  \/ \E m \in Models :
       Mount(m) \/ Unmount(m) \/ Ready(m) \/ Dies(m) \/ DeliverStatus(m) \/ DeliverAnswer(m)
  \/ \E o \in orders : CarryOut(o)
  \/ ReportChanges
  \/ LoseLink \/ Reconnect \/ AgentRestarts \/ ControlRestarts \/ GraceEnds

MountSpec == MountInit /\ [][MountNext]_mountVars

-----------------------------------------------------------------------------
(* What should hold. *)

\* A model reported unmounted runs nowhere: an eviction has really freed its
\* memory, and nothing starts it again (reconciler.go, admission.go:54-55).
UnmountedIsStopped ==
  \A m \in Models : found[m] = "unmounted" => ~Alive(m) /\ m \notin stopping
=============================================================================
