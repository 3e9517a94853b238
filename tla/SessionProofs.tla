--------------------------- MODULE SessionProofs ---------------------------
(***************************************************************************)
(* Theorems about build sessions: the deploy lock, for any number of       *)
(* deploys and any timeout shorter than the lock's life; the budget and    *)
(* the agent's pod, for any number of completions, prices and messages.    *)
(* And about the streams of one agent: what a terminal shows, for any      *)
(* number of shells, connections and messages and any size of a channel;   *)
(* about the models mounted on its node: what was reported unmounted runs  *)
(* nowhere; and about the instances on it: none runs unbilled for ever.    *)
(***************************************************************************)
EXTENDS BuildDeploys, BuildAgent, SessionStreams, ModelMounts, InstanceLifecycle, SumTheorems,
        TLAPS

-----------------------------------------------------------------------------
(* The deploy lock.  A lock is no older than the call that holds it, and a *)
(* call ends before a lock is stale.                                       *)

BuildFields  == {"app", "approved", "plan", "lock", "current", "deployed", "failed"}
DeployFields == {"pc", "app", "image", "size", "age", "made"}

\* `build` and `deploys` are records of these fields, whatever is in them.
Records ==
  /\ build = [f \in BuildFields |-> build[f]]
  /\ deploys = [d \in Deploys |-> deploys[d]]
  /\ \A d \in Deploys : deploys[d] = [f \in DeployFields |-> deploys[d][f]]

LockHeld ==
  \A d \in Deploys :
    /\ deploys[d].pc # "idle" => deploys[d].age \in 0 .. FlowTimeout
    /\ InFlow(d) => build.lock \in 0 .. deploys[d].age

DeployInv == Records /\ LockHeld /\ OneDeployAtATime

\* A step of the call d that keeps its age and the lock, and does not enter
\* the flow.
LEMMA CallGoesOn ==
  ASSUME DeployInv, NEW d \in Deploys, NEW call,
         call = [f \in DeployFields |-> call[f]], call.age = deploys[d].age,
         deploys[d].pc # "idle", call.pc = "loaded" \/ InFlow(d),
         deploys' = [deploys EXCEPT ![d] = call],
         build' = [f \in BuildFields |-> build'[f]], build'.lock = build.lock
  PROVE  DeployInv'
<1>1. \A e \in Deploys : deploys'[e] = IF e = d THEN call ELSE deploys[e]
  BY DEF DeployInv, Records
<1>2. Records'
  BY <1>1 DEF DeployInv, Records
<1>3. \A e \in Deploys : InFlow(e)' => InFlow(e)
  BY <1>1 DEF InFlow
<1>4. LockHeld'
  BY <1>1, <1>3 DEF DeployInv, LockHeld
<1>5. OneDeployAtATime'
  BY <1>3 DEF DeployInv, OneDeployAtATime
<1> QED BY <1>2, <1>4, <1>5 DEF DeployInv

\* The call d ends; in the flow, it frees the lock.
LEMMA CallEnds ==
  ASSUME DeployInv, NEW d \in Deploys, deploys' = [deploys EXCEPT ![d] = Unasked],
         build' = [f \in BuildFields |-> build'[f]], InFlow(d) \/ build'.lock = build.lock
  PROVE  DeployInv'
<1>1. \A e \in Deploys : deploys'[e] = IF e = d THEN Unasked ELSE deploys[e]
  BY DEF DeployInv, Records
<1>2. Unasked = [f \in DeployFields |-> Unasked[f]] /\ Unasked.pc = "idle"
  BY DEF Unasked, DeployFields
<1>3. Records'
  BY <1>1, <1>2 DEF DeployInv, Records
<1>4. \A e \in Deploys : InFlow(e)' => InFlow(e) /\ e # d
  BY <1>1, <1>2 DEF InFlow
<1>5. \A e \in Deploys : InFlow(e)' => build'.lock = build.lock
  BY <1>4 DEF DeployInv, OneDeployAtATime
<1>6. LockHeld'
  BY <1>1, <1>2, <1>4, <1>5 DEF DeployInv, LockHeld
<1>7. OneDeployAtATime'
  BY <1>4 DEF DeployInv, OneDeployAtATime
<1> QED BY <1>3, <1>6, <1>7 DEF DeployInv

\* What no call does: neither the calls nor the lock change.
LEMMA ElsewhereKeeps ==
  ASSUME DeployInv, UNCHANGED deploys,
         build' = [f \in BuildFields |-> build'[f]], build'.lock = build.lock
  PROVE  DeployInv'
BY DEF DeployInv, Records, LockHeld, OneDeployAtATime, InFlow

LEMMA BuildRow ==
  ASSUME Records
  PROVE  /\ \A x : [build EXCEPT !.lock = x] = [f \in BuildFields |-> [build EXCEPT !.lock = x][f]]
         /\ \A x, y : LET b == [build EXCEPT !.lock = x, !.failed = y]
                      IN  b = [f \in BuildFields |-> b[f]]
         /\ \A x : LET b == [build EXCEPT !.current = x]
                   IN  b = [f \in BuildFields |-> b[f]] /\ b.lock = build.lock
         /\ \A x : LET b == [build EXCEPT !.app = x]
                   IN  b = [f \in BuildFields |-> b[f]] /\ b.lock = build.lock
         /\ \A x : LET b == [build EXCEPT !.deployed = x]
                   IN  b = [f \in BuildFields |-> b[f]] /\ b.lock = build.lock
BY DEF Records, BuildFields

\* The lock is claimed when it is free, or older than any call in the flow can
\* be: no other call is in the flow.
LEMMA ClaimKeeps == ASSUME DeployInv, NEW d \in Deploys, AcquireDeployLock(d) PROVE DeployInv'
<1>0. Records /\ build = [f \in BuildFields |-> build[f]]
  BY DEF DeployInv, Records
<1>1. CASE Claimable
  <2> DEFINE call == [deploys[d] EXCEPT !.pc = "locked"]
  <2>1. /\ deploys' = [deploys EXCEPT ![d] = call]
        /\ build' = [build EXCEPT !.lock = 0]
        /\ deploys[d].pc = "loaded"
    BY <1>0, <1>1 DEF AcquireDeployLock, Goes, Records
  <2>2. /\ call = [f \in DeployFields |-> call[f]]
        /\ call.age = deploys[d].age /\ call.pc = "locked"
    BY <1>0 DEF Records, DeployFields
  <2>3. build' = [f \in BuildFields |-> build'[f]] /\ build'.lock = 0
    BY <1>0, <2>1 DEF BuildFields
  <2> HIDE DEF call
  <2>4. \A e \in Deploys : deploys'[e] = IF e = d THEN call ELSE deploys[e]
    BY <1>0, <2>1 DEF Records
  <2>5. \A e \in Deploys : ~InFlow(e)
    <3> SUFFICES ASSUME NEW e \in Deploys, InFlow(e) PROVE FALSE
      OBVIOUS
    <3>1. build.lock \in 0 .. deploys[e].age /\ deploys[e].age \in 0 .. FlowTimeout
      BY DEF DeployInv, LockHeld, InFlow
    <3> QED BY <1>1, <3>1, DeployAssumption DEF Claimable, Free
  <2>6. Records'
    BY <1>0, <2>1, <2>2, <2>3, <2>4 DEF Records
  <2>7. deploys[d].age \in 0 .. FlowTimeout
    BY <2>1 DEF DeployInv, LockHeld
  <2>8. LockHeld'
    BY <2>2, <2>3, <2>4, <2>5, <2>7, DeployAssumption DEF DeployInv, LockHeld, InFlow
  <2>9. OneDeployAtATime'
    BY <2>4, <2>5 DEF OneDeployAtATime, InFlow
  <2> QED BY <2>6, <2>8, <2>9 DEF DeployInv
<1>2. CASE ~Claimable
  BY <1>0, <1>2, CallEnds DEF AcquireDeployLock
<1> QED BY <1>1, <1>2

LEMMA TickKeeps == ASSUME DeployInv, PassTick PROVE DeployInv'
<1>0. Records /\ build = [f \in BuildFields |-> build[f]]
  BY DEF DeployInv, Records
<1>1. /\ \A e \in Deploys : deploys[e].age < FlowTimeout
      /\ build' = [build EXCEPT !.lock = IF @ = Free \/ @ = StaleAfter THEN @ ELSE @ + 1]
      /\ deploys' = [e \in Deploys |-> IF deploys[e].pc = "idle" THEN deploys[e]
                                       ELSE [deploys[e] EXCEPT !.age = @ + 1]]
  BY DEF PassTick
<1>2. /\ build' = [f \in BuildFields |-> build'[f]]
      /\ build'.lock = IF build.lock = Free \/ build.lock = StaleAfter
                         THEN build.lock ELSE build.lock + 1
  BY <1>0, <1>1 DEF BuildFields
<1>3. ASSUME NEW e \in Deploys
      PROVE  /\ deploys'[e] = [f \in DeployFields |-> deploys'[e][f]]
             /\ deploys'[e].pc = deploys[e].pc
             /\ deploys[e].pc # "idle" => deploys'[e].age = deploys[e].age + 1
  <2> DEFINE older == [deploys[e] EXCEPT !.age = deploys[e].age + 1]
  <2>1. deploys'[e] = IF deploys[e].pc = "idle" THEN deploys[e] ELSE older
    BY <1>1
  <2>2. older = [f \in DeployFields |-> older[f]] /\ older.age = deploys[e].age + 1
        /\ older.pc = deploys[e].pc
    BY <1>0 DEF Records, DeployFields
  <2> HIDE DEF older
  <2> QED BY <1>0, <2>1, <2>2 DEF Records
<1>4. Records'
  BY <1>1, <1>2, <1>3 DEF Records
<1>5. LockHeld'
  <2> SUFFICES ASSUME NEW e \in Deploys, deploys[e].pc # "idle"
               PROVE  /\ deploys'[e].age \in 0 .. FlowTimeout
                      /\ InFlow(e) => build'.lock \in 0 .. deploys'[e].age
    BY <1>3 DEF LockHeld, InFlow
  <2>1. deploys[e].age \in 0 .. FlowTimeout /\ deploys[e].age < FlowTimeout
    BY <1>1 DEF DeployInv, LockHeld
  <2>2. InFlow(e) => build.lock \in 0 .. deploys[e].age
    BY DEF DeployInv, LockHeld
  <2>0. deploys'[e].age = deploys[e].age + 1
    BY <1>3
  <2>3. deploys'[e].age \in 0 .. FlowTimeout
    BY <2>0, <2>1, DeployAssumption
  <2>4. ASSUME InFlow(e) PROVE build'.lock \in 0 .. deploys'[e].age
    <3>1. build.lock \in 0 .. deploys[e].age
      BY <2>2, <2>4
    <3>2. build'.lock \in {build.lock, build.lock + 1}
      BY <1>2
    <3> QED BY <2>0, <2>1, <3>1, <3>2
  <2> QED BY <2>3, <2>4
<1>6. OneDeployAtATime'
  BY <1>3 DEF DeployInv, OneDeployAtATime, InFlow
<1> QED BY <1>4, <1>5, <1>6 DEF DeployInv

LEMMA LoadKeeps == ASSUME DeployInv, NEW d \in Deploys, NEW size, LoadSession(d, size) PROVE DeployInv'
<1> DEFINE call == [Unasked EXCEPT !.pc = "loaded", !.app = build.app, !.size = size]
<1>0. Records /\ build = [f \in BuildFields |-> build[f]]
  BY DEF DeployInv, Records
<1>1. /\ deploys' = [deploys EXCEPT ![d] = call]
      /\ build' = build /\ deploys[d].pc = "idle"
  BY DEF LoadSession
<1>2. call = [f \in DeployFields |-> call[f]] /\ call.age = 0 /\ call.pc = "loaded"
  BY DEF Unasked, DeployFields
<1> HIDE DEF call
<1>3. \A e \in Deploys : deploys'[e] = IF e = d THEN call ELSE deploys[e]
  BY <1>0, <1>1 DEF Records
<1>4. Records'
  BY <1>0, <1>1, <1>2, <1>3 DEF Records
<1>5. \A e \in Deploys : InFlow(e)' => InFlow(e) /\ e # d
  BY <1>2, <1>3 DEF InFlow
<1>6. LockHeld'
  BY <1>1, <1>2, <1>3, <1>5, DeployAssumption DEF DeployInv, LockHeld
<1>7. OneDeployAtATime'
  BY <1>5 DEF DeployInv, OneDeployAtATime
<1> QED BY <1>4, <1>6, <1>7 DEF DeployInv

\* The steps of a call in the flow.
FlowStep(d) ==
  \/ CheckPlan(d) \/ FetchArchive(d) \/ CreateApp(d) \/ RecordApp(d) \/ UpdateApp(d)
  \/ Checkpoint(d) \/ RecordDeployed(d) \/ FinishDeploy(d)

LEMMA FlowKeeps == ASSUME DeployInv, NEW d \in Deploys, FlowStep(d) PROVE DeployInv'
<1>0. Records /\ build = [f \in BuildFields |-> build[f]]
  BY DEF DeployInv, Records
<1>1. InFlow(d) /\ deploys[d].pc # "idle"
  BY DEF FlowStep, CheckPlan, FetchArchive, CreateApp, RecordApp, UpdateApp, Checkpoint,
         RecordDeployed, FinishDeploy, InFlow
<1>2. ASSUME Return(d) \/ Fail(d) PROVE DeployInv'
  BY <1>0, <1>1, <1>2, CallEnds, BuildRow DEF Return, Fail
<1>3. CASE FinishDeploy(d)
  BY <1>0, <1>1, <1>3, CallEnds, BuildRow DEF FinishDeploy
<1>4. ASSUME NEW pc, Goes(d, pc), build' = [f \in BuildFields |-> build'[f]],
             build'.lock = build.lock
      PROVE  DeployInv'
  <2> DEFINE call == [deploys[d] EXCEPT !.pc = pc]
  <2>1. call = [f \in DeployFields |-> call[f]] /\ call.age = deploys[d].age
    BY <1>0 DEF Records, DeployFields
  <2>2. deploys' = [deploys EXCEPT ![d] = call]
    BY <1>0, <1>4 DEF Goes, Records
  <2> HIDE DEF call
  <2> QED BY <1>1, <1>4, <2>1, <2>2, CallGoesOn
<1>5. CASE CheckPlan(d)
  <2> DEFINE call == [deploys[d] EXCEPT !.pc = "fits", !.size = 0]
  <2>1. call = [f \in DeployFields |-> call[f]] /\ call.age = deploys[d].age
    BY <1>0 DEF Records, DeployFields
  <2>2. Return(d) \/ (deploys' = [deploys EXCEPT ![d] = call] /\ build' = build)
    BY <1>0, <1>5 DEF CheckPlan, Records
  <2> HIDE DEF call
  <2> QED BY <1>0, <1>1, <1>2, <2>1, <2>2, CallGoesOn
<1>6. CASE FetchArchive(d)
  <2> DEFINE call == [deploys[d] EXCEPT !.pc = "built", !.image = versions[build.current].content]
  <2>1. call = [f \in DeployFields |-> call[f]] /\ call.age = deploys[d].age
    BY <1>0 DEF Records, DeployFields
  <2>2. Fail(d) \/ (deploys' = [deploys EXCEPT ![d] = call] /\ build' = build)
    BY <1>0, <1>6 DEF FetchArchive, Records
  <2> HIDE DEF call
  <2> QED BY <1>0, <1>1, <1>2, <2>1, <2>2, CallGoesOn
<1>7. CASE CreateApp(d)
  <2> DEFINE call == [deploys[d] EXCEPT !.pc = "created", !.made = Len(apps) + 1]
  <2>1. call = [f \in DeployFields |-> call[f]] /\ call.age = deploys[d].age
    BY <1>0 DEF Records, DeployFields
  <2>2. Fail(d) \/ (deploys' = [deploys EXCEPT ![d] = call] /\ build' = build)
    BY <1>0, <1>7 DEF CreateApp, Records
  <2> HIDE DEF call
  <2> QED BY <1>0, <1>1, <1>2, <2>1, <2>2, CallGoesOn
<1>8. CASE RecordApp(d) \/ RecordDeployed(d)
  BY <1>0, <1>4, <1>8, BuildRow DEF RecordApp, RecordDeployed
<1>9. CASE UpdateApp(d) \/ Checkpoint(d)
  BY <1>0, <1>2, <1>4, <1>9 DEF UpdateApp, Checkpoint
<1> QED BY <1>3, <1>5, <1>6, <1>7, <1>8, <1>9 DEF FlowStep

LEMMA DeployStep == DeployInv /\ [DeploysNext]_deployVars => DeployInv'
<1> SUFFICES ASSUME DeployInv, [DeploysNext]_deployVars PROVE DeployInv'
  OBVIOUS
<1>0. Records /\ build = [f \in BuildFields |-> build[f]]
  BY DEF DeployInv, Records
<1>1. ASSUME NEW s \in Savers, NEW content, ReadDraft(s, content) PROVE DeployInv'
  BY <1>0, <1>1, ElsewhereKeeps DEF ReadDraft
<1>2. ASSUME NEW s \in Savers, OverwriteDraft(s) \/ AddVersion(s) PROVE DeployInv'
  BY <1>0, <1>2, ElsewhereKeeps, BuildRow DEF OverwriteDraft, AddVersion
<1>3. ASSUME NEW v, Rollback(v) \/ RecordPlan(v) \/ ApprovePlan(v) \/ TerminateApp(v)
      PROVE  DeployInv'
  <2>1. CASE Rollback(v)
    BY <1>0, <2>1, ElsewhereKeeps, BuildRow DEF Rollback
  <2>2. CASE RecordPlan(v) \/ TerminateApp(v)
    BY <1>0, <2>2, ElsewhereKeeps DEF RecordPlan, TerminateApp
  <2>3. CASE ApprovePlan(v)
    <3> DEFINE entry == [build EXCEPT !.approved = TRUE, !.plan = IF v = 0 THEN @ ELSE v]
    <3>1. entry = [f \in BuildFields |-> entry[f]] /\ entry.lock = build.lock
      BY <1>0 DEF BuildFields
    <3>2. build' = entry /\ UNCHANGED deploys
      BY <2>3 DEF ApprovePlan
    <3> HIDE DEF entry
    <3> QED BY <3>1, <3>2, ElsewhereKeeps
  <2> QED BY <1>3, <2>1, <2>2, <2>3
<1>4. ASSUME NEW d \in Deploys, NEW size, LoadSession(d, size) PROVE DeployInv'
  BY <1>4, LoadKeeps
<1>5. ASSUME NEW d \in Deploys, AcquireDeployLock(d) PROVE DeployInv'
  BY <1>5, ClaimKeeps
<1>6. ASSUME NEW d \in Deploys, FlowStep(d) PROVE DeployInv'
  BY <1>6, FlowKeeps
<1>7. CASE CrashControlPlane
  <2>1. \A d \in Deploys : deploys'[d] = Unasked
    BY <1>7 DEF CrashControlPlane
  <2>2. Unasked = [f \in DeployFields |-> Unasked[f]] /\ Unasked.pc = "idle"
    BY DEF Unasked, DeployFields
  <2>3. Records'
    BY <1>0, <1>7, <2>1, <2>2 DEF CrashControlPlane, Records
  <2> QED BY <2>1, <2>2, <2>3 DEF DeployInv, LockHeld, OneDeployAtATime, InFlow
<1>8. CASE PassTick
  BY <1>8, TickKeeps
<1>9. CASE UNCHANGED deployVars
  BY <1>0, <1>9, ElsewhereKeeps DEF deployVars
<1> QED BY <1>1, <1>2, <1>3, <1>4, <1>5, <1>6, <1>7, <1>8, <1>9 DEF DeploysNext, FlowStep

\* Two deploys of a session never overlap, however many are called, the control
\* plane crashes with the lock held or a lock is taken from one that crashed:
\* all it takes is that a lock outlives the calls (DeployAssumption).
THEOREM DeploysApart == DeploysSpec => []OneDeployAtATime
<1>1. DeploysInit => DeployInv
  <2> SUFFICES ASSUME DeploysInit PROVE DeployInv
    OBVIOUS
  <2>1. Unasked = [f \in DeployFields |-> Unasked[f]] /\ Unasked.pc = "idle"
    BY DEF Unasked, DeployFields
  <2>2. Records
    BY <2>1 DEF DeploysInit, Records, BuildFields
  <2> QED BY <2>1, <2>2 DEF DeploysInit, DeployInv, LockHeld, OneDeployAtATime, InFlow
<1>2. DeployInv => OneDeployAtATime
  BY DEF DeployInv
<1> QED BY <1>1, <1>2, DeployStep, PTL DEF DeploysSpec

-----------------------------------------------------------------------------
(* The budget.  Each completion under way may add the dearest price once.  *)

AgentTypeOK ==
  /\ session \in [status : {"open", "closed", "deleted"}, budget : Nat, spent : Nat,
                   agent : BOOLEAN]
  /\ completions \in [Calls -> [pc : {"idle", "checked", "served"}, cost : Costs \cup {0}]]
  /\ raises \in [Raises -> Nat]

AgentInv == AgentTypeOK /\ BudgetBoundsSpend

LEMMA Products ==
  ASSUME NEW a \in Nat, NEW b \in Nat, NEW c \in Nat
  PROVE  /\ a <= b => a * c <= b * c
         /\ a * c \in Nat
         /\ (a + 1) * c = a * c + c
<1>1. a * c \in Nat /\ (a + 1) * c = a * c + c
  BY SMT
<1>2. ASSUME a <= b PROVE a * c <= b * c
  <2>1. PICK d \in Nat : b = a + d
    <3>1. b - a \in Nat /\ b = a + (b - a)
      BY <1>2
    <3> QED BY <3>1
  <2>2. b * c = a * c + d * c /\ d * c \in Nat
    BY <2>1, SMT
  <2> QED BY <1>1, <2>2
<1> QED BY <1>1, <1>2

LEMMA Counts ==
  ASSUME AgentTypeOK
  PROVE  /\ IsFiniteSet(UnderWay) /\ UnderWay \subseteq Calls
         /\ Cardinality(UnderWay) \in Nat /\ Cardinality(Calls) \in Nat
         /\ Cardinality(UnderWay) <= Cardinality(Calls)
<1>1. UnderWay \subseteq Calls /\ IsFiniteSet(Calls)
  BY AgentAssumption DEF UnderWay
<1> QED BY <1>1, FS_Subset, FS_CardinalityType

\* No completion is begun, and the budget is not cut.
LEMMA NoneBegins ==
  ASSUME AgentInv, AgentTypeOK', UnderWay' \subseteq UnderWay,
         session'.spent = session.spent, session'.budget >= session.budget
  PROVE  AgentInv'
<1> DEFINE n == Cardinality(UnderWay)  m == Cardinality(UnderWay')  k == Cardinality(Calls)
<1>1. n \in Nat /\ m \in Nat /\ k \in Nat /\ m <= n
  <2>1. IsFiniteSet(UnderWay) /\ n \in Nat /\ k \in Nat
    BY Counts DEF AgentInv
  <2> QED BY <2>1, FS_Subset, FS_CardinalityType
<1>2. session.spent + n * Dearest < session.budget + k * Dearest
  BY DEF AgentInv, BudgetBoundsSpend
<1>3. /\ session.spent \in Nat /\ session.budget \in Nat /\ session'.budget \in Nat
      /\ Dearest \in Nat
  BY AgentAssumption DEF AgentInv, AgentTypeOK
<1> HIDE DEF n, m, k
<1>4. n * Dearest \in Nat /\ m * Dearest \in Nat /\ k * Dearest \in Nat /\ m * Dearest <= n * Dearest
  BY <1>1, <1>3, Products
<1>5. session'.spent + m * Dearest < session'.budget + k * Dearest
  BY <1>2, <1>3, <1>4
<1> QED BY <1>5 DEF AgentInv, BudgetBoundsSpend, n, m, k

\* A completion begins while something is left of the budget: even if all of
\* them are under way then, the bound holds.
LEMMA CheckKeeps == ASSUME AgentInv, NEW c \in Calls, CheckBudget(c) PROVE AgentInv'
<1> DEFINE m == Cardinality(UnderWay')  k == Cardinality(Calls)
<1>1. AgentTypeOK'
  BY DEF AgentInv, AgentTypeOK, CheckBudget
<1>2. /\ m \in Nat /\ k \in Nat /\ m <= k
  <2>1. UnderWay' \subseteq Calls /\ IsFiniteSet(Calls)
    BY AgentAssumption DEF UnderWay
  <2> QED BY <2>1, FS_Subset, FS_CardinalityType
<1>3. /\ session' = session /\ session.spent < session.budget
      /\ session.spent \in Nat /\ session.budget \in Nat /\ Dearest \in Nat
  BY AgentAssumption DEF AgentInv, AgentTypeOK, CheckBudget
<1> HIDE DEF m, k
<1>4. m * Dearest \in Nat /\ k * Dearest \in Nat /\ m * Dearest <= k * Dearest
  BY <1>2, <1>3, Products
<1>5. session'.spent + m * Dearest < session'.budget + k * Dearest
  BY <1>3, <1>4
<1> QED BY <1>1, <1>5 DEF AgentInv, BudgetBoundsSpend, m, k

\* What a completion adds was allowed for while it was under way.
LEMMA AccrueKeeps == ASSUME AgentInv, NEW c \in Calls, Accrue(c) PROVE AgentInv'
<1> DEFINE n == Cardinality(UnderWay)  m == Cardinality(UnderWay')  k == Cardinality(Calls)
<1>0. /\ session \in [status : {"open", "closed", "deleted"}, budget : Nat, spent : Nat,
                       agent : BOOLEAN]
      /\ completions \in [Calls -> [pc : {"idle", "checked", "served"}, cost : Costs \cup {0}]]
      /\ raises \in [Raises -> Nat]
      /\ Dearest \in Nat /\ Costs \subseteq Nat /\ \A cost \in Costs : cost <= Dearest
  BY AgentAssumption DEF AgentInv, AgentTypeOK
<1>1. completions[c].cost \in Nat /\ completions[c].cost <= Dearest
  <2>1. completions[c].cost \in Costs \cup {0}
    BY <1>0
  <2>2. \A cost \in Costs \cup {0} : cost \in Nat /\ cost <= Dearest
    BY <1>0
  <2> QED BY <2>1, <2>2
<1>2. /\ session'.budget = session.budget
      /\ session'.spent \in {session.spent, session.spent + completions[c].cost}
      /\ session' \in [status : {"open", "closed", "deleted"}, budget : Nat, spent : Nat,
                       agent : BOOLEAN]
  <2>1. CASE Accrued(c)
    BY <1>0, <1>1, <2>1 DEF Accrued
  <2>2. CASE NotAccrued
    BY <1>0, <2>2 DEF NotAccrued
  <2> QED BY <2>1, <2>2 DEF Accrue
<1>3. AgentTypeOK'
  BY <1>0, <1>2 DEF Accrue, AgentTypeOK
<1>4. UnderWay' = UnderWay \ {c} /\ c \in UnderWay
  BY <1>0 DEF Accrue, UnderWay
<1>5. n \in Nat /\ m \in Nat /\ k \in Nat /\ n = m + 1
  <2>1. IsFiniteSet(UnderWay) /\ n \in Nat /\ k \in Nat
    BY Counts DEF AgentInv
  <2>2. IsFiniteSet(UnderWay') /\ m \in Nat /\ m = n - 1
    BY <1>4, <2>1, FS_RemoveElement, FS_CardinalityType
  <2> QED BY <2>1, <2>2
<1>6. session.spent + n * Dearest < session.budget + k * Dearest
  BY DEF AgentInv, BudgetBoundsSpend
<1> HIDE DEF n, m, k
<1>7. /\ n * Dearest = m * Dearest + Dearest
      /\ m * Dearest \in Nat /\ k * Dearest \in Nat
  BY <1>0, <1>5, Products
<1>8. session'.spent + m * Dearest < session'.budget + k * Dearest
  <2>1. session.spent \in Nat /\ session.budget \in Nat
    BY <1>0
  <2> QED BY <1>0, <1>1, <1>2, <1>6, <1>7, <2>1
<1> QED BY <1>3, <1>8 DEF AgentInv, BudgetBoundsSpend, n, m, k

LEMMA AgentStep == AgentInv /\ [AgentNext]_agentVars => AgentInv'
<1> SUFFICES ASSUME AgentInv, [AgentNext]_agentVars PROVE AgentInv'
  OBVIOUS
<1>0. /\ session \in [status : {"open", "closed", "deleted"}, budget : Nat, spent : Nat,
                       agent : BOOLEAN]
      /\ completions \in [Calls -> [pc : {"idle", "checked", "served"}, cost : Costs \cup {0}]]
      /\ raises \in [Raises -> Nat]
      /\ Costs \subseteq Nat /\ Budgets \subseteq Nat
  BY AgentAssumption DEF AgentInv, AgentTypeOK
<1>1. ASSUME NEW c \in Calls, CheckBudget(c) PROVE AgentInv'
  BY <1>1, CheckKeeps
<1>2. ASSUME NEW c \in Calls, Serve(c) PROVE AgentInv'
  <2>1. AgentTypeOK' /\ session' = session
    BY <1>0, <1>2 DEF Serve, AgentTypeOK
  <2>2. UnderWay' \subseteq UnderWay
    BY <1>0, <1>2 DEF Serve, UnderWay
  <2> QED BY <1>0, <2>1, <2>2, NoneBegins
<1>3. ASSUME NEW c \in Calls, Accrue(c) PROVE AgentInv'
  BY <1>3, AccrueKeeps
<1>4. ASSUME NEW r \in Raises, IncreaseBudget(r) PROVE AgentInv'
  <2>1. BudgetAfter(r) \in Nat /\ BudgetAfter(r) >= session.budget
    BY <1>0 DEF BudgetAfter
  <2>2. /\ session'.spent = session.spent /\ session'.budget >= session.budget
        /\ session' \in [status : {"open", "closed", "deleted"}, budget : Nat, spent : Nat,
                         agent : BOOLEAN]
    BY <1>0, <1>4, <2>1 DEF IncreaseBudget
  <2>3. AgentTypeOK' /\ UnderWay' \subseteq UnderWay
    BY <1>0, <1>4, <2>2 DEF IncreaseBudget, AgentTypeOK, UnderWay
  <2> QED BY <2>2, <2>3, NoneBegins
<1>5. ASSUME NEW r \in Raises, NEW budget \in Budgets, AskToRaise(r, budget) PROVE AgentInv'
  <2>1. AgentTypeOK' /\ UnderWay' \subseteq UnderWay /\ session' = session
    BY <1>0, <1>5 DEF AskToRaise, AgentTypeOK, UnderWay
  <2> QED BY <1>0, <2>1, NoneBegins
<1>6. ASSUME UNCHANGED <<completions, raises>>,
             session' \in [status : {"open", "closed", "deleted"}, budget : Nat, spent : Nat,
                           agent : BOOLEAN],
             session'.spent = session.spent, session'.budget = session.budget
      PROVE  AgentInv'
  <2>1. AgentTypeOK' /\ UnderWay' \subseteq UnderWay
    BY <1>0, <1>6 DEF AgentTypeOK, UnderWay
  <2> QED BY <1>0, <1>6, <2>1, NoneBegins
<1>7. ASSUME NEW m \in Messages, LookAtAgent(m) \/ SendMessage(m) \/ LaunchAgent(m)
      PROVE  AgentInv'
  BY <1>0, <1>6, <1>7 DEF LookAtAgent, SendMessage, LaunchAgent
<1>8. ASSUME NEW m \in Messages, RecordAgent(m) PROVE AgentInv'
  BY <1>0, <1>6, <1>8 DEF RecordAgent
<1>9. CASE PollRead \/ PollMark \/ AgentEnds \/ TearDown \/ UNCHANGED agentVars
  BY <1>0, <1>6, <1>9 DEF PollRead, PollMark, AgentEnds, TearDown, agentVars
<1>10. CASE CloseBuild \/ DeleteRow
  BY <1>0, <1>6, <1>10 DEF CloseBuild, DeleteRow
<1> QED BY <1>1, <1>2, <1>3, <1>4, <1>5, <1>7, <1>8, <1>9, <1>10 DEF AgentNext

LEMMA AgentStarts == AgentInit => AgentInv
<1> SUFFICES ASSUME AgentInit PROVE AgentInv
  OBVIOUS
<1>1. AgentTypeOK
  BY AgentAssumption DEF AgentInit, AgentTypeOK
<1>2. UnderWay = {}
  BY DEF AgentInit, UnderWay
<1>3. /\ Cardinality(UnderWay) = 0 /\ Cardinality(Calls) \in Nat
      /\ Dearest \in Nat /\ FirstBudget \in Nat \ {0}
  BY <1>1, <1>2, FS_EmptySet, Counts, AgentAssumption
<1>4. session.spent = 0 /\ session.budget = FirstBudget
  BY DEF AgentInit
<1>5. 0 * Dearest = 0 /\ Cardinality(Calls) * Dearest \in Nat
  BY <1>3, Products
<1> QED BY <1>1, <1>3, <1>4, <1>5 DEF AgentInv, BudgetBoundsSpend

\* A session passes its budget by less than its completions can cost at once,
\* for any number of them, any prices and any raises of the budget.
THEOREM SpendBounded == AgentSpec => []BudgetBoundsSpend
<1>1. AgentInit => AgentInv
  BY AgentStarts
<1>2. AgentInv => BudgetBoundsSpend
  BY DEF AgentInv
<1> QED BY <1>1, <1>2, AgentStep, PTL DEF AgentSpec

-----------------------------------------------------------------------------
(* The agent's pod. *)

Launching == {m \in Messages : sends[m] \in {"recordDropped", "recordPrompt"}}

FindableInv ==
  /\ AgentInv
  /\ sends = [m \in Messages |-> sends[m]]
  /\ session.status = "deleted" => closing = "deleted"
  /\ AgentIsFindable

\* No pod appears, no launch is given up, and the session still names its pod.
LEMMA StaysFindable ==
  ASSUME FindableInv, AgentInv', sends' = [m \in Messages |-> sends'[m]],
         Launching \subseteq Launching', podUp' => podUp,
         session.agent => session'.agent,
         session.status = "deleted" => session'.status = "deleted",
         session'.status = "deleted" => closing' = "deleted"
  PROVE  FindableInv'
<1>1. AgentIsFindable'
  <2> SUFFICES ASSUME podUp', session'.status # "deleted"
               PROVE  session'.agent \/ Launching' # {}
    BY DEF AgentIsFindable, Launching
  <2>1. session.agent \/ Launching # {}
    BY DEF FindableInv, AgentIsFindable, Launching
  <2> QED BY <2>1
<1> QED BY <1>1 DEF FindableInv

LEMMA FindableStep == FindableInv /\ [AgentNext]_agentVars => FindableInv'
<1> SUFFICES ASSUME FindableInv, [AgentNext]_agentVars PROVE FindableInv'
  OBVIOUS
<1>0. /\ session \in [status : {"open", "closed", "deleted"}, budget : Nat, spent : Nat,
                       agent : BOOLEAN]
      /\ sends = [m \in Messages |-> sends[m]]
      /\ session.status = "deleted" => closing = "deleted"
      /\ AgentInv'
  BY AgentStep DEF FindableInv, AgentInv, AgentTypeOK
<1>1. ASSUME UNCHANGED <<sends, podUp, closing>>,
             session'.agent = session.agent, session'.status = session.status
      PROVE  FindableInv'
  BY <1>0, <1>1, StaysFindable DEF Launching
<1>2. ASSUME NEW c \in Calls, CheckBudget(c) \/ Serve(c) \/ Accrue(c) PROVE FindableInv'
  BY <1>0, <1>1, <1>2 DEF CheckBudget, Serve, Accrue, Accrued, NotAccrued
<1>3. ASSUME NEW r \in Raises, NEW budget, IncreaseBudget(r) \/ AskToRaise(r, budget)
      PROVE  FindableInv'
  BY <1>0, <1>1, <1>3 DEF IncreaseBudget, AskToRaise
<1>4. ASSUME NEW m \in Messages, LookAtAgent(m) \/ SendMessage(m) PROVE FindableInv'
  <2>1. /\ sends' = [k \in Messages |-> sends'[k]] /\ Launching \subseteq Launching'
        /\ UNCHANGED <<session, podUp, closing>>
    BY <1>0, <1>4 DEF LookAtAgent, SendMessage, Launching
  <2> QED BY <1>0, <2>1, StaysFindable
<1>5. ASSUME NEW m \in Messages, LaunchAgent(m) PROVE FindableInv'
  <2>1. /\ sends' = [k \in Messages |-> sends'[k]] /\ Launching \subseteq Launching'
        /\ UNCHANGED <<session, closing>>
    BY <1>0, <1>5 DEF LaunchAgent, Launching
  <2>2. (podUp' => podUp) \/ m \in Launching'
    BY <1>0, <1>5 DEF LaunchAgent, Launching
  <2>3. CASE m \in Launching'
    <3>1. AgentIsFindable'
      BY <2>3 DEF AgentIsFindable, Launching
    <3> QED BY <1>0, <2>1, <3>1 DEF FindableInv
  <2> QED BY <1>0, <2>1, <2>2, <2>3, StaysFindable
<1>6. ASSUME NEW m \in Messages, RecordAgent(m) PROVE FindableInv'
  <2>1. session'.agent \/ ~podUp'
    BY <1>0, <1>6 DEF RecordAgent
  <2>2. sends' = [k \in Messages |-> sends'[k]]
    BY <1>0, <1>6 DEF RecordAgent
  <2>3. session'.status = session.status /\ closing' = closing
    BY <1>0, <1>6 DEF RecordAgent
  <2>4. AgentIsFindable'
    BY <2>1 DEF AgentIsFindable
  <2> QED BY <1>0, <2>2, <2>3, <2>4 DEF FindableInv
<1>7. CASE PollMark
  <2>1. /\ sends' = [k \in Messages |-> sends'[k]] /\ Launching \subseteq Launching'
        /\ UNCHANGED <<session, podUp, closing>>
    BY <1>0, <1>7 DEF PollMark, Queued, Launching
  <2> QED BY <1>0, <2>1, StaysFindable
<1>8. CASE PollRead \/ UNCHANGED agentVars
  BY <1>0, <1>1, <1>8 DEF PollRead, agentVars
<1>9. CASE AgentEnds
  BY <1>0, <1>9, StaysFindable DEF AgentEnds, Launching
<1>10. CASE CloseBuild \/ TearDown
  <2>1. session.status # "deleted" /\ session'.status # "deleted"
    BY <1>0, <1>10 DEF CloseBuild, TearDown
  <2>2. session'.agent = session.agent /\ (podUp' => podUp) /\ sends' = sends
    BY <1>0, <1>10 DEF CloseBuild, TearDown
  <2> QED BY <1>0, <2>1, <2>2, StaysFindable DEF Launching
<1>11. CASE DeleteRow
  <2>1. session'.status = "deleted" /\ closing' = "deleted" /\ sends' = sends
    BY <1>0, <1>11 DEF DeleteRow
  <2> QED BY <1>0, <2>1 DEF FindableInv, AgentIsFindable
<1> QED BY <1>2, <1>3, <1>4, <1>5, <1>6, <1>7, <1>8, <1>9, <1>10, <1>11 DEF AgentNext

\* A pod that is up is named by its session or by a launch under way, for any
\* number of messages and launches, until the session's row is gone.
THEOREM AgentFound == AgentSpec => []AgentIsFindable
<1>1. AgentInit => FindableInv
  <2>1. AgentInit => AgentInv
    BY AgentStarts
  <2>2. AgentInit => ~podUp /\ sends = [m \in Messages |-> sends[m]] /\ session.status = "open"
    BY DEF AgentInit
  <2> QED BY <2>1, <2>2 DEF FindableInv, AgentIsFindable
<1>2. FindableInv => AgentIsFindable
  BY DEF FindableInv
<1> QED BY <1>1, <1>2, FindableStep, PTL DEF AgentSpec

-----------------------------------------------------------------------------
(***************************************************************************)
(* Session streams.  What a shell's reader and channel hold goes on where  *)
(* what was shown ends, and what its connection carries goes on where they *)
(* end; once the stream is closed nothing is added any more.               *)
(***************************************************************************)
StreamMessage == [request : Streams, chunk : Nat]
StreamReader  == [pc : {"none", "recv", "removed", "gone"}]
                 \cup [pc : {"replacing"}, old : Sessions]
                 \cup [pc : {"delivering"}, request : Streams, chunk : Nat]
StreamChannel == [session : Nat, listed : BOOLEAN, open : BOOLEAN, buffer : Seq(Nat)]
HandlerPcs    == {"idle", "resolved", "opened", "relaying", "ending", "closing", "done"}
Outcomes      == {"none", "offline", "unreachable", "left", "failed", "complete"}
StreamRequest == [pc : HandlerPcs, session : Nat, shown : Seq(Nat), outcome : Outcomes]
StreamAnswer  == [on : Nat, next : Nat]

StreamTypeOK ==
  /\ link \in Nat
  /\ registered \in Nat
  /\ readers \in [Sessions -> StreamReader]
  /\ transit \in [Sessions -> Seq(StreamMessage)]
  /\ channel \in [Streams -> StreamChannel]
  /\ request \in [Streams -> StreamRequest]
  /\ answer \in [Streams -> StreamAnswer]
  /\ link # 0 => link \in Sessions
  /\ registered # 0 => registered \in Sessions

Relaying(r) == request[r].pc \in {"opened", "relaying"}
Unsent(r)   == request[r].pc \in {"idle", "resolved", "opened"}

\* What handler, stream and answer of one request have to do with each other.
Tied(r) ==
  /\ Unsent(r) => /\ answer[r].on = 0 /\ answer[r].next = 1
                  /\ request[r].shown = <<>> /\ channel[r].buffer = <<>>
  /\ Unsent(r) \/ request[r].pc = "relaying" => request[r].outcome = "none"
  /\ request[r].pc \in {"idle", "resolved"} => ~channel[r].open /\ ~channel[r].listed
  /\ request[r].pc # "idle" => request[r].session \in Sessions
  /\ request[r].pc \notin {"idle", "resolved"} => channel[r].session = request[r].session
  /\ answer[r].on # 0 => answer[r].on = request[r].session
  /\ r \in Shells /\ channel[r].open => channel[r].listed

\* A connection carries answers to the requests sent over it only.
ReadersTied ==
  /\ \A r \in Streams : Tied(r)
  /\ \A n \in Sessions : \A i \in 1 .. Len(transit[n]) : answer[transit[n][i].request].on = n
  /\ \A n \in Sessions : ReaderAt(n, "delivering") => answer[readers[n].request].on = n

\* seq has the chunks after k, one by one, and perhaps an error as its last.
Ordered(seq, k, r) ==
  \A i \in 1 .. Len(seq) :
    \/ seq[i] = 0 /\ i = Len(seq)
    \/ seq[i] = k + i /\ seq[i] <= Length(r)

\* The messages for r in q go on after the chunk k, up to the one before next,
\* unless the answer is over.
Continues(q, r, k, next) ==
  /\ \A i \in 1 .. Len(q) : q[i].request = r =>
       \/ /\ q[i].chunk = 0 /\ next > Length(r)
          /\ \A j \in 1 .. Len(q) : j > i => q[j].request # r
       \/ /\ q[i].chunk > k /\ q[i].chunk < next /\ q[i].chunk <= Length(r)
          /\ \A c \in (k + 1) .. (q[i].chunk - 1) :
               \E j \in 1 .. Len(q) : j < i /\ q[j].request = r /\ q[j].chunk = c
  /\ \A i, j \in 1 .. Len(q) : i < j /\ q[i].request = r /\ q[j].request = r =>
       q[j].chunk = 0 \/ q[i].chunk < q[j].chunk
  /\ next <= Length(r) =>
       /\ k < next
       /\ \A c \in (k + 1) .. (next - 1) :
            \E i \in 1 .. Len(q) : q[i].request = r /\ q[i].chunk = c

\* The chunk that the reader of r's connection holds for r.
InHand(r) ==
  LET n == channel[r].session IN
  IF ReaderAt(n, "delivering") /\ readers[n].request = r THEN <<readers[n].chunk>> ELSE <<>>

Arrived(r) == channel[r].buffer \o InHand(r)

Follows(arrived, r, k, q, next) ==
  /\ Ordered(arrived, k, r)
  /\ IF arrived # <<>> /\ arrived[Len(arrived)] = 0
     THEN next > Length(r) /\ \A i \in 1 .. Len(q) : q[i].request # r
     ELSE Continues(q, r, k + Len(arrived), next)

Shown(r) ==
  /\ request[r].shown = [i \in 1 .. Len(request[r].shown) |-> i]
  /\ request[r].outcome = "complete" => Len(request[r].shown) = Length(r)

Flows(r) ==
  /\ Relaying(r) => Ordered(channel[r].buffer, Len(request[r].shown), r)
  /\ Relaying(r) /\ channel[r].open =>
       Follows(Arrived(r), r, Len(request[r].shown), transit[channel[r].session], answer[r].next)

StreamInv ==
  /\ StreamTypeOK
  /\ ReadersTied
  /\ \A r \in Shells : Shown(r) /\ Flows(r)

\* Lemmas about sequences of chunks and messages.
LEMMA StreamNumbers ==
  /\ MaxSessions \in Nat \ {0}
  /\ \A r \in Streams : Length(r) \in Nat \ {0}
<1>1. /\ ShellChunks \in Nat \ {0} /\ FetchChunks \in Nat \ {0} /\ MaxSessions \in Nat \ {0}
  BY StreamAssumption
<1> QED BY <1>1 DEF Length

\* A message of another request is added, or the next one of r, or r's error.
LEMMA AppendContinues ==
  ASSUME NEW q \in Seq(StreamMessage), NEW m \in StreamMessage, NEW r \in Streams,
         NEW k \in Nat, NEW next \in Nat, NEW after \in Nat, Continues(q, r, k, next),
         \/ m.request # r /\ after = next
         \/ m.request = r /\ next <= Length(r) /\ m.chunk = next /\ next # 0 /\ after = next + 1
         \/ m.request = r /\ next <= Length(r) /\ m.chunk = 0 /\ after = Length(r) + 1
  PROVE  Continues(Append(q, m), r, k, after)
<1> DEFINE Q == Append(q, m)
           last == Len(q) + 1
<1>1. /\ Len(q) \in Nat /\ Len(Q) = last /\ Q[last] = m
      /\ \A i \in 1 .. Len(q) : Q[i] = q[i] /\ q[i] \in StreamMessage
      /\ \A i \in 1 .. last : i \in 1 .. Len(q) \/ i = last
      /\ \A i \in 1 .. Len(q) : i \in 1 .. last /\ i < last
  OBVIOUS
<1>2. Length(r) \in Nat
  BY StreamNumbers
<1>3. \A i \in 1 .. Len(q) : q[i].chunk \in Nat
  BY <1>1 DEF StreamMessage
<1> HIDE DEF Q, last
<1>4. ASSUME m.request = r, NEW i \in 1 .. Len(q), q[i].request = r
      PROVE  q[i].chunk # 0 /\ q[i].chunk < next
  BY <1>2, <1>4 DEF Continues
<1>5. ASSUME NEW i \in 1 .. Len(Q), Q[i].request = r
      PROVE \/ /\ Q[i].chunk = 0 /\ after > Length(r)
               /\ \A j \in 1 .. Len(Q) : j > i => Q[j].request # r
            \/ /\ Q[i].chunk > k /\ Q[i].chunk < after /\ Q[i].chunk <= Length(r)
               /\ \A c \in (k + 1) .. (Q[i].chunk - 1) :
                    \E j \in 1 .. Len(Q) : j < i /\ Q[j].request = r /\ Q[j].chunk = c
  <2>1. CASE i = last /\ m.chunk = 0
    BY <1>1, <1>2, <1>5, <2>1
  <2>2. CASE i = last /\ m.chunk # 0
    <3>1. m.chunk = next /\ next <= Length(r) /\ after = next + 1 /\ m.request = r
      BY <1>1, <1>5, <2>2
    <3>2. k < next /\ \A c \in (k + 1) .. (next - 1) :
                         \E j \in 1 .. Len(q) : q[j].request = r /\ q[j].chunk = c
      BY <3>1 DEF Continues
    <3>3. \A c \in (k + 1) .. (next - 1) :
             \E j \in 1 .. Len(Q) : j < i /\ Q[j].request = r /\ Q[j].chunk = c
      BY <1>1, <2>2, <3>2
    <3> QED BY <1>1, <2>2, <3>1, <3>2, <3>3
  <2>3. CASE i # last
    <3>1. i \in 1 .. Len(q) /\ Q[i] = q[i]
      BY <1>1, <2>3
    <3>2. CASE q[i].chunk = 0
      <4>1. m.request # r /\ after = next
        BY <1>4, <1>5, <3>1, <3>2
      <4>2. next > Length(r) /\ \A j \in 1 .. Len(q) : j > i => q[j].request # r
        BY <1>5, <3>1, <3>2 DEF Continues
      <4>3. \A j \in 1 .. Len(Q) : j > i => Q[j].request # r
        BY <1>1, <4>1, <4>2
      <4> QED BY <3>1, <3>2, <4>1, <4>2, <4>3
    <3>3. CASE q[i].chunk # 0
      <4>1. /\ q[i].chunk > k /\ q[i].chunk < next /\ q[i].chunk <= Length(r)
            /\ \A c \in (k + 1) .. (q[i].chunk - 1) :
                 \E j \in 1 .. Len(q) : j < i /\ q[j].request = r /\ q[j].chunk = c
        BY <1>5, <3>1, <3>3 DEF Continues
      <4>2. \A c \in (k + 1) .. (Q[i].chunk - 1) :
                 \E j \in 1 .. Len(Q) : j < i /\ Q[j].request = r /\ Q[j].chunk = c
        BY <1>1, <3>1, <4>1
      <4>3. q[i].chunk < after
        BY <1>2, <1>3, <3>1, <4>1
      <4> QED BY <3>1, <4>1, <4>2, <4>3
    <3> QED BY <3>2, <3>3
  <2> QED BY <2>1, <2>2, <2>3
<1>6. ASSUME NEW i \in 1 .. Len(Q), NEW j \in 1 .. Len(Q), i < j, Q[i].request = r, Q[j].request = r
      PROVE  Q[j].chunk = 0 \/ Q[i].chunk < Q[j].chunk
  <2>1. i \in 1 .. Len(q) /\ Q[i] = q[i]
    BY <1>1, <1>6
  <2>2. CASE j = last
    BY <1>1, <1>4, <1>6, <2>1, <2>2
  <2>3. CASE j # last
    <3>1. j \in 1 .. Len(q) /\ Q[j] = q[j]
      BY <1>1, <2>3
    <3> QED BY <1>6, <2>1, <3>1 DEF Continues
  <2> QED BY <2>2, <2>3
<1>7. ASSUME after <= Length(r)
      PROVE  /\ k < after
             /\ \A c \in (k + 1) .. (after - 1) :
                  \E i \in 1 .. Len(Q) : Q[i].request = r /\ Q[i].chunk = c
  <2>1. next <= Length(r) /\ (after = next \/ (after = next + 1 /\ m.request = r /\ m.chunk = next))
    BY <1>2, <1>7
  <2>2. k < next /\ \A c \in (k + 1) .. (next - 1) :
                       \E j \in 1 .. Len(q) : q[j].request = r /\ q[j].chunk = c
    BY <2>1 DEF Continues
  <2>3. ASSUME NEW c \in (k + 1) .. (after - 1)
        PROVE  \E i \in 1 .. Len(Q) : Q[i].request = r /\ Q[i].chunk = c
    <3>1. CASE c \in (k + 1) .. (next - 1)
      BY <1>1, <2>2, <3>1
    <3>2. CASE c \notin (k + 1) .. (next - 1)
      <4>1. c = next /\ m.request = r /\ m.chunk = next
        BY <2>1, <2>3, <3>2
      <4> QED BY <1>1, <4>1 DEF last
    <3> QED BY <3>1, <3>2
  <2> QED BY <2>1, <2>2, <2>3
<1>8. Continues(Q, r, k, after)
  BY <1>5, <1>6, <1>7 DEF Continues
<1> QED BY <1>8 DEF Q

\* The first message is taken: what goes on was behind it.
LEMMA TailContinues ==
  ASSUME NEW q \in Seq(StreamMessage), q # <<>>, NEW r \in Streams,
         NEW k \in Nat, NEW next \in Nat, Continues(q, r, k, next)
  PROVE  /\ Head(q).request # r => Continues(Tail(q), r, k, next)
         /\ Head(q).request = r =>
              \/ /\ Head(q).chunk = 0 /\ next > Length(r)
                 /\ \A i \in 1 .. Len(Tail(q)) : Tail(q)[i].request # r
              \/ /\ Head(q).chunk = k + 1 /\ k + 1 <= Length(r)
                 /\ Continues(Tail(q), r, k + 1, next)
<1> DEFINE t == Tail(q)
           h == q[1]
<1>1. /\ Len(q) \in Nat \ {0} /\ Len(t) = Len(q) - 1 /\ Head(q) = h /\ h \in StreamMessage
      /\ \A i \in 1 .. Len(t) : t[i] = q[i + 1] /\ i + 1 \in 1 .. Len(q)
      /\ \A i \in 1 .. Len(q) : i # 1 => i - 1 \in 1 .. Len(t) /\ q[i] = t[i - 1]
      /\ 1 \in 1 .. Len(q)
  OBVIOUS
<1>2. Length(r) \in Nat
  BY StreamNumbers
<1>3. \A i \in 1 .. Len(q) : q[i].chunk \in Nat /\ i \in Nat
  <2>1. \A i \in 1 .. Len(q) : q[i] \in StreamMessage
    OBVIOUS
  <2> QED BY <1>1, <2>1 DEF StreamMessage
<1> HIDE DEF t, h
<1>4. ASSUME NEW K \in Nat,
             \/ K = k /\ h.request # r
             \/ K = k + 1 /\ h.request = r /\ h.chunk = k + 1
      PROVE  Continues(t, r, K, next)
  <2>9. h = q[1] 
    BY DEF h
  <2>1. ASSUME NEW i \in 1 .. Len(t), t[i].request = r
        PROVE  \/ /\ t[i].chunk = 0 /\ next > Length(r)
                  /\ \A j \in 1 .. Len(t) : j > i => t[j].request # r
               \/ /\ t[i].chunk > K /\ t[i].chunk < next /\ t[i].chunk <= Length(r)
                  /\ \A c \in (K + 1) .. (t[i].chunk - 1) :
                       \E j \in 1 .. Len(t) : j < i /\ t[j].request = r /\ t[j].chunk = c
    <3>1. i + 1 \in 1 .. Len(q) /\ q[i + 1].request = r /\ t[i] = q[i + 1] /\ t[i].chunk \in Nat
      BY <1>1, <1>3, <2>1
    <3>2. CASE t[i].chunk = 0
      <4>1. next > Length(r) /\ \A j \in 1 .. Len(q) : j > i + 1 => q[j].request # r
        BY <3>1, <3>2 DEF Continues
      <4>2. ASSUME NEW j \in 1 .. Len(t), j > i PROVE t[j].request # r
        <5>1. j + 1 \in 1 .. Len(q) /\ t[j] = q[j + 1] /\ j + 1 > i + 1
          BY <1>1, <4>2
        <5> QED BY <4>1, <5>1
      <4> QED BY <3>2, <4>1, <4>2
    <3>3. CASE t[i].chunk # 0
      <4>1. /\ t[i].chunk > k /\ t[i].chunk < next /\ t[i].chunk <= Length(r)
            /\ \A c \in (k + 1) .. (t[i].chunk - 1) :
                 \E j \in 1 .. Len(q) : j < i + 1 /\ q[j].request = r /\ q[j].chunk = c
        BY <3>1, <3>3 DEF Continues
      <4>2. t[i].chunk > K
        <5>1. CASE K = k
          BY <4>1, <5>1
        <5>2. CASE K = k + 1 /\ h.request = r /\ h.chunk = k + 1
          <6>1. h.chunk < t[i].chunk
            BY <1>1, <2>9, <3>1, <3>3, <5>2 DEF Continues
          <6> QED BY <5>2, <6>1
        <5> QED BY <1>4, <5>1, <5>2
      <4>3. ASSUME NEW c \in (K + 1) .. (t[i].chunk - 1)
            PROVE  \E j \in 1 .. Len(t) : j < i /\ t[j].request = r /\ t[j].chunk = c
        <5>1. c \in (k + 1) .. (t[i].chunk - 1)
          BY <1>4, <3>1, <4>3
        <5>2. PICK j \in 1 .. Len(q) : j < i + 1 /\ q[j].request = r /\ q[j].chunk = c
          BY <4>1, <5>1
        <5>3. j # 1
          BY <1>4, <2>9, <4>3, <5>2
        <5>4. j - 1 \in 1 .. Len(t) /\ t[j - 1] = q[j] /\ j - 1 < i
          BY <1>1, <5>2, <5>3
        <5> QED BY <5>2, <5>4
      <4> QED BY <4>1, <4>2, <4>3
    <3> QED BY <3>2, <3>3
  <2>2. ASSUME NEW i \in 1 .. Len(t), NEW j \in 1 .. Len(t), i < j, t[i].request = r, t[j].request = r
        PROVE  t[j].chunk = 0 \/ t[i].chunk < t[j].chunk
    <3>1. /\ i + 1 \in 1 .. Len(q) /\ j + 1 \in 1 .. Len(q) /\ i + 1 < j + 1
          /\ t[i] = q[i + 1] /\ t[j] = q[j + 1]
      BY <1>1, <2>2
    <3> QED BY <2>2, <3>1 DEF Continues
  <2>3. ASSUME next <= Length(r)
        PROVE  /\ K < next
               /\ \A c \in (K + 1) .. (next - 1) :
                    \E i \in 1 .. Len(t) : t[i].request = r /\ t[i].chunk = c
    <3>1. k < next /\ \A c \in (k + 1) .. (next - 1) :
                         \E j \in 1 .. Len(q) : q[j].request = r /\ q[j].chunk = c
      BY <2>3 DEF Continues
    <3>2. K < next
      <4>1. CASE K = k
        BY <3>1, <4>1
      <4>2. CASE K = k + 1 /\ h.request = r /\ h.chunk = k + 1
        <5>1. h.chunk < next
          BY <1>1, <2>9, <4>2 DEF Continues
        <5> QED BY <4>2, <5>1
      <4> QED BY <1>4, <4>1, <4>2
    <3>3. ASSUME NEW c \in (K + 1) .. (next - 1)
          PROVE  \E i \in 1 .. Len(t) : t[i].request = r /\ t[i].chunk = c
      <4>1. c \in (k + 1) .. (next - 1)
        BY <1>4, <3>3
      <4>2. PICK j \in 1 .. Len(q) : q[j].request = r /\ q[j].chunk = c
        BY <3>1, <4>1
      <4>3. j # 1
        BY <1>4, <2>9, <3>3, <4>2
      <4> QED BY <1>1, <4>2, <4>3
    <3> QED BY <3>2, <3>3
  <2> QED BY <2>1, <2>2, <2>3 DEF Continues
<1>5. h.request # r => Continues(t, r, k, next)
  BY <1>4
<1>6. ASSUME h.request = r
      PROVE  \/ /\ h.chunk = 0 /\ next > Length(r)
                /\ \A i \in 1 .. Len(t) : t[i].request # r
             \/ /\ h.chunk = k + 1 /\ k + 1 <= Length(r)
                /\ Continues(t, r, k + 1, next)
  <2>1. CASE h.chunk = 0
    <3>1. next > Length(r) /\ \A j \in 1 .. Len(q) : j > 1 => q[j].request # r
      BY <1>1, <1>6, <2>1 DEF Continues, h
    <3>2. ASSUME NEW i \in 1 .. Len(t) PROVE t[i].request # r
      <4>1. i + 1 \in 1 .. Len(q) /\ t[i] = q[i + 1] /\ i + 1 > 1
        BY <1>1
      <4> QED BY <3>1, <4>1
    <3> QED BY <2>1, <3>1, <3>2
  <2>2. CASE h.chunk # 0
    <3>1. /\ h.chunk > k /\ h.chunk <= Length(r) /\ h.chunk \in Nat
          /\ \A c \in (k + 1) .. (h.chunk - 1) :
               \E j \in 1 .. Len(q) : j < 1 /\ q[j].request = r /\ q[j].chunk = c
      BY <1>1, <1>3, <1>6, <2>2 DEF Continues, h
    <3>2. h.chunk = k + 1
      <4> SUFFICES ASSUME h.chunk # k + 1 PROVE FALSE
        OBVIOUS
      <4>1. k + 1 \in (k + 1) .. (h.chunk - 1)
        BY <3>1
      <4> QED BY <1>3, <3>1, <4>1
    <3> QED BY <1>4, <1>6, <3>1, <3>2
  <2> QED BY <2>1, <2>2
<1> QED BY <1>1, <1>5, <1>6 DEF t

\* A shell whose stream a step leaves alone, or closes.
LEMMA Undisturbed ==
  ASSUME StreamInv, NEW r \in Shells,
         request'[r].shown = request[r].shown,
         request'[r].outcome = "complete" => request[r].outcome = "complete",
         Relaying(r)' => Relaying(r) /\ channel'[r].buffer = channel[r].buffer,
         Relaying(r)' /\ channel'[r].open =>
           /\ channel[r].open /\ channel'[r].session = channel[r].session
           /\ answer'[r].next = answer[r].next /\ InHand(r)' = InHand(r)
           /\ transit'[channel[r].session] = transit[channel[r].session]
  PROVE  Shown(r)' /\ Flows(r)'
<1>1. Shown(r) /\ Flows(r)
  BY DEF StreamInv
<1>2. Shown(r)'
  BY <1>1 DEF Shown
<1>3. Relaying(r)' => Ordered(channel'[r].buffer, Len(request'[r].shown), r)
  BY <1>1 DEF Flows
<1>4. ASSUME Relaying(r)', channel'[r].open
      PROVE  Follows(Arrived(r), r, Len(request[r].shown), transit[channel[r].session], answer[r].next)'
  <2>1. Follows(Arrived(r), r, Len(request[r].shown), transit[channel[r].session], answer[r].next)
    BY <1>1, <1>4 DEF Flows
  <2>2. Arrived(r)' = Arrived(r)
    BY <1>4 DEF Arrived
  <2>3. /\ Len(request[r].shown)' = Len(request[r].shown)
        /\ transit'[channel'[r].session] = transit[channel[r].session]
        /\ answer'[r].next = answer[r].next
    BY <1>4
  <2> DEFINE a == Arrived(r)
             k == Len(request[r].shown)
             q == transit[channel[r].session]
             n == answer[r].next
  <2>4. a' = a /\ k' = k /\ q' = q /\ n' = n
    BY <2>2, <2>3
  <2>5. Follows(a, r, k, q, n)
    BY <2>1
  <2> HIDE DEF a, k, q, n
  <2>6. Follows(a', r, k', q', n')
    BY <2>4, <2>5
  <2>7. Follows(a, r, k, q, n)'
    BY <2>6 DEF Follows, Ordered, Continues, Length
  <2> QED BY <2>7 DEF a, k, q, n
<1>5. Flows(r)'
  BY <1>3, <1>4 DEF Flows, Ordered, Length
<1> QED BY <1>2, <1>5

LEMMA HandSame ==
  ASSUME NEW r \in Streams, channel'[r].session = channel[r].session,
         LET n == channel[r].session IN
           \/ readers'[n] = readers[n]
           \/ readers[n].pc # "delivering" /\ readers'[n].pc # "delivering"
  PROVE  InHand(r)' = InHand(r)
BY DEF InHand, ReaderAt

LEMMA StreamParts ==
  /\ \A x \in StreamChannel :
       /\ x.session \in Nat /\ x.listed \in BOOLEAN /\ x.open \in BOOLEAN /\ x.buffer \in Seq(Nat)
       /\ x = [session |-> x.session, listed |-> x.listed, open |-> x.open, buffer |-> x.buffer]
  /\ \A x \in StreamRequest :
       /\ x.pc \in HandlerPcs /\ x.session \in Nat /\ x.shown \in Seq(Nat) /\ x.outcome \in Outcomes
       /\ x = [pc |-> x.pc, session |-> x.session, shown |-> x.shown, outcome |-> x.outcome]
  /\ \A x \in StreamAnswer : x.on \in Nat /\ x.next \in Nat /\ x = [on |-> x.on, next |-> x.next]
  /\ \A x \in StreamMessage : x.request \in Streams /\ x.chunk \in Nat
<1>1. \A x \in StreamChannel :
       /\ x.session \in Nat /\ x.listed \in BOOLEAN /\ x.open \in BOOLEAN /\ x.buffer \in Seq(Nat)
       /\ x = [session |-> x.session, listed |-> x.listed, open |-> x.open, buffer |-> x.buffer]
  BY DEF StreamChannel
<1>2. \A x \in StreamRequest :
       /\ x.pc \in HandlerPcs /\ x.session \in Nat /\ x.shown \in Seq(Nat) /\ x.outcome \in Outcomes
       /\ x = [pc |-> x.pc, session |-> x.session, shown |-> x.shown, outcome |-> x.outcome]
  BY DEF StreamRequest
<1>3. \A x \in StreamAnswer : x.on \in Nat /\ x.next \in Nat /\ x = [on |-> x.on, next |-> x.next]
  BY DEF StreamAnswer
<1>4. \A x \in StreamMessage : x.request \in Streams /\ x.chunk \in Nat
  BY DEF StreamMessage
<1> QED BY <1>1, <1>2, <1>3, <1>4

\* Nothing new is carried, and only who has none is given a connection.
LEMMA RoutedStays ==
  ASSUME StreamTypeOK, ReadersTied, \A r \in Streams : Tied(r)',
         UNCHANGED transit,
         \A r \in Streams : answer[r].on # 0 => answer'[r].on = answer[r].on,
         \A n \in Sessions : readers'[n].pc = "delivering" => readers'[n] = readers[n]
  PROVE  ReadersTied'
<1>1. \A n \in Sessions : n # 0
  BY StreamNumbers DEF Sessions
<1>2. ASSUME NEW n \in Sessions, NEW i \in 1 .. Len(transit[n])
      PROVE  answer'[transit[n][i].request].on = n
  <2>1. transit[n] \in Seq(StreamMessage)
    BY DEF StreamTypeOK
  <2>2. transit[n][i] \in StreamMessage
    BY <2>1
  <2>3. transit[n][i].request \in Streams /\ answer[transit[n][i].request].on = n
    BY <2>2, StreamParts DEF ReadersTied
  <2> QED BY <1>1, <2>3
<1>3. ASSUME NEW n \in Sessions, readers'[n].pc = "delivering"
      PROVE  answer'[readers'[n].request].on = n
  <2>1. readers'[n] = readers[n] /\ readers[n] \in StreamReader
    BY <1>3 DEF StreamTypeOK
  <2>2. readers[n].request \in Streams /\ answer[readers[n].request].on = n
    BY <1>3, <2>1 DEF StreamReader, ReadersTied, ReaderAt
  <2> QED BY <1>1, <2>1, <2>2
<1> QED BY <1>2, <1>3 DEF ReadersTied, ReaderAt

LEMMA StreamsInitHolds == StreamsInit => StreamInv
<1> SUFFICES ASSUME StreamsInit PROVE StreamInv
  OBVIOUS
<1>1. /\ link = 0 /\ registered = 0
      /\ readers = [n \in Sessions |-> [pc |-> "none"]] /\ transit = [n \in Sessions |-> <<>>]
      /\ channel = [r \in Streams |-> NoStream] /\ request = [r \in Streams |-> NotAsked]
      /\ answer = [r \in Streams |-> NotStarted]
  BY DEF StreamsInit
<1>2. StreamTypeOK
  <2>1. NoStream \in StreamChannel /\ NotStarted \in StreamAnswer
    BY DEF NoStream, NotStarted, StreamChannel, StreamAnswer
  <2>2. NotAsked \in StreamRequest
    BY DEF NotAsked, StreamRequest, HandlerPcs, Outcomes
  <2>3. [pc |-> "none"] \in StreamReader
    BY DEF StreamReader
  <2> QED BY <1>1, <2>1, <2>2, <2>3 DEF StreamTypeOK
<1>3. ReadersTied
  <2>1. \A r \in Streams : Tied(r)
    BY <1>1 DEF Tied, Unsent, NoStream, NotAsked, NotStarted
  <2>2. \A n \in Sessions : 1 .. Len(transit[n]) = {} /\ readers[n].pc = "none"
    BY <1>1
  <2> QED BY <2>1, <2>2 DEF ReadersTied, ReaderAt
<1>4. \A r \in Shells : Shown(r) /\ Flows(r)
  BY <1>1 DEF Shown, Flows, Relaying, NotAsked, Streams
<1> QED BY <1>2, <1>3, <1>4 DEF StreamInv

\* Steps that change connections: streams may be closed, none is opened.
LEMMA ConnectionsChange ==
  ASSUME StreamInv, UNCHANGED <<transit, request, answer>>,
         link' \in Nat /\ (link' # 0 => link' \in Sessions),
         registered' \in Nat /\ (registered' # 0 => registered' \in Sessions),
         readers' \in [Sessions -> StreamReader], channel' \in [Streams -> StreamChannel],
         \A n \in Sessions : \/ readers'[n] = readers[n]
                             \/ readers[n].pc # "delivering" /\ readers'[n].pc # "delivering",
         \A r \in Streams :
           \/ channel'[r] = channel[r]
           \/ /\ channel'[r].session = channel[r].session /\ channel'[r].buffer = channel[r].buffer
              /\ ~channel'[r].open /\ ~channel'[r].listed
  PROVE  StreamInv'
<1>1. StreamTypeOK /\ ReadersTied
  BY DEF StreamInv
<1>2. StreamTypeOK'
  BY <1>1 DEF StreamTypeOK
<1>3. \A r \in Streams : Tied(r)'
  BY <1>1 DEF ReadersTied, Tied, Unsent
<1>4. ReadersTied'
  BY <1>1, <1>3, RoutedStays
<1>5. ASSUME NEW r \in Shells PROVE Shown(r)' /\ Flows(r)'
  <2>1. r \in Streams /\ channel'[r].buffer = channel[r].buffer
        /\ channel'[r].session = channel[r].session
        /\ (channel'[r].open => channel[r].open)
    BY DEF Streams
  <2>2. ASSUME Relaying(r)', channel'[r].open PROVE InHand(r)' = InHand(r)
    <3>1. channel[r].session \in Sessions
      BY <1>1, <2>1, <2>2 DEF ReadersTied, Tied, Relaying
    <3> QED BY <2>1, <3>1, HandSame
  <2>3. Relaying(r)' = Relaying(r)
    BY DEF Relaying
  <2> QED BY <2>1, <2>2, <2>3, Undisturbed
<1> QED BY <1>2, <1>4, <1>5 DEF StreamInv

LEMMA ReaderTurns ==
  ASSUME readers \in [Sessions -> StreamReader], NEW n \in Sessions,
         NEW pc \in {"none", "recv", "removed", "gone"}, ReaderGoes(n, pc)
  PROVE  /\ readers' \in [Sessions -> StreamReader] /\ readers'[n].pc = pc
         /\ \A m \in Sessions : m # n => readers'[m] = readers[m]
<1> DEFINE new == [pc |-> pc]
<1>1. new \in StreamReader /\ new.pc = pc
  BY DEF StreamReader
<1>2. readers' = [readers EXCEPT ![n] = new]
  BY DEF ReaderGoes
<1> HIDE DEF new
<1> QED BY <1>1, <1>2

LEMMA SessionEnds ==
  ASSUME channel \in [Streams -> StreamChannel], NEW n, EndSession(n)
  PROVE  /\ channel' \in [Streams -> StreamChannel]
         /\ \A r \in Streams :
              \/ channel'[r] = channel[r]
              \/ /\ channel'[r].session = channel[r].session /\ channel'[r].buffer = channel[r].buffer
                 /\ ~channel'[r].open /\ ~channel'[r].listed
<1>1. ASSUME NEW x \in StreamChannel
      PROVE  LET y == [x EXCEPT !.listed = FALSE, !.open = FALSE] IN
             /\ y \in StreamChannel /\ y.session = x.session /\ y.buffer = x.buffer
             /\ ~y.open /\ ~y.listed
  BY DEF StreamChannel
<1>2. channel' = [r \in Streams |->
                     IF n \notin closed /\ channel[r].listed /\ channel[r].session = n
                       THEN [channel[r] EXCEPT !.listed = FALSE, !.open = FALSE]
                       ELSE channel[r]]
  BY DEF EndSession
<1>3. ASSUME NEW r \in Streams
      PROVE  /\ channel'[r] \in StreamChannel
             /\ \/ channel'[r] = channel[r]
                \/ /\ channel'[r].session = channel[r].session /\ channel'[r].buffer = channel[r].buffer
                   /\ ~channel'[r].open /\ ~channel'[r].listed
  BY <1>1, <1>2
<1> QED BY <1>2, <1>3

LEMMA ConnectionStepsHold ==
  ASSUME StreamInv, NEW n \in Sessions,
         Disconnect \/ AddSession(n) \/ RecvFails(n) \/ CloseReplaced(n) \/ CloseRemoved(n)
  PROVE  StreamInv'
<1>1. /\ readers \in [Sessions -> StreamReader] /\ channel \in [Streams -> StreamChannel]
      /\ link \in Nat /\ registered \in Nat /\ (link # 0 => link \in Sessions)
      /\ (registered # 0 => registered \in Sessions) /\ n \in Nat
  BY DEF StreamInv, StreamTypeOK, Sessions
<1>2. CASE Disconnect
  BY <1>1, <1>2, ConnectionsChange DEF Disconnect
<1>3. CASE AddSession(n)
  <2> DEFINE new == IF registered = 0 THEN [pc |-> "recv"] ELSE [pc |-> "replacing", old |-> registered]
  <2>1. readers' = [readers EXCEPT ![n] = new] /\ readers[n].pc = "none"
        /\ link' = n /\ registered' = n /\ UNCHANGED <<transit, channel, request, answer>>
    BY <1>3 DEF AddSession, ReaderAt
  <2>2. new \in StreamReader /\ new.pc # "delivering"
    BY <1>1 DEF StreamReader
  <2> HIDE DEF new
  <2>3. readers' \in [Sessions -> StreamReader] /\ readers'[n] = new
        /\ \A m \in Sessions : m # n => readers'[m] = readers[m]
    BY <1>1, <2>1, <2>2
  <2> QED BY <1>1, <2>1, <2>2, <2>3, ConnectionsChange
<1>4. CASE RecvFails(n)
  <2>1. /\ readers[n].pc = "recv" /\ ReaderGoes(n, "removed") /\ link' = link
        /\ registered' \in {registered, 0} /\ UNCHANGED <<transit, channel, request, answer>>
    BY <1>4 DEF RecvFails, ReaderAt
  <2>2. /\ readers' \in [Sessions -> StreamReader] /\ readers'[n].pc = "removed"
        /\ \A m \in Sessions : m # n => readers'[m] = readers[m]
    BY <1>1, <2>1, ReaderTurns
  <2> QED BY <1>1, <2>1, <2>2, ConnectionsChange
<1>5. CASE CloseReplaced(n)
  <2>1. /\ readers[n].pc = "replacing" /\ ReaderGoes(n, "recv") /\ EndSession(readers[n].old)
        /\ UNCHANGED <<link, registered, transit, request, answer>>
    BY <1>5 DEF CloseReplaced, ReaderAt
  <2>2. /\ readers' \in [Sessions -> StreamReader] /\ readers'[n].pc = "recv"
        /\ \A m \in Sessions : m # n => readers'[m] = readers[m]
    BY <1>1, <2>1, ReaderTurns
  <2> QED BY <1>1, <2>1, <2>2, SessionEnds, ConnectionsChange
<1>6. CASE CloseRemoved(n)
  <2>1. /\ readers[n].pc = "removed" /\ ReaderGoes(n, "gone") /\ EndSession(n)
        /\ UNCHANGED <<link, registered, transit, request, answer>>
    BY <1>6 DEF CloseRemoved, ReaderAt
  <2>2. /\ readers' \in [Sessions -> StreamReader] /\ readers'[n].pc = "gone"
        /\ \A m \in Sessions : m # n => readers'[m] = readers[m]
    BY <1>1, <2>1, ReaderTurns
  <2> QED BY <1>1, <2>1, <2>2, SessionEnds, ConnectionsChange
<1> QED BY <1>2, <1>3, <1>4, <1>5, <1>6

\* A step of one request leaves the others as they were.
LEMMA OthersStay ==
  ASSUME StreamInv, NEW r \in Streams, NEW q \in StreamRequest, NEW c \in StreamChannel,
         NEW a \in StreamAnswer,
         request' = [request EXCEPT ![r] = q], channel' = [channel EXCEPT ![r] = c],
         answer' = [answer EXCEPT ![r] = a],
         UNCHANGED <<link, registered, readers, transit>>,
         Tied(r)', answer[r].on # 0 => a.on = answer[r].on,
         r \in Shells => Shown(r)' /\ Flows(r)'
  PROVE  StreamInv'
<1>1. StreamTypeOK /\ ReadersTied
  BY DEF StreamInv
<1>2. StreamTypeOK'
  BY <1>1 DEF StreamTypeOK
<1>3. /\ request \in [Streams -> StreamRequest] /\ channel \in [Streams -> StreamChannel]
      /\ answer \in [Streams -> StreamAnswer]
  BY <1>1 DEF StreamTypeOK
<1>4. \A s \in Streams : s # r =>
        request'[s] = request[s] /\ channel'[s] = channel[s] /\ answer'[s] = answer[s]
  BY <1>3
<1>5. ASSUME NEW s \in Streams PROVE Tied(s)'
  <2>1. CASE s = r
    BY <2>1
  <2>2. CASE s # r
    BY <1>1, <1>4, <2>2 DEF ReadersTied, Tied, Unsent
  <2> QED BY <2>1, <2>2
<1>6. answer'[r] = a
  BY <1>3
<1>7. \A s \in Streams : answer[s].on # 0 => answer'[s].on = answer[s].on
  BY <1>4, <1>6
<1>8. ReadersTied'
  BY <1>1, <1>5, <1>7, RoutedStays
<1>9. ASSUME NEW s \in Shells PROVE Shown(s)' /\ Flows(s)'
  <2>1. CASE s = r
    BY <2>1
  <2>2. CASE s # r
    <3>1. s \in Streams
      BY DEF Streams
    <3>2. InHand(s)' = InHand(s)
      BY <1>4, <2>2, <3>1, HandSame
    <3>3. Relaying(s)' = Relaying(s)
      BY <1>4, <2>2, <3>1 DEF Relaying
    <3> QED BY <1>4, <2>2, <3>1, <3>2, <3>3, Undisturbed
  <2> QED BY <2>1, <2>2
<1> QED BY <1>2, <1>8, <1>9 DEF StreamInv

\* A request with a new state, and perhaps an outcome.
LEMMA HandlerEffects ==
  ASSUME StreamTypeOK, NEW r \in Streams, NEW pc \in HandlerPcs, NEW outcome \in Outcomes
  PROVE  /\ HandlerGoes(r, pc) =>
              \E q \in StreamRequest : /\ request' = [request EXCEPT ![r] = q]
                 /\ q.pc = pc /\ q.session = request[r].session /\ q.shown = request[r].shown
                 /\ q.outcome = request[r].outcome
         /\ HandlerEnds(r, outcome) =>
              \E q \in StreamRequest : /\ request' = [request EXCEPT ![r] = q]
                 /\ q.pc = "ending" /\ q.session = request[r].session /\ q.shown = request[r].shown
                 /\ q.outcome = outcome
<1> DEFINE x == request[r]
           q == [pc |-> pc, session |-> x.session, shown |-> x.shown, outcome |-> x.outcome]
           e == [pc |-> "ending", session |-> x.session, shown |-> x.shown, outcome |-> outcome]
           r1 == [request EXCEPT ![r].pc = "ending"]
<1>1. /\ request \in [Streams -> StreamRequest] /\ x \in StreamRequest
      /\ DOMAIN request = Streams /\ request = [s \in Streams |-> request[s]]
  BY DEF StreamTypeOK
<1>2. /\ x.session \in Nat /\ x.shown \in Seq(Nat) /\ x.outcome \in Outcomes
      /\ x = [pc |-> x.pc, session |-> x.session, shown |-> x.shown, outcome |-> x.outcome]
  BY <1>1, StreamParts
<1>3. q \in StreamRequest /\ e \in StreamRequest
  BY <1>2 DEF StreamRequest, HandlerPcs
<1>4. ASSUME HandlerGoes(r, pc) PROVE request' = [request EXCEPT ![r] = q]
  <2>1. [x EXCEPT !.pc = pc] = q
    BY <1>2
  <2>2. request' = [request EXCEPT ![r] = [x EXCEPT !.pc = pc]]
    BY <1>1, <1>4 DEF HandlerGoes
  <2> QED BY <2>1, <2>2
<1>5. ASSUME HandlerEnds(r, outcome) PROVE request' = [request EXCEPT ![r] = e]
  <2>1. request' = [r1 EXCEPT ![r].outcome = outcome]
    BY <1>5 DEF HandlerEnds
  <2>2. DOMAIN r1 = Streams /\ \A s \in Streams : s # r => r1[s] = request[s]
    BY <1>1
  <2>3. r1[r] = [pc |-> "ending", session |-> x.session, shown |-> x.shown, outcome |-> x.outcome]
    BY <1>1, <1>2
  <2> HIDE DEF r1
  <2>4. request'[r] = e /\ \A s \in Streams : s # r => request'[s] = request[s]
    BY <2>1, <2>2, <2>3
  <2>5. DOMAIN request' = Streams /\ request' = [s \in Streams |-> request'[s]]
    BY <2>1, <2>2
  <2> HIDE DEF e
  <2> QED BY <1>1, <2>4, <2>5
<1>6. /\ q.pc = pc /\ q.session = x.session /\ q.shown = x.shown /\ q.outcome = x.outcome
      /\ e.pc = "ending" /\ e.session = x.session /\ e.shown = x.shown /\ e.outcome = outcome
  OBVIOUS
<1> HIDE DEF q, e
<1> QED BY <1>3, <1>4, <1>5, <1>6

\* A stream is forgotten and its channel is closed.
LEMMA StreamCloses ==
  ASSUME channel \in [Streams -> StreamChannel], NEW r \in Streams,
         channel' = [channel EXCEPT ![r].listed = FALSE, ![r].open = FALSE]
  PROVE  \E c \in StreamChannel : /\ channel' = [channel EXCEPT ![r] = c]
            /\ c.session = channel[r].session /\ c.buffer = channel[r].buffer
            /\ ~c.open /\ ~c.listed
<1> DEFINE x == channel[r]
           c == [session |-> x.session, listed |-> FALSE, open |-> FALSE, buffer |-> x.buffer]
           c1 == [channel EXCEPT ![r].listed = FALSE]
<1>1. channel' = [c1 EXCEPT ![r].open = FALSE]
  OBVIOUS
<1>2. /\ x.session \in Nat /\ x.buffer \in Seq(Nat)
      /\ x = [session |-> x.session, listed |-> x.listed, open |-> x.open, buffer |-> x.buffer]
      /\ DOMAIN channel = Streams /\ channel = [s \in Streams |-> channel[s]]
  BY StreamParts
<1>3. DOMAIN c1 = Streams /\ \A s \in Streams : s # r => c1[s] = channel[s]
  BY <1>2
<1>4. c1[r] = [session |-> x.session, listed |-> FALSE, open |-> x.open, buffer |-> x.buffer]
  BY <1>2
<1>5. c \in StreamChannel
  BY <1>2 DEF StreamChannel
<1>6. c.session = x.session /\ c.buffer = x.buffer /\ ~c.open /\ ~c.listed
  OBVIOUS
<1> HIDE DEF c1
<1>7. /\ DOMAIN channel' = Streams /\ channel' = [s \in Streams |-> channel'[s]]
      /\ \A s \in Streams : s # r => channel'[s] = channel[s]
  BY <1>1, <1>3
<1>8. channel'[r] = [c1[r] EXCEPT !.open = FALSE]
  BY <1>1, <1>3
<1>9. channel'[r] = c
  BY <1>4, <1>8
<1> HIDE DEF c
<1>10. channel' = [channel EXCEPT ![r] = c]
  BY <1>2, <1>7, <1>9
<1> QED BY <1>5, <1>6, <1>10

LEMMA StreamUntouched ==
  ASSUME StreamTypeOK, NEW r \in Streams
  PROVE  /\ request[r] \in StreamRequest /\ channel[r] \in StreamChannel /\ answer[r] \in StreamAnswer
         /\ channel = [channel EXCEPT ![r] = channel[r]]
         /\ answer = [answer EXCEPT ![r] = answer[r]]
BY DEF StreamTypeOK

LEMMA AskForHolds ==
  ASSUME StreamInv, NEW r \in Streams, AskFor(r)
  PROVE  StreamInv'
<1>1. StreamTypeOK /\ Tied(r)
  BY DEF StreamInv, ReadersTied
<1>2. /\ request[r].pc = "idle" /\ registered \in Sessions /\ registered \in Nat
      /\ UNCHANGED <<link, registered, readers, transit, channel, answer>>
      /\ request' = [request EXCEPT ![r].pc = "resolved", ![r].session = registered]
  BY <1>1 DEF AskFor, HandlerAt, StreamTypeOK
<1> DEFINE x == request[r]
           q == [pc |-> "resolved", session |-> registered, shown |-> x.shown, outcome |-> x.outcome]
           r1 == [request EXCEPT ![r].pc = "resolved"]
<1>3. /\ request \in [Streams -> StreamRequest] /\ x \in StreamRequest
      /\ DOMAIN request = Streams /\ request = [s \in Streams |-> request[s]]
  BY <1>1 DEF StreamTypeOK
<1>4. /\ x.session \in Nat /\ x.shown \in Seq(Nat) /\ x.outcome \in Outcomes
      /\ x = [pc |-> x.pc, session |-> x.session, shown |-> x.shown, outcome |-> x.outcome]
  BY <1>3, StreamParts
<1>5. q \in StreamRequest
  BY <1>2, <1>4 DEF StreamRequest, HandlerPcs
<1>6. request' = [request EXCEPT ![r] = q]
  <2>1. request' = [r1 EXCEPT ![r].session = registered]
    BY <1>2
  <2>2. DOMAIN r1 = Streams /\ \A s \in Streams : s # r => r1[s] = request[s]
    BY <1>3
  <2>3. r1[r] = [pc |-> "resolved", session |-> x.session, shown |-> x.shown, outcome |-> x.outcome]
    BY <1>3, <1>4
  <2> HIDE DEF r1
  <2>4. request'[r] = q /\ \A s \in Streams : s # r => request'[s] = request[s]
    BY <2>1, <2>2, <2>3
  <2>5. DOMAIN request' = Streams /\ request' = [s \in Streams |-> request'[s]]
    BY <2>1, <2>2
  <2> HIDE DEF q
  <2> QED BY <1>3, <2>4, <2>5
<1>7. request'[r].pc = "resolved" /\ request'[r].session = registered
      /\ request'[r].shown = x.shown /\ request'[r].outcome = x.outcome
  BY <1>3, <1>6
<1>8. Tied(r)'
  BY <1>1, <1>2, <1>7 DEF Tied, Unsent
<1>9. r \in Shells => Shown(r)' /\ Flows(r)'
  BY <1>7, Undisturbed DEF Relaying
<1>10. PICK y \in StreamRequest : y = q
  BY <1>5
<1> HIDE DEF q
<1>11. request' = [request EXCEPT ![r] = y]
  BY <1>6, <1>10
<1>12. /\ channel[r] \in StreamChannel /\ answer[r] \in StreamAnswer
       /\ channel' = [channel EXCEPT ![r] = channel[r]]
       /\ answer' = [answer EXCEPT ![r] = answer[r]]
  BY <1>1, <1>2, StreamUntouched
<1> QED BY <1>2, <1>8, <1>9, <1>11, <1>12, OthersStay

\* Leave, Cancel and CloseStream: nothing more is shown.
LEMMA EndingHolds ==
  ASSUME StreamInv, NEW r \in Streams, Leave(r) \/ Cancel(r) \/ CloseStream(r)
  PROVE  StreamInv'
<1>1. StreamTypeOK /\ Tied(r)
  BY DEF StreamInv, ReadersTied
<1>2. /\ request[r] \in StreamRequest /\ channel[r] \in StreamChannel /\ answer[r] \in StreamAnswer
      /\ channel = [channel EXCEPT ![r] = channel[r]]
      /\ answer = [answer EXCEPT ![r] = answer[r]]
      /\ request \in [Streams -> StreamRequest] /\ channel \in [Streams -> StreamChannel]
      /\ answer \in [Streams -> StreamAnswer]
  BY <1>1, StreamUntouched DEF StreamTypeOK
<1>3. UNCHANGED <<link, registered, readers, transit>>
  BY DEF Leave, Cancel, CloseStream
<1>4. ASSUME NEW q \in StreamRequest, NEW c \in StreamChannel, NEW a \in StreamAnswer,
             request' = [request EXCEPT ![r] = q], channel' = [channel EXCEPT ![r] = c],
             answer' = [answer EXCEPT ![r] = a],
             request[r].pc \in {"relaying", "ending", "closing"},
             q.pc \in {"ending", "closing", "done"}, q.session = request[r].session,
             q.shown = request[r].shown, q.outcome \in {request[r].outcome, "left"},
             c.session = channel[r].session, a.on = answer[r].on,
             r \in Shells /\ c.open => c.listed
      PROVE  StreamInv'
  <2>1. request'[r] = q /\ channel'[r] = c /\ answer'[r] = a
    BY <1>2, <1>4
  <2>2. Tied(r)'
    BY <1>1, <1>4, <2>1 DEF Tied, Unsent
  <2>3. r \in Shells => Shown(r)' /\ Flows(r)'
    BY <1>4, <2>1, Undisturbed DEF Relaying
  <2> QED BY <1>3, <1>4, <2>2, <2>3, OthersStay
<1>5. CASE Leave(r)
  <2>1. /\ request[r].pc = "relaying" /\ HandlerEnds(r, "left") /\ UNCHANGED <<channel, answer>>
    BY <1>5 DEF Leave, HandlerAt
  <2>2. PICK q \in StreamRequest : /\ request' = [request EXCEPT ![r] = q]
                 /\ q.pc = "ending" /\ q.session = request[r].session /\ q.shown = request[r].shown
                 /\ q.outcome = "left"
    <3>1. "left" \in Outcomes /\ "ending" \in HandlerPcs
      BY DEF Outcomes, HandlerPcs
    <3> QED BY <1>1, <2>1, <3>1, HandlerEffects
  <2>3. r \in Shells /\ channel[r].open => channel[r].listed
    BY <1>1 DEF Tied
  <2> QED BY <1>2, <1>4, <2>1, <2>2, <2>3
<1>6. CASE Cancel(r)
  <2>1. request[r].pc = "ending" /\ HandlerGoes(r, "closing") /\ UNCHANGED channel
    BY <1>6 DEF Cancel, HandlerAt
  <2>2. PICK q \in StreamRequest : /\ request' = [request EXCEPT ![r] = q]
                 /\ q.pc = "closing" /\ q.session = request[r].session /\ q.shown = request[r].shown
                 /\ q.outcome = request[r].outcome
    <3>1. "left" \in Outcomes /\ "closing" \in HandlerPcs
      BY DEF Outcomes, HandlerPcs
    <3> QED BY <1>1, <2>1, <3>1, HandlerEffects
  <2>3. PICK a \in StreamAnswer : answer' = [answer EXCEPT ![r] = a] /\ a.on = answer[r].on
    <3>1. CASE UNCHANGED answer
      BY <1>2, <3>1
    <3>2. CASE answer' = [answer EXCEPT ![r].next = Length(r) + 1]
      <4> DEFINE a == [answer[r] EXCEPT !.next = Length(r) + 1]
      <4>1. Length(r) + 1 \in Nat
        BY StreamNumbers
      <4>2. a \in StreamAnswer /\ a.on = answer[r].on
        BY <1>2, <4>1 DEF StreamAnswer
      <4>3. answer' = [answer EXCEPT ![r] = a]
        BY <1>2, <3>2
      <4> HIDE DEF a
      <4> QED BY <4>2, <4>3
    <3> QED BY <1>6, <3>1, <3>2 DEF Cancel
  <2>4. r \in Shells /\ channel[r].open => channel[r].listed
    BY <1>1 DEF Tied
  <2> QED BY <1>2, <1>4, <2>1, <2>2, <2>3, <2>4
<1>7. CASE CloseStream(r)
  <2>1. request[r].pc = "closing" /\ HandlerGoes(r, "done") /\ UNCHANGED answer
    BY <1>7 DEF CloseStream, HandlerAt
  <2>2. PICK q \in StreamRequest : /\ request' = [request EXCEPT ![r] = q]
                 /\ q.pc = "done" /\ q.session = request[r].session /\ q.shown = request[r].shown
                 /\ q.outcome = request[r].outcome
    <3>1. "left" \in Outcomes /\ "done" \in HandlerPcs
      BY DEF Outcomes, HandlerPcs
    <3> QED BY <1>1, <2>1, <3>1, HandlerEffects
  <2>3. PICK c \in StreamChannel : /\ channel' = [channel EXCEPT ![r] = c]
                                   /\ c.session = channel[r].session
                                   /\ r \in Shells /\ c.open => c.listed
    <3>1. CASE ~channel[r].listed
      <4>1. UNCHANGED channel
        BY <1>7, <3>1 DEF CloseStream
      <4>2. r \in Shells /\ channel[r].open => channel[r].listed
        BY <1>1 DEF Tied
      <4> QED BY <1>2, <4>1, <4>2
    <3>2. CASE channel[r].listed
      <4>1. CASE r \in Shells
        BY <1>2, <1>7, <3>2, <4>1, StreamCloses DEF CloseStream
      <4>2. CASE r \notin Shells
        <5> DEFINE c == [channel[r] EXCEPT !.listed = FALSE]
        <5>1. channel' = [channel EXCEPT ![r] = c]
          BY <1>2, <1>7, <3>2, <4>2 DEF CloseStream
        <5>2. c \in StreamChannel /\ c.session = channel[r].session
          BY <1>2 DEF StreamChannel
        <5> HIDE DEF c
        <5> QED BY <4>2, <5>1, <5>2
      <4> QED BY <4>1, <4>2
    <3> QED BY <3>1, <3>2
  <2> QED BY <1>2, <1>4, <2>1, <2>2, <2>3
<1> QED BY <1>5, <1>6, <1>7

\* What flows to a shell after a step.
LEMMA FlowsAfter ==
  ASSUME NEW r \in Shells, NEW a, NEW k, NEW q, NEW n,
         Ordered(channel'[r].buffer, k, r),
         channel'[r].open => Follows(a, r, k, q, n),
         channel'[r].open => Arrived(r)' = a,
         k = Len(request'[r].shown), q = transit'[channel'[r].session], n = answer'[r].next
  PROVE  Flows(r)'
<1>1. Ordered(channel[r].buffer, Len(request[r].shown), r)'
  BY DEF Ordered, Length
<1>2. ASSUME channel'[r].open
      PROVE  Follows(Arrived(r), r, Len(request[r].shown), transit[channel[r].session], answer[r].next)'
  BY <1>2 DEF Follows, Ordered, Continues, Length
<1> QED BY <1>1, <1>2 DEF Flows

\* The reader holds nothing for a request that has not been sent.
LEMMA NothingForUnsent ==
  ASSUME ReadersTied, NEW r \in Streams, answer[r].on = 0, NEW n \in Sessions
  PROVE  /\ ~(ReaderAt(n, "delivering") /\ readers[n].request = r)
         /\ \A i \in 1 .. Len(transit[n]) : transit[n][i].request # r
<1>1. n # 0
  BY DEF Sessions
<1> QED BY <1>1 DEF ReadersTied

LEMMA OpenStreamHolds ==
  ASSUME StreamInv, NEW r \in Streams, OpenStream(r)
  PROVE  StreamInv'
<1>1. StreamTypeOK /\ ReadersTied /\ Tied(r)
  BY DEF StreamInv, ReadersTied
<1>2. /\ request[r] \in StreamRequest /\ channel[r] \in StreamChannel /\ answer[r] \in StreamAnswer
      /\ answer = [answer EXCEPT ![r] = answer[r]]
      /\ request \in [Streams -> StreamRequest] /\ channel \in [Streams -> StreamChannel]
  BY <1>1, StreamUntouched DEF StreamTypeOK
<1>3. /\ request[r].pc = "resolved" /\ HandlerGoes(r, "opened")
      /\ UNCHANGED <<link, registered, readers, transit, answer>>
      /\ channel' = [channel EXCEPT ![r] = [session |-> request[r].session, listed |-> TRUE,
                                            open |-> TRUE, buffer |-> <<>>]]
  BY DEF OpenStream, HandlerAt
<1>4. PICK q \in StreamRequest : /\ request' = [request EXCEPT ![r] = q]
               /\ q.pc = "opened" /\ q.session = request[r].session /\ q.shown = request[r].shown
               /\ q.outcome = request[r].outcome
  <2>1. "left" \in Outcomes /\ "opened" \in HandlerPcs
    BY DEF Outcomes, HandlerPcs
  <2> QED BY <1>1, <1>3, <2>1, HandlerEffects
<1>5. PICK c \in StreamChannel : /\ channel' = [channel EXCEPT ![r] = c]
               /\ c.session = request[r].session /\ c.listed /\ c.open /\ c.buffer = <<>>
  <2> DEFINE c == [session |-> request[r].session, listed |-> TRUE, open |-> TRUE, buffer |-> <<>>]
  <2>1. request[r].session \in Nat
    BY <1>2, StreamParts
  <2>2. c \in StreamChannel
    BY <2>1 DEF StreamChannel
  <2> QED BY <1>3, <2>2
<1>6. request'[r] = q /\ channel'[r] = c
  BY <1>2, <1>4, <1>5
<1>7. /\ answer[r].on = 0 /\ answer[r].next = 1 /\ request[r].shown = <<>>
      /\ request[r].outcome = "none" /\ request[r].session \in Sessions
  BY <1>1, <1>3 DEF Tied, Unsent
<1>8. Tied(r)'
  BY <1>3, <1>4, <1>5, <1>6, <1>7 DEF Tied, Unsent
<1>9. ASSUME r \in Shells PROVE Shown(r)' /\ Flows(r)'
  <2>1. Shown(r)'
    BY <1>4, <1>6, <1>7 DEF Shown
  <2>2. Arrived(r)' = <<>>
    <3>1. InHand(r)' = <<>>
      BY <1>1, <1>3, <1>5, <1>6, <1>7, NothingForUnsent DEF InHand, ReaderAt
    <3> QED BY <1>5, <1>6, <3>1 DEF Arrived
  <2>3. Continues(transit[c.session], r, 0, 1)
    BY <1>1, <1>5, <1>7, NothingForUnsent DEF Continues
  <2>4. Follows(<<>>, r, 0, transit[c.session], 1)
    BY <2>3 DEF Follows, Ordered
  <2>5. Ordered(c.buffer, 0, r)
    BY <1>5 DEF Ordered
  <2>6. /\ 0 = Len(request'[r].shown) /\ transit[c.session] = transit'[channel'[r].session]
        /\ 1 = answer'[r].next
    BY <1>3, <1>4, <1>6, <1>7
  <2>7. Flows(r)'
    BY <1>6, <1>9, <2>2, <2>4, <2>5, <2>6, FlowsAfter
  <2> QED BY <2>1, <2>7
<1> QED BY <1>2, <1>3, <1>4, <1>5, <1>8, <1>9, OthersStay

LEMMA SendRequestHolds ==
  ASSUME StreamInv, NEW r \in Streams, SendRequest(r)
  PROVE  StreamInv'
<1>1. StreamTypeOK /\ Tied(r)
  BY DEF StreamInv, ReadersTied
<1>2. /\ request[r] \in StreamRequest /\ channel[r] \in StreamChannel /\ answer[r] \in StreamAnswer
      /\ answer = [answer EXCEPT ![r] = answer[r]] /\ channel = [channel EXCEPT ![r] = channel[r]]
      /\ request \in [Streams -> StreamRequest] /\ answer \in [Streams -> StreamAnswer]
  BY <1>1, StreamUntouched DEF StreamTypeOK
<1>3. /\ request[r].pc = "opened" /\ UNCHANGED <<link, registered, readers, transit, channel>>
      /\ HandlerGoes(r, "relaying") \/ HandlerEnds(r, "offline")
      /\ \/ UNCHANGED answer
         \/ HandlerGoes(r, "relaying") /\ answer' = [answer EXCEPT ![r].on = request[r].session]
  BY DEF SendRequest, HandlerAt
<1>4. PICK q \in StreamRequest : /\ request' = [request EXCEPT ![r] = q]
               /\ q.session = request[r].session /\ q.shown = request[r].shown
               /\ \/ q.pc = "relaying" /\ q.outcome = request[r].outcome
                  \/ q.pc = "ending" /\ q.outcome = "offline"
  <2>1. "offline" \in Outcomes /\ "relaying" \in HandlerPcs
    BY DEF Outcomes, HandlerPcs
  <2>2. CASE HandlerGoes(r, "relaying")
    BY <1>1, <2>1, <2>2, HandlerEffects
  <2>3. CASE HandlerEnds(r, "offline")
    BY <1>1, <2>1, <2>3, HandlerEffects
  <2> QED BY <1>3, <2>2, <2>3
<1>5. /\ answer[r].on = 0 /\ answer[r].next = 1 /\ request[r].shown = <<>>
      /\ request[r].outcome = "none" /\ request[r].session \in Sessions
      /\ channel[r].session = request[r].session /\ (r \in Shells /\ channel[r].open => channel[r].listed)
  BY <1>1, <1>3 DEF Tied, Unsent
<1>6. PICK a \in StreamAnswer : /\ answer' = [answer EXCEPT ![r] = a] /\ a.next = answer[r].next
                                /\ a.on = answer[r].on \/ a.on = request[r].session
  <2>1. CASE UNCHANGED answer
    BY <1>2, <2>1
  <2>2. CASE answer' = [answer EXCEPT ![r].on = request[r].session]
    <3> DEFINE a == [answer[r] EXCEPT !.on = request[r].session]
    <3>1. request[r].session \in Nat
      BY <1>2, StreamParts
    <3>2. a \in StreamAnswer /\ a.next = answer[r].next /\ a.on = request[r].session
      BY <1>2, <3>1 DEF StreamAnswer
    <3>3. answer' = [answer EXCEPT ![r] = a]
      BY <1>2, <2>2
    <3> HIDE DEF a
    <3> QED BY <3>2, <3>3
  <2> QED BY <1>3, <2>1, <2>2
<1>7. request'[r] = q /\ channel'[r] = channel[r] /\ answer'[r] = a
  BY <1>2, <1>3, <1>4, <1>6
<1>8. Tied(r)'
  BY <1>4, <1>5, <1>6, <1>7 DEF Tied, Unsent
<1>9. ASSUME r \in Shells PROVE Shown(r)' /\ Flows(r)'
  <2>1. InHand(r)' = InHand(r)
    BY <1>3, <1>7, HandSame
  <2>2. Relaying(r)
    BY <1>3 DEF Relaying
  <2> QED BY <1>3, <1>4, <1>5, <1>6, <1>7, <1>9, <2>1, <2>2, Undisturbed
<1> QED BY <1>2, <1>3, <1>4, <1>5, <1>6, <1>8, <1>9, OthersStay

\* The first of what has arrived is shown.
LEMMA FollowsTail ==
  ASSUME NEW a \in Seq(Nat), a # <<>>, a[1] # 0, NEW r \in Streams, NEW k \in Nat, NEW q, NEW n,
         Follows(a, r, k, q, n)
  PROVE  a[1] = k + 1 /\ k + 1 <= Length(r) /\ Follows(Tail(a), r, k + 1, q, n)
<1> DEFINE t == Tail(a)
<1>1. /\ Len(a) \in Nat \ {0} /\ Len(t) = Len(a) - 1 /\ 1 \in 1 .. Len(a) /\ t \in Seq(Nat)
      /\ \A i \in 1 .. Len(t) : t[i] = a[i + 1] /\ i + 1 \in 1 .. Len(a)
      /\ \A i \in 1 .. Len(a) : a[i] \in Nat
  OBVIOUS
<1>2. Length(r) \in Nat
  BY StreamNumbers
<1> HIDE DEF t
<1>3. a[1] = k + 1 /\ k + 1 <= Length(r)
  BY <1>1 DEF Follows, Ordered
<1>4. Ordered(t, k + 1, r)
  <2>1. ASSUME NEW i \in 1 .. Len(t)
        PROVE  \/ t[i] = 0 /\ i = Len(t)
               \/ t[i] = (k + 1) + i /\ t[i] <= Length(r)
    <3>1. \/ a[i + 1] = 0 /\ i + 1 = Len(a)
          \/ a[i + 1] = k + (i + 1) /\ a[i + 1] <= Length(r)
      BY <1>1 DEF Follows, Ordered
    <3> QED BY <1>1, <3>1
  <2> QED BY <2>1 DEF Ordered
<1>5. CASE Len(a) = 1
  <2>1. t = <<>> /\ k + Len(a) = (k + 1) + Len(t)
    BY <1>1, <1>5
  <2>2. Continues(q, r, k + Len(a), n)
    BY <1>5 DEF Follows
  <2> QED BY <1>3, <1>4, <2>1, <2>2 DEF Follows, t
<1>6. CASE Len(a) # 1
  <2>1. t # <<>> /\ t[Len(t)] = a[Len(a)] /\ k + Len(a) = (k + 1) + Len(t)
    BY <1>1, <1>6
  <2>2. Follows(t, r, k + 1, q, n)
    BY <1>4, <2>1 DEF Follows
  <2> QED BY <1>3, <2>2 DEF t
<1> QED BY <1>5, <1>6

\* A message is taken off the connection, for r or for another request.
LEMMA FollowsAppend ==
  ASSUME NEW a \in Seq(Nat), NEW q \in Seq(StreamMessage), q # <<>>, NEW r \in Streams,
         NEW k \in Nat, NEW n \in Nat, Follows(a, r, k, q, n)
  PROVE  /\ Head(q).request # r => Follows(a, r, k, Tail(q), n)
         /\ Head(q).request = r => Follows(Append(a, Head(q).chunk), r, k, Tail(q), n)
<1> DEFINE t == Tail(q)
           chunk == Head(q).chunk
           b == Append(a, chunk)
<1>1. /\ Len(q) \in Nat \ {0} /\ Len(t) = Len(q) - 1 /\ Head(q) = q[1] /\ Head(q) \in StreamMessage
      /\ \A i \in 1 .. Len(t) : t[i] = q[i + 1] /\ i + 1 \in 1 .. Len(q)
      /\ 1 \in 1 .. Len(q)
  OBVIOUS
<1>2. chunk \in Nat
  BY <1>1, StreamParts
<1>3. Len(a) \in Nat /\ k + Len(a) \in Nat /\ (a # <<>> => Len(a) \in 1 .. Len(a))
      /\ (a = <<>> => Len(a) = 0)
  OBVIOUS
<1>4. CASE a # <<>> /\ a[Len(a)] = 0
  <2>1. n > Length(r) /\ \A i \in 1 .. Len(q) : q[i].request # r
    BY <1>4 DEF Follows
  <2>2. Head(q).request # r /\ \A i \in 1 .. Len(t) : t[i].request # r
    BY <1>1, <2>1
  <2> HIDE DEF t
  <2>3. Follows(a, r, k, t, n)
    BY <1>4, <2>1, <2>2 DEF Follows
  <2> QED BY <2>2, <2>3 DEF t
<1>5. CASE ~(a # <<>> /\ a[Len(a)] = 0)
  <2>1. Continues(q, r, k + Len(a), n) /\ Ordered(a, k, r)
    BY <1>5 DEF Follows
  <2>2. ASSUME Head(q).request # r PROVE Follows(a, r, k, Tail(q), n)
    <3>1. Continues(Tail(q), r, k + Len(a), n)
      BY <1>3, <2>1, <2>2, TailContinues
    <3> QED BY <1>5, <2>1, <3>1 DEF Follows
  <2>3. ASSUME Head(q).request = r PROVE Follows(b, r, k, t, n)
    <3>1. \/ /\ chunk = 0 /\ n > Length(r)
             /\ \A i \in 1 .. Len(t) : t[i].request # r
          \/ /\ chunk = k + Len(a) + 1 /\ k + Len(a) + 1 <= Length(r)
             /\ Continues(t, r, k + Len(a) + 1, n)
      BY <1>3, <2>1, <2>3, TailContinues
    <3>2. /\ Len(b) = Len(a) + 1 /\ b[Len(a) + 1] = chunk /\ b # <<>>
          /\ \A i \in 1 .. Len(b) : i = Len(a) + 1 \/ (i \in 1 .. Len(a) /\ b[i] = a[i])
      BY <1>2
    <3> HIDE DEF b, t, chunk
    <3>3. Ordered(b, k, r)
      <4>1. ASSUME NEW i \in 1 .. Len(b)
            PROVE  \/ b[i] = 0 /\ i = Len(b)
                   \/ b[i] = k + i /\ b[i] <= Length(r)
        <5>1. CASE i = Len(a) + 1
          BY <1>3, <3>1, <3>2, <5>1
        <5>2. CASE i # Len(a) + 1
          <6>1. i \in 1 .. Len(a) /\ b[i] = a[i]
            BY <3>2, <5>2
          <6>2. a # <<>>
            BY <6>1
          <6> QED BY <1>5, <2>1, <6>1, <6>2 DEF Ordered
        <5> QED BY <5>1, <5>2
      <4> QED BY <4>1 DEF Ordered
    <3>4. CASE chunk = 0
      <4>1. n > Length(r) /\ \A i \in 1 .. Len(t) : t[i].request # r
        BY <1>3, <3>1, <3>4
      <4> QED BY <3>2, <3>3, <3>4, <4>1 DEF Follows
    <3>5. CASE chunk # 0
      <4>1. Continues(t, r, k + Len(b), n)
        <5>1. k + Len(a) + 1 = k + Len(b)
          BY <1>3, <3>2
        <5> QED BY <3>1, <3>5, <5>1
      <4>2. b[Len(b)] # 0
        BY <3>2, <3>5
      <4> QED BY <3>2, <3>3, <4>1, <4>2 DEF Follows
    <3> QED BY <3>4, <3>5
  <2> QED BY <2>2, <2>3
<1> QED BY <1>4, <1>5

\* What has arrived for a shell is a sequence of chunks.
LEMMA ArrivedTypes ==
  ASSUME StreamTypeOK, NEW r \in Streams, channel[r].session \in Sessions
  PROVE  InHand(r) \in Seq(Nat) /\ channel[r].buffer \in Seq(Nat) /\ Arrived(r) \in Seq(Nat)
         /\ (InHand(r) = <<>> => Arrived(r) = channel[r].buffer)
<1>1. channel[r].buffer \in Seq(Nat)
  BY StreamParts DEF StreamTypeOK
<1>2. InHand(r) \in Seq(Nat)
  <2> DEFINE n == channel[r].session
  <2>1. CASE ReaderAt(n, "delivering")
    <3>1. readers[n] \in StreamReader
      BY DEF StreamTypeOK
    <3>2. readers[n].chunk \in Nat
      BY <2>1, <3>1 DEF StreamReader, ReaderAt
    <3> QED BY <3>2 DEF InHand
  <2>2. CASE ~ReaderAt(n, "delivering")
    BY <2>2 DEF InHand
  <2> QED BY <2>1, <2>2
<1> HIDE DEF InHand
<1>3. channel[r].buffer \o InHand(r) \in Seq(Nat)
  BY <1>1, <1>2
<1>4. channel[r].buffer \o <<>> = channel[r].buffer
  BY <1>1
<1> QED BY <1>1, <1>2, <1>3, <1>4 DEF Arrived

LEMMA RelayHolds ==
  ASSUME StreamInv, NEW r \in Streams, Relay(r)
  PROVE  StreamInv'
<1>1. StreamTypeOK /\ ReadersTied /\ Tied(r)
  BY DEF StreamInv, ReadersTied
<1>2. /\ request[r] \in StreamRequest /\ channel[r] \in StreamChannel /\ answer[r] \in StreamAnswer
      /\ answer = [answer EXCEPT ![r] = answer[r]] /\ channel = [channel EXCEPT ![r] = channel[r]]
      /\ request \in [Streams -> StreamRequest] /\ channel \in [Streams -> StreamChannel]
      /\ answer \in [Streams -> StreamAnswer]
  BY <1>1, StreamUntouched DEF StreamTypeOK
<1>3. request[r].pc = "relaying" /\ UNCHANGED <<link, registered, readers, transit, answer>>
  BY DEF Relay, HandlerAt
<1>4. /\ request[r].session \in Sessions /\ channel[r].session = request[r].session
      /\ (r \in Shells /\ channel[r].open => channel[r].listed) /\ request[r].outcome = "none"
  BY <1>1, <1>3 DEF Tied
<1>5. CASE channel[r].buffer = <<>>
  <2>1. HandlerEnds(r, "unreachable") /\ UNCHANGED channel
    BY <1>5 DEF Relay
  <2>2. PICK q \in StreamRequest : /\ request' = [request EXCEPT ![r] = q]
                 /\ q.pc = "ending" /\ q.session = request[r].session /\ q.shown = request[r].shown
                 /\ q.outcome = "unreachable"
    <3>1. "unreachable" \in Outcomes /\ "ending" \in HandlerPcs
      BY DEF Outcomes, HandlerPcs
    <3> QED BY <1>1, <2>1, <3>1, HandlerEffects
  <2>3. request'[r] = q
    BY <1>2, <2>2
  <2>4. Tied(r)'
    BY <1>1, <1>3, <1>4, <2>1, <2>2, <2>3 DEF Tied, Unsent
  <2>5. r \in Shells => Shown(r)' /\ Flows(r)'
    BY <2>2, <2>3, Undisturbed DEF Relaying
  <2> QED BY <1>2, <1>3, <2>1, <2>2, <2>4, <2>5, OthersStay
<1>6. CASE channel[r].buffer # <<>>
  <2> DEFINE x == request[r]
             b == channel[r].buffer
             chunk == Head(b)
             shown == IF chunk = 0 THEN x.shown ELSE Append(x.shown, chunk)
             pc == IF chunk \in {0, Length(r)} THEN "ending" ELSE x.pc
             outcome == CASE chunk = Length(r) -> "complete"
                          [] chunk = 0      -> "failed"
                          [] OTHER          -> x.outcome
             r1 == [request EXCEPT ![r].shown = shown]
             r2 == [r1 EXCEPT ![r].pc = pc]
             q == [pc |-> pc, session |-> x.session, shown |-> shown, outcome |-> outcome]
  <2>1. /\ channel' = [channel EXCEPT ![r].buffer = Tail(@)]
        /\ request' = [r2 EXCEPT ![r].outcome = outcome]
    BY <1>6 DEF Relay
  <2>2. /\ x.session \in Nat /\ x.shown \in Seq(Nat) /\ x.outcome \in Outcomes /\ x.pc \in HandlerPcs
        /\ x = [pc |-> x.pc, session |-> x.session, shown |-> x.shown, outcome |-> x.outcome]
        /\ b \in Seq(Nat) /\ DOMAIN request = Streams /\ request = [s \in Streams |-> request[s]]
    BY <1>2, StreamParts
  <2>3. chunk \in Nat /\ chunk = b[1] /\ Tail(b) \in Seq(Nat) /\ Length(r) \in Nat \ {0}
    BY <1>6, <2>2, StreamNumbers
  <2>4. /\ chunk = 0 => shown = x.shown /\ pc = "ending" /\ outcome = "failed"
        /\ chunk # 0 => shown = Append(x.shown, chunk)
        /\ chunk = Length(r) => pc = "ending" /\ outcome = "complete"
        /\ chunk \notin {0, Length(r)} => pc = "relaying" /\ outcome = "none"
    BY <1>3, <1>4, <2>3
  <2>5. shown \in Seq(Nat) /\ pc \in HandlerPcs /\ outcome \in Outcomes
    <3>1. shown \in Seq(Nat)
      BY <2>2, <2>3
    <3>2. pc \in {"ending", "relaying"} /\ outcome \in {"complete", "failed", "none"}
      BY <2>4
    <3> QED BY <3>1, <3>2 DEF HandlerPcs, Outcomes
  <2> HIDE DEF shown, pc, outcome
  <2>6. request' = [request EXCEPT ![r] = q]
    <3>1. DOMAIN r1 = Streams /\ \A s \in Streams : s # r => r1[s] = request[s]
      BY <2>2
    <3>2. r1[r] = [pc |-> x.pc, session |-> x.session, shown |-> shown, outcome |-> x.outcome]
      BY <2>2
    <3> HIDE DEF r1
    <3>3. DOMAIN r2 = Streams /\ \A s \in Streams : s # r => r2[s] = request[s]
      BY <3>1
    <3>4. r2[r] = [pc |-> pc, session |-> x.session, shown |-> shown, outcome |-> x.outcome]
      BY <3>1, <3>2
    <3> HIDE DEF r2
    <3>5. request'[r] = q /\ \A s \in Streams : s # r => request'[s] = request[s]
      BY <2>1, <3>3, <3>4
    <3>6. DOMAIN request' = Streams /\ request' = [s \in Streams |-> request'[s]]
      BY <2>1, <3>3
    <3> HIDE DEF q
    <3> QED BY <2>2, <3>5, <3>6
  <2>7. q \in StreamRequest
    BY <2>2, <2>5 DEF StreamRequest
  <2>8. PICK c \in StreamChannel : /\ channel' = [channel EXCEPT ![r] = c] /\ c.session = channel[r].session
                                   /\ c.listed = channel[r].listed /\ c.open = channel[r].open
                                   /\ c.buffer = Tail(b)
    <3> DEFINE c == [channel[r] EXCEPT !.buffer = Tail(b)]
    <3>1. channel' = [channel EXCEPT ![r] = c]
      BY <1>2, <2>1
    <3>2. /\ c \in StreamChannel /\ c.session = channel[r].session
          /\ c.listed = channel[r].listed /\ c.open = channel[r].open /\ c.buffer = Tail(b)
      BY <1>2, <2>3 DEF StreamChannel
    <3> HIDE DEF c
    <3> QED BY <3>1, <3>2
  <2>9. request'[r] = q /\ channel'[r] = c
    BY <1>2, <2>6, <2>8
  <2>10. q.pc = pc /\ q.session = x.session /\ q.shown = shown /\ q.outcome = outcome
    OBVIOUS
  <2>11. pc \in {"ending", "relaying"} /\ (pc = "relaying" => outcome = "none")
    BY <2>3, <2>4
  <2> HIDE DEF q
  <2>12. Tied(r)'
    BY <1>1, <1>3, <1>4, <2>8, <2>9, <2>10, <2>11 DEF Tied, Unsent
  <2>13. ASSUME r \in Shells PROVE Shown(r)' /\ Flows(r)'
    <3>1. Shown(r) /\ Flows(r) /\ Relaying(r)
      BY <1>3, <2>13 DEF StreamInv, Relaying
    <3> DEFINE k == Len(x.shown)
    <3>2. k \in Nat /\ Ordered(b, k, r) /\ x.shown = [i \in 1 .. k |-> i]
      BY <2>2, <3>1 DEF Flows, Shown
    <3>3. CASE chunk = 0
      <4>1. Shown(r)'
        BY <2>4, <2>9, <2>10, <3>1, <3>3 DEF Shown
      <4> QED BY <2>4, <2>9, <2>10, <3>3, <4>1 DEF Flows, Relaying
    <3>4. CASE chunk # 0
      <4>1. chunk = k + 1 /\ k + 1 <= Length(r)
        <5>1. 1 \in 1 .. Len(b)
          BY <1>6, <2>2
        <5> QED BY <2>3, <3>2, <3>4, <5>1 DEF Ordered
      <4>2. shown = [i \in 1 .. Len(shown) |-> i] /\ Len(shown) = k + 1
        BY <2>2, <2>4, <3>2, <3>4, <4>1
      <4>3. Shown(r)'
        <5>1. outcome = "complete" => chunk = Length(r)
          BY <2>3, <2>4, <3>4
        <5>2. shown = [i \in 1 .. Len(shown) |-> i] /\ (outcome = "complete" => Len(shown) = Length(r))
          BY <4>1, <4>2, <5>1
        <5>3. request'[r].shown = shown /\ request'[r].outcome = outcome
          BY <2>9, <2>10
        <5> QED BY <5>2, <5>3 DEF Shown, Length
      <4>4. CASE chunk = Length(r)
        BY <2>4, <2>9, <2>10, <4>3, <4>4 DEF Flows, Relaying
      <4>5. CASE chunk # Length(r)
        <5>1. Ordered(Tail(b), k + 1, r)
          <6>1. ASSUME NEW i \in 1 .. Len(Tail(b))
                PROVE  \/ Tail(b)[i] = 0 /\ i = Len(Tail(b))
                       \/ Tail(b)[i] = (k + 1) + i /\ Tail(b)[i] <= Length(r)
            <7>1. /\ Tail(b)[i] = b[i + 1] /\ i + 1 \in 1 .. Len(b) /\ Len(Tail(b)) = Len(b) - 1
                  /\ Len(b) \in Nat /\ i \in Nat
              BY <1>6, <2>2
            <7>2. \/ b[i + 1] = 0 /\ i + 1 = Len(b)
                  \/ b[i + 1] = k + (i + 1) /\ b[i + 1] <= Length(r)
              BY <3>2, <7>1 DEF Ordered
            <7>3. \/ b[i + 1] = 0 /\ i = Len(b) - 1
                  \/ b[i + 1] = (k + 1) + i /\ b[i + 1] <= Length(r)
              <8> HIDE DEF b, k
              <8> QED BY <3>2, <7>1, <7>2
            <7> QED BY <7>1, <7>3
          <6> QED BY <6>1 DEF Ordered
        <5>2. InHand(r)' = InHand(r)
          BY <1>3, <2>8, <2>9, HandSame
        <5>3. InHand(r) \in Seq(Nat) /\ Arrived(r) \in Seq(Nat)
          BY <1>1, <1>4, ArrivedTypes
        <5> DEFINE a == Arrived(r)
                   hand == InHand(r)
        <5>4. Arrived(r)' = Tail(a) /\ a # <<>> /\ a[1] = chunk
          <6>1. a = b \o hand
            BY DEF Arrived
          <6>2. Arrived(r)' = Tail(b) \o hand
            BY <2>8, <2>9, <5>2 DEF Arrived
          <6> HIDE DEF hand, b
          <6>3. Tail(b \o hand) = Tail(b) \o hand /\ b \o hand # <<>> /\ (b \o hand)[1] = b[1]
            <7>1. hand \in Seq(Nat)
              BY <5>3 DEF hand
            <7>2. b \in Seq(Nat) /\ b # <<>>
              BY <1>6, <2>2 DEF b
            <7> QED BY <7>1, <7>2
          <6> QED BY <2>3, <6>1, <6>2, <6>3
        <5> DEFINE seq == transit[channel[r].session]
                   next == answer[r].next
        <5>5. ASSUME channel'[r].open PROVE Follows(Tail(a), r, k + 1, seq, next)
          <6>1. Follows(a, r, k, seq, next)
            BY <2>8, <2>9, <3>1, <5>5 DEF Flows
          <6> HIDE DEF a, k, seq, next
          <6> QED BY <3>2, <3>4, <5>3, <5>4, <6>1, FollowsTail DEF a
        <5>6. /\ k + 1 = Len(request'[r].shown) /\ seq = transit'[channel'[r].session]
              /\ next = answer'[r].next /\ Ordered(channel'[r].buffer, k + 1, r)
          BY <1>3, <2>8, <2>9, <2>10, <4>2, <5>1
        <5> HIDE DEF a, k, seq, next
        <5>7. Flows(r)'
          BY <2>13, <5>4, <5>5, <5>6, FlowsAfter
        <5> QED BY <4>3, <5>7
      <4> QED BY <4>4, <4>5
    <3> QED BY <3>3, <3>4
  <2> QED BY <1>2, <1>3, <2>6, <2>7, <2>8, <2>12, <2>13, OthersStay
<1> QED BY <1>5, <1>6

LEMMA AnswerChunkHolds ==
  ASSUME StreamInv, NEW r \in Streams, AnswerChunk(r)
  PROVE  StreamInv'
<1>1. StreamTypeOK /\ ReadersTied /\ Tied(r)
  BY DEF StreamInv, ReadersTied
<1>2. PICK chunk \in {answer[r].next, 0} :
        /\ transit' = [transit EXCEPT ![link] = Append(@, [request |-> r, chunk |-> chunk])]
        /\ answer' = [answer EXCEPT ![r].next = IF chunk = 0 THEN Length(r) + 1 ELSE @ + 1]
  BY DEF AnswerChunk
<1>3. /\ link # 0 /\ answer[r].on = link /\ answer[r].next <= Length(r)
      /\ UNCHANGED <<link, registered, readers, channel, request>>
  BY DEF AnswerChunk
<1> DEFINE m == [request |-> r, chunk |-> chunk]
           next == answer[r].next
           after == IF chunk = 0 THEN Length(r) + 1 ELSE next + 1
           a == [answer[r] EXCEPT !.next = after]
<1>4. /\ transit \in [Sessions -> Seq(StreamMessage)] /\ answer \in [Streams -> StreamAnswer]
      /\ link \in Sessions /\ answer[r] \in StreamAnswer
  BY <1>1, <1>3 DEF StreamTypeOK
<1>5. next \in Nat /\ chunk \in Nat /\ Length(r) \in Nat \ {0}
  BY <1>4, StreamParts, StreamNumbers
<1>6. m \in StreamMessage /\ after \in Nat /\ m.request = r /\ m.chunk = chunk
  BY <1>5 DEF StreamMessage
<1>7. \/ after = next + 1 /\ chunk = next
      \/ after = Length(r) + 1 /\ chunk = 0
  BY <1>2, <1>5
<1>8. a \in StreamAnswer /\ a.on = answer[r].on /\ a.next = after
  BY <1>4, <1>6 DEF StreamAnswer
<1>9. answer' = [answer EXCEPT ![r] = a]
  BY <1>2, <1>4
<1>10. transit' = [transit EXCEPT ![link] = Append(transit[link], m)]
  BY <1>2, <1>4
<1> HIDE DEF m, after, a
<1>11. answer'[r] = a /\ \A s \in Streams : s # r => answer'[s] = answer[s]
  BY <1>4, <1>9
<1>12. /\ transit'[link] = Append(transit[link], m)
       /\ \A n \in Sessions : n # link => transit'[n] = transit[n]
       /\ transit[link] \in Seq(StreamMessage)
  BY <1>4, <1>10
<1>13. StreamTypeOK'
  <2>1. transit' \in [Sessions -> Seq(StreamMessage)]
    <3>1. Append(transit[link], m) \in Seq(StreamMessage)
      BY <1>6, <1>12
    <3> QED BY <1>4, <1>10, <3>1
  <2>2. answer' \in [Streams -> StreamAnswer]
    BY <1>4, <1>8, <1>9
  <2> QED BY <1>1, <1>3, <2>1, <2>2 DEF StreamTypeOK
<1>14. ~Unsent(r)
  BY <1>1, <1>3 DEF Tied
<1>15. \A s \in Streams : answer'[s].on = answer[s].on
  BY <1>8, <1>11
<1>16. ReadersTied'
  <2>1. ASSUME NEW s \in Streams PROVE Tied(s)'
    <3>1. CASE s = r
      BY <1>1, <1>3, <1>14, <1>15, <3>1 DEF Tied, Unsent
    <3>2. CASE s # r
      BY <1>1, <1>3, <1>11, <3>2 DEF ReadersTied, Tied, Unsent
    <3> QED BY <3>1, <3>2
  <2>2. ASSUME NEW n \in Sessions, NEW i \in 1 .. Len(transit'[n])
        PROVE  answer'[transit'[n][i].request].on = n
    <3>1. CASE n = link /\ i = Len(transit[link]) + 1
      <4>1. transit'[n][i] = m
        BY <1>6, <1>12, <3>1
      <4> QED BY <1>3, <1>6, <1>15, <3>1, <4>1
    <3>2. CASE ~(n = link /\ i = Len(transit[link]) + 1)
      <4>1. i \in 1 .. Len(transit[n]) /\ transit'[n][i] = transit[n][i]
        <5>1. CASE n = link
          BY <1>6, <1>12, <3>2, <5>1
        <5>2. CASE n # link
          BY <1>12, <5>2
        <5> QED BY <5>1, <5>2
      <4>2. transit[n] \in Seq(StreamMessage)
        BY <1>4
      <4>3. transit[n][i].request \in Streams
        BY <4>1, <4>2, StreamParts
      <4> QED BY <1>1, <1>15, <4>1, <4>3 DEF ReadersTied
    <3> QED BY <3>1, <3>2
  <2>3. ASSUME NEW n \in Sessions, readers[n].pc = "delivering"
        PROVE  answer'[readers[n].request].on = n
    <3>1. readers[n] \in StreamReader
      BY <1>1 DEF StreamTypeOK
    <3>2. readers[n].request \in Streams
      BY <2>3, <3>1 DEF StreamReader
    <3> QED BY <1>1, <1>15, <2>3, <3>2 DEF ReadersTied, ReaderAt
  <2> QED BY <1>3, <2>1, <2>2, <2>3 DEF ReadersTied, ReaderAt
<1>17. ASSUME NEW s \in Shells PROVE Shown(s)' /\ Flows(s)'
  <2>1. s \in Streams /\ Shown(s) /\ Flows(s) /\ Tied(s)
    BY <1>1 DEF Streams, StreamInv, ReadersTied
  <2>2. Shown(s)'
    BY <1>3, <2>1 DEF Shown
  <2>3. CASE ~Relaying(s) \/ ~channel[s].open
    <3>1. Relaying(s)' = Relaying(s) /\ UNCHANGED <<channel, request>>
      BY <1>3 DEF Relaying
    <3>2. ~(Relaying(s)' /\ channel'[s].open)
      BY <2>3, <3>1
    <3>3. Relaying(s)' => Ordered(channel'[s].buffer, Len(request'[s].shown), s)
      BY <2>1, <3>1 DEF Flows
    <3>4. Relaying(s)' => Ordered(channel[s].buffer, Len(request[s].shown), s)'
      BY <3>3 DEF Ordered, Length
    <3>5. Flows(s)'
      BY <3>2, <3>4 DEF Flows
    <3> QED BY <2>2, <3>5
  <2>4. CASE Relaying(s) /\ channel[s].open
    <3> DEFINE w == channel[s].session
               arrived == Arrived(s)
               k == Len(request[s].shown)
               q == transit[w]
               goes == answer[s].next
               Q == transit'[w]
               G == answer'[s].next
    <3>1. Follows(arrived, s, k, q, goes) /\ Ordered(channel[s].buffer, k, s)
      BY <2>1, <2>4 DEF Flows
    <3>2. w = request[s].session /\ w \in Sessions
      BY <2>1, <2>4 DEF Tied, Relaying
    <3>3. s = r => w = link
      BY <1>1, <1>3, <3>2 DEF Tied
    <3>4. arrived \in Seq(Nat) /\ k \in Nat /\ goes \in Nat /\ G \in Nat
      <4>1. arrived \in Seq(Nat)
        BY <1>1, <2>1, <3>2, ArrivedTypes
      <4>2. request[s] \in StreamRequest /\ answer[s] \in StreamAnswer /\ answer'[s] \in StreamAnswer
        BY <1>1, <1>13, <2>1 DEF StreamTypeOK
      <4>3. k \in Nat /\ goes \in Nat /\ G \in Nat
        BY <4>2, StreamParts
      <4> QED BY <4>1, <4>3
    <3>5. /\ w # link => Q = q
          /\ w = link => Q = Append(q, m) /\ q \in Seq(StreamMessage)
          /\ s # r => G = goes
          /\ s = r => G = after /\ goes = next
      BY <1>8, <1>11, <1>12, <2>1, <3>2
    <3>6. Arrived(s)' = arrived /\ k = Len(request'[s].shown) /\ w = channel'[s].session
      BY <1>3 DEF Arrived, InHand, ReaderAt
    <3>7. Ordered(channel'[s].buffer, k, s)
      BY <1>3, <3>1
    <3> HIDE DEF w, arrived, k, q, goes, Q, G, next
    <3>8. Follows(arrived, s, k, Q, G)
      <4>1. CASE w # link
        BY <3>1, <3>3, <3>5, <4>1
      <4>2. CASE w = link /\ arrived # <<>> /\ arrived[Len(arrived)] = 0
        <5>1. goes > Length(s) /\ \A i \in 1 .. Len(q) : q[i].request # s
          BY <3>1, <4>2 DEF Follows
        <5>2. s # r
          <6>1. Length(s) \in Nat
            BY <2>1, StreamNumbers
          <6> QED BY <1>3, <3>4, <3>5, <5>1, <6>1 DEF next
        <5>3. \A i \in 1 .. Len(Q) : Q[i].request # s
          BY <1>6, <3>5, <4>2, <5>1, <5>2
        <5> QED BY <3>1, <3>5, <4>2, <5>1, <5>2, <5>3 DEF Follows
      <4>3. CASE w = link /\ ~(arrived # <<>> /\ arrived[Len(arrived)] = 0)
        <5>1. Continues(q, s, k + Len(arrived), goes) /\ Ordered(arrived, k, s)
          BY <3>1, <4>3 DEF Follows
        <5>2. k + Len(arrived) \in Nat
          BY <3>4
        <5>3. s = r => k + Len(arrived) < goes
          BY <1>3, <3>5, <5>1 DEF Continues, next
        <5>4. s = r => goes <= Length(s) /\ goes # 0
          BY <1>3, <3>4, <3>5, <5>2, <5>3 DEF next
        <5>5. Continues(Append(q, m), s, k + Len(arrived), G)
          <6>1. CASE s = r
            BY <1>6, <1>7, <2>1, <3>4, <3>5, <4>3, <5>1, <5>2, <5>4, <6>1, AppendContinues
          <6>2. CASE s # r
            BY <1>6, <2>1, <3>4, <3>5, <4>3, <5>1, <5>2, <6>2, AppendContinues
          <6> QED BY <6>1, <6>2
        <5> QED BY <3>5, <4>3, <5>1, <5>5 DEF Follows
      <4> QED BY <4>1, <4>2, <4>3
    <3>9. Q = transit'[channel'[s].session] /\ G = answer'[s].next
      BY <1>3 DEF Q, G, w
    <3>10. Flows(s)'
      BY <3>6, <3>7, <3>8, <3>9, FlowsAfter
    <3> QED BY <2>2, <3>10
  <2> QED BY <2>2, <2>3, <2>4
<1> QED BY <1>13, <1>16, <1>17 DEF StreamInv

LEMMA LookUpStreamHolds ==
  ASSUME StreamInv, NEW n \in Sessions, LookUpStream(n)
  PROVE  StreamInv'
<1> DEFINE m == Head(transit[n])
           new == [pc |-> "delivering", request |-> m.request, chunk |-> m.chunk]
<1>1. StreamTypeOK /\ ReadersTied
  BY DEF StreamInv
<1>2. /\ readers[n].pc = "recv" /\ transit[n] # <<>> /\ transit' = [transit EXCEPT ![n] = Tail(transit[n])]
      /\ UNCHANGED <<link, registered, channel, request, answer>>
      /\ readers \in [Sessions -> StreamReader] /\ transit \in [Sessions -> Seq(StreamMessage)]
  BY <1>1 DEF LookUpStream, ReaderAt, StreamTypeOK
<1>3. /\ channel[m.request].listed /\ channel[m.request].session = n =>
           readers' = [readers EXCEPT ![n] = new]
      /\ ~(channel[m.request].listed /\ channel[m.request].session = n) => readers' = readers
  BY DEF LookUpStream
<1>4. /\ transit[n] \in Seq(StreamMessage) /\ m \in StreamMessage /\ m.request \in Streams /\ m.chunk \in Nat
      /\ transit'[n] = Tail(transit[n]) /\ \A k \in Sessions : k # n => transit'[k] = transit[k]
      /\ answer[m.request].on = n
  <2>1. transit[n] \in Seq(StreamMessage)
    BY <1>2
  <2>2. m \in StreamMessage /\ m = transit[n][1] /\ 1 \in 1 .. Len(transit[n])
    BY <1>2, <2>1
  <2>3. answer[m.request].on = n
    BY <1>1, <2>2 DEF ReadersTied
  <2> QED BY <1>2, <2>1, <2>2, <2>3, StreamParts
<1>5. /\ new \in StreamReader /\ new.pc = "delivering" /\ new.request = m.request /\ new.chunk = m.chunk
  BY <1>4 DEF StreamReader
<1> HIDE DEF m, new
<1>6. /\ readers' \in [Sessions -> StreamReader] /\ \A k \in Sessions : k # n => readers'[k] = readers[k]
      /\ readers'[n] = IF channel[m.request].listed /\ channel[m.request].session = n
                         THEN new ELSE readers[n]
  BY <1>2, <1>3, <1>5
<1>7. StreamTypeOK'
  <2>1. transit' \in [Sessions -> Seq(StreamMessage)]
    <3>1. Tail(transit[n]) \in Seq(StreamMessage)
      BY <1>2, <1>4
    <3> QED BY <1>2, <3>1
  <2> QED BY <1>1, <1>2, <1>6, <2>1 DEF StreamTypeOK
<1>8. ReadersTied'
  <2>1. ASSUME NEW r \in Streams PROVE Tied(r)'
    BY <1>1, <1>2 DEF ReadersTied, Tied, Unsent
  <2>2. ASSUME NEW k \in Sessions, NEW i \in 1 .. Len(transit'[k])
        PROVE  answer[transit'[k][i].request].on = k
    <3>1. CASE k = n
      <4>1. i + 1 \in 1 .. Len(transit[n]) /\ transit'[k][i] = transit[n][i + 1]
        BY <1>2, <1>4, <3>1
      <4> QED BY <1>1, <3>1, <4>1 DEF ReadersTied
    <3>2. CASE k # n
      BY <1>1, <1>4, <3>2 DEF ReadersTied
    <3> QED BY <3>1, <3>2
  <2>3. ASSUME NEW k \in Sessions, readers'[k].pc = "delivering"
        PROVE  answer[readers'[k].request].on = k
    <3>1. CASE readers'[k] = readers[k]
      BY <1>1, <2>3, <3>1 DEF ReadersTied, ReaderAt
    <3>2. CASE readers'[k] # readers[k]
      BY <1>4, <1>5, <1>6, <3>2
    <3> QED BY <3>1, <3>2
  <2> QED BY <1>2, <2>1, <2>2, <2>3 DEF ReadersTied, ReaderAt
<1>9. ASSUME NEW s \in Shells PROVE Shown(s)' /\ Flows(s)'
  <2>1. s \in Streams /\ Shown(s) /\ Flows(s) /\ Tied(s)
    BY <1>1 DEF Streams, StreamInv, ReadersTied
  <2>2. CASE ~(Relaying(s) /\ channel[s].open /\ channel[s].session = n)
    <3>1. Relaying(s)' = Relaying(s)
      BY <1>2 DEF Relaying
    <3>2. ASSUME Relaying(s), channel[s].open
          PROVE  /\ InHand(s)' = InHand(s) /\ transit'[channel[s].session] = transit[channel[s].session]
      <4>1. channel[s].session \in Sessions /\ channel[s].session # n
        BY <2>1, <2>2, <3>2 DEF Tied, Relaying
      <4> QED BY <1>2, <1>4, <1>6, <2>1, <4>1, HandSame
    <3> QED BY <1>2, <3>1, <3>2, Undisturbed
  <2>3. CASE Relaying(s) /\ channel[s].open /\ channel[s].session = n
    <3> DEFINE arrived == Arrived(s)
               k == Len(request[s].shown)
               q == transit[n]
               goes == answer[s].next
    <3>1. Follows(arrived, s, k, q, goes) /\ Ordered(channel[s].buffer, k, s)
      BY <2>1, <2>3 DEF Flows
    <3>2. arrived \in Seq(Nat) /\ k \in Nat /\ goes \in Nat
      <4>1. arrived \in Seq(Nat)
        BY <1>1, <2>1, <2>3, ArrivedTypes
      <4>2. request[s] \in StreamRequest /\ answer[s] \in StreamAnswer
        BY <1>1, <2>1 DEF StreamTypeOK
      <4>3. k \in Nat /\ goes \in Nat
        BY <4>2, StreamParts
      <4> QED BY <4>1, <4>3
    <3>3. InHand(s) = <<>> /\ arrived = channel[s].buffer
      <4>1. InHand(s) = <<>>
        BY <1>2, <2>3 DEF InHand, ReaderAt
      <4> QED BY <1>1, <2>1, <2>3, <4>1, ArrivedTypes
    <3>4. channel[s].listed
      BY <2>1, <2>3 DEF Tied
    <3>5. Shown(s)'
      BY <1>2, <2>1 DEF Shown
    <3>6. /\ k = Len(request'[s].shown) /\ goes = answer'[s].next /\ Tail(q) = transit'[channel'[s].session]
          /\ Ordered(channel'[s].buffer, k, s)
      BY <1>2, <1>4, <2>3, <3>1
    <3>7. CASE m.request = s
      <4>1. InHand(s)' = <<m.chunk>>
        BY <1>2, <1>5, <1>6, <2>3, <3>4, <3>7 DEF InHand, ReaderAt
      <4>2. Arrived(s)' = Append(arrived, m.chunk)
        <5>1. Arrived(s)' = channel[s].buffer \o <<m.chunk>>
          BY <1>2, <4>1 DEF Arrived
        <5> HIDE DEF arrived
        <5>2. arrived \o <<m.chunk>> = Append(arrived, m.chunk)
          BY <1>4, <3>2
        <5> QED BY <3>3, <5>1, <5>2
      <4> HIDE DEF arrived, k, q, goes
      <4>3. Follows(Append(arrived, m.chunk), s, k, Tail(q), goes)
        BY <1>2, <1>4, <2>1, <3>1, <3>2, <3>7, FollowsAppend DEF q, m
      <4>4. Flows(s)'
        BY <3>6, <4>2, <4>3, FlowsAfter
      <4> QED BY <3>5, <4>4
    <3>8. CASE m.request # s
      <4>1. InHand(s)' = <<>>
        BY <1>2, <1>5, <1>6, <2>3, <3>8 DEF InHand, ReaderAt
      <4>2. Arrived(s)' = arrived
        BY <1>2, <3>3, <4>1 DEF Arrived
      <4> HIDE DEF arrived, k, q, goes
      <4>3. Follows(arrived, s, k, Tail(q), goes)
        BY <1>2, <1>4, <2>1, <3>1, <3>2, <3>8, FollowsAppend DEF q, m
      <4>4. Flows(s)'
        BY <3>6, <4>2, <4>3, FlowsAfter
      <4> QED BY <3>5, <4>4
    <3> QED BY <3>7, <3>8
  <2> QED BY <2>2, <2>3
<1> QED BY <1>7, <1>8, <1>9 DEF StreamInv

LEMMA AppendGrows ==
  ASSUME NEW b \in Seq(Nat), NEW x \in Nat
  PROVE  Append(b, x) # b
<1>1. Len(Append(b, x)) = Len(b) + 1 /\ Len(b) \in Nat
  OBVIOUS
<1> QED BY <1>1

\* The reader puts what it holds for r into r's channel, or gives it up and
\* closes a shell's stream.
LEMMA DeliveryHolds ==
  ASSUME StreamInv, NEW n \in Sessions, DeliverEvent(n) \/ Stalls(n)
  PROVE  StreamInv'
<1> DEFINE r == readers[n].request
           chunk == readers[n].chunk
<1>1. StreamTypeOK /\ ReadersTied
  BY DEF StreamInv
<1>2. /\ readers[n].pc = "delivering" /\ UNCHANGED <<link, registered, transit, request, answer>>
      /\ readers \in [Sessions -> StreamReader] /\ channel \in [Streams -> StreamChannel]
      /\ n \in Nat /\ n # 0
  BY <1>1 DEF DeliverEvent, Stalls, ReaderAt, StreamTypeOK, Sessions
<1>3. r \in Streams /\ chunk \in Nat /\ answer[r].on = n /\ channel[r] \in StreamChannel
  <2>1. readers[n] \in StreamReader
    BY <1>2
  <2>2. r \in Streams /\ chunk \in Nat
    BY <1>2, <2>1 DEF StreamReader
  <2> QED BY <1>1, <1>2, <2>2 DEF ReadersTied, ReaderAt
<1>4. Tied(r) /\ ~Unsent(r) /\ channel[r].session = n
  <2>1. Tied(r)
    BY <1>1, <1>3 DEF ReadersTied
  <2> QED BY <1>2, <1>3, <2>1 DEF Tied, Unsent
<1>5. CASE UNCHANGED <<channel, readers>>
  <2>1. \A s \in Streams : Tied(s)'
    BY <1>1, <1>2, <1>5 DEF ReadersTied, Tied, Unsent
  <2> QED BY <1>1, <1>2, <1>5, <2>1, ConnectionsChange DEF StreamTypeOK
<1>6. CASE ReaderGoes(n, "recv")
  <2>1. /\ readers' \in [Sessions -> StreamReader] /\ readers'[n].pc = "recv"
        /\ \A k \in Sessions : k # n => readers'[k] = readers[k]
    BY <1>2, <1>6, ReaderTurns
  <2>2. PICK c \in StreamChannel : /\ channel' = [channel EXCEPT ![r] = c] /\ c.session = channel[r].session
           /\ \/ /\ c.listed = channel[r].listed /\ c.open = channel[r].open
                 /\ c.buffer = Append(channel[r].buffer, chunk) /\ channel[r].open
              \/ /\ c.buffer = channel[r].buffer
                 /\ \/ ~c.open /\ ~c.listed
                    \/ r \notin Shells /\ c.open = channel[r].open /\ c.listed = channel[r].listed
    <3>1. CASE DeliverEvent(n)
      <4>1. channel[r].open /\ channel' = [channel EXCEPT ![r].buffer = Append(@, chunk)]
        <5>1. readers' # readers
          BY <1>2, <2>1
        <5> QED BY <3>1, <5>1 DEF DeliverEvent
      <4> DEFINE b == Append(channel[r].buffer, chunk)
                 c == [channel[r] EXCEPT !.buffer = b]
      <4>2. b \in Seq(Nat)
        BY <1>3, StreamParts
      <4>3. channel' = [channel EXCEPT ![r] = c]
        BY <1>2, <1>3, <4>1
      <4> HIDE DEF b
      <4>4. /\ c \in StreamChannel /\ c.session = channel[r].session /\ c.buffer = b
            /\ c.listed = channel[r].listed /\ c.open = channel[r].open
        BY <1>3, <4>2 DEF StreamChannel
      <4> HIDE DEF c
      <4> QED BY <4>1, <4>3, <4>4 DEF b
    <3>2. CASE Stalls(n) /\ r \in Shells
      <4>1. channel' = [channel EXCEPT ![r].listed = FALSE, ![r].open = FALSE]
        BY <1>4, <3>2 DEF Stalls, Tied
      <4> HIDE DEF r
      <4> QED BY <1>2, <1>3, <4>1, StreamCloses
    <3>3. CASE Stalls(n) /\ r \notin Shells
      <4>1. UNCHANGED channel
        BY <3>3 DEF Stalls
      <4>2. channel = [channel EXCEPT ![r] = channel[r]]
        BY <1>2, <1>3
      <4> HIDE DEF r
      <4> QED BY <1>3, <3>3, <4>1, <4>2
    <3> QED BY <3>1, <3>2, <3>3
  <2> HIDE DEF r, chunk
  <2>3. channel'[r] = c /\ \A s \in Streams : s # r => channel'[s] = channel[s]
    BY <1>2, <1>3, <2>2
  <2>4. StreamTypeOK'
    <3>1. channel' \in [Streams -> StreamChannel]
      BY <1>2, <2>2
    <3> QED BY <1>1, <1>2, <2>1, <3>1 DEF StreamTypeOK
  <2>5. ASSUME NEW s \in Streams PROVE Tied(s)'
    <3>1. CASE s = r
      <4>1. /\ c.session = channel[r].session /\ (c.open \/ c.listed => c.open = channel[r].open /\ c.listed = channel[r].listed)
        BY <2>2
      <4> QED BY <1>2, <1>4, <2>3, <3>1, <4>1 DEF Tied, Unsent
    <3>2. CASE s # r
      BY <1>1, <1>2, <2>3, <3>2 DEF ReadersTied, Tied, Unsent
    <3> QED BY <3>1, <3>2
  <2>6. ReadersTied'
    <3>1. \A k \in Sessions : readers'[k].pc = "delivering" => readers'[k] = readers[k]
      BY <2>1
    <3> QED BY <1>1, <1>2, <2>5, <3>1, RoutedStays
  <2>7. ASSUME NEW s \in Shells PROVE Shown(s)' /\ Flows(s)'
    <3>1. s \in Streams /\ Shown(s) /\ Flows(s) /\ Tied(s)
      BY <1>1 DEF Streams, StreamInv, ReadersTied
    <3>2. Relaying(s)' = Relaying(s)
      BY <1>2 DEF Relaying
    <3>3. CASE s # r
      <4>1. ASSUME Relaying(s) PROVE InHand(s)' = InHand(s)
        <5>1. channel[s].session \in Sessions /\ channel'[s] = channel[s]
          BY <2>3, <3>1, <3>3, <4>1 DEF Tied, Relaying
        <5>2. CASE channel[s].session = n
          BY <1>2, <2>1, <3>3, <5>1, <5>2 DEF InHand, ReaderAt, r
        <5>3. CASE channel[s].session # n
          BY <2>1, <3>1, <5>1, <5>3, HandSame
        <5> QED BY <5>2, <5>3
      <4> QED BY <1>2, <2>3, <3>1, <3>2, <3>3, <4>1, Undisturbed
    <3>4. CASE s = r /\ c.buffer = channel[r].buffer
      <4>1. ~c.open
        BY <1>3, <2>2, <2>7, <3>4, AppendGrows
      <4> QED BY <1>2, <2>3, <3>2, <3>4, <4>1, Undisturbed
    <3>5. CASE s = r /\ c.buffer # channel[r].buffer
      <4>1. /\ c.buffer = Append(channel[r].buffer, chunk) /\ c.open /\ channel[r].open
            /\ c.session = channel[r].session
        BY <2>2, <3>5
      <4>2. Shown(s)'
        BY <1>2, <3>1 DEF Shown
      <4>3. CASE ~Relaying(s)
        BY <3>2, <4>2, <4>3 DEF Flows
      <4>4. CASE Relaying(s)
        <5> DEFINE arrived == Arrived(s)
                   k == Len(request[s].shown)
                   q == transit[n]
                   goes == answer[s].next
        <5>1. Follows(arrived, s, k, q, goes)
          BY <1>4, <3>1, <3>5, <4>1, <4>4 DEF Flows
        <5>2. InHand(s) = <<chunk>> /\ InHand(s)' = <<>>
          BY <1>2, <1>4, <2>1, <2>3, <3>5, <4>1 DEF InHand, ReaderAt, r, chunk
        <5>3. channel[r].buffer \in Seq(Nat)
          BY <1>3, StreamParts
        <5>4. arrived = c.buffer /\ Arrived(s)' = c.buffer
          <6>1. arrived = channel[r].buffer \o <<chunk>> /\ Arrived(s)' = c.buffer \o <<>>
            BY <2>3, <3>5, <5>2 DEF Arrived
          <6> HIDE DEF arrived
          <6>2. channel[r].buffer \o <<chunk>> = Append(channel[r].buffer, chunk)
            BY <1>3, <5>3
          <6>3. c.buffer \in Seq(Nat)
            BY <1>3, <4>1, <5>3
          <6>4. c.buffer \o <<>> = c.buffer
            BY <6>3
          <6> QED BY <4>1, <6>1, <6>2, <6>4
        <5>5. /\ k = Len(request'[s].shown) /\ goes = answer'[s].next /\ q = transit'[channel'[s].session]
              /\ channel'[s].buffer = c.buffer
          BY <1>2, <1>4, <2>3, <3>5, <4>1
        <5> HIDE DEF arrived, k, q, goes
        <5>6. Ordered(channel'[s].buffer, k, s)
          BY <5>1, <5>4, <5>5 DEF Follows
        <5>7. Flows(s)'
          BY <2>7, <5>1, <5>4, <5>5, <5>6, FlowsAfter
        <5> QED BY <4>2, <5>7
      <4> QED BY <4>3, <4>4
    <3> QED BY <3>3, <3>4, <3>5
  <2> QED BY <2>4, <2>6, <2>7 DEF StreamInv
<1> QED BY <1>5, <1>6 DEF DeliverEvent, Stalls

LEMMA StreamStep == StreamInv /\ [StreamsNext]_streamVars => StreamInv'
<1> SUFFICES ASSUME StreamInv, [StreamsNext]_streamVars PROVE StreamInv'
  OBVIOUS
<1>1. CASE UNCHANGED streamVars
  <2>1. StreamTypeOK /\ ReadersTied
    BY DEF StreamInv
  <2>2. UNCHANGED <<link, registered, readers, transit, channel, request, answer>>
    BY <1>1 DEF streamVars
  <2> QED BY <2>1, <2>2, ConnectionsChange DEF StreamTypeOK
<1>2. CASE StreamsNext
  <2>1. CASE Disconnect
    <3>1. 1 \in Sessions
      BY StreamNumbers DEF Sessions
    <3> QED BY <2>1, <3>1, ConnectionStepsHold
  <2>2. CASE \E n \in Sessions : AddSession(n) \/ CloseReplaced(n) \/ RecvFails(n) \/ CloseRemoved(n)
    BY <2>2, ConnectionStepsHold
  <2>3. CASE \E n \in Sessions : LookUpStream(n)
    BY <2>3, LookUpStreamHolds
  <2>4. CASE \E n \in Sessions : DeliverEvent(n) \/ Stalls(n)
    BY <2>4, DeliveryHolds
  <2>5. CASE \E r \in Streams : AskFor(r) \/ OpenStream(r) \/ SendRequest(r) \/ Relay(r)
    BY <2>5, AskForHolds, OpenStreamHolds, SendRequestHolds, RelayHolds
  <2>6. CASE \E r \in Streams : Leave(r) \/ Cancel(r) \/ CloseStream(r)
    BY <2>6, EndingHolds
  <2>7. CASE \E r \in Streams : AnswerChunk(r)
    BY <2>7, AnswerChunkHolds
  <2> QED BY <1>2, <2>1, <2>2, <2>3, <2>4, <2>5, <2>6, <2>7 DEF StreamsNext
<1> QED BY <1>1, <1>2

\* A terminal shows what the shell has written from its start and without a
\* gap, and tells of an exit only after all of it: a chunk that finds no place
\* closes the shell's stream (registry.go:319-322).
THEOREM TerminalsShowAll == StreamsSpec => []TerminalShowsAll
<1>1. StreamInv => TerminalShowsAll
  BY DEF StreamInv, Shown, TerminalShowsAll
<1> QED BY <1>1, StreamsInitHolds, StreamStep, PTL DEF StreamsSpec

\* A connected agent stays registered, whatever older connections of its end
\* meanwhile (registry.go:478-480).
THEOREM ConnectedStaysRegistered == StreamsSpec => []ConnectedIsRegistered
<1>1. StreamsInit => ConnectedIsRegistered
  BY DEF StreamsInit, ConnectedIsRegistered
<1>2. ConnectedIsRegistered /\ [StreamsNext]_streamVars => ConnectedIsRegistered'
  <2> SUFFICES ASSUME ConnectedIsRegistered, [StreamsNext]_streamVars PROVE ConnectedIsRegistered'
    OBVIOUS
  <2>1. CASE Disconnect
    BY <2>1 DEF Disconnect, ConnectedIsRegistered
  <2>2. CASE \E n \in Sessions : AddSession(n)
    BY <2>2 DEF AddSession, ConnectedIsRegistered
  <2>3. CASE \E n \in Sessions : RecvFails(n)
    BY <2>3 DEF RecvFails, ConnectedIsRegistered
  <2>4. CASE UNCHANGED <<link, registered>>
    BY <2>4 DEF ConnectedIsRegistered
  <2> QED BY <2>1, <2>2, <2>3, <2>4
          DEF StreamsNext, CloseReplaced, CloseRemoved, LookUpStream, DeliverEvent, Stalls,
              AskFor, OpenStream, SendRequest, Relay, Leave, Cancel, CloseStream, AnswerChunk, streamVars
<1> QED BY <1>1, <1>2, PTL DEF StreamsSpec

\* Both, for whatever readers stall and connections are replaced.
THEOREM StreamsAreSound == StreamsSpec => []StreamsSound
BY TerminalsShowAll, ConnectedStaysRegistered, PTL DEF StreamsSound

-----------------------------------------------------------------------------
(***************************************************************************)
(* Models mounted on a node.  While the agent is connected there is one    *)
(* order at most, the one the reconciler waits for, so that the answer it  *)
(* takes is the answer to it; orders of a lost connection are carried out  *)
(* before the next one.  And a model that is told to go is not wanted, or  *)
(* has been released in the pass, whenever its row may be taken up again.  *)
(***************************************************************************)
RoundSteps   == {"row", "mount", "admit", "evict"}
AskingSteps  == {"waiting", "ok", "error"}
OrderReasons == {"unmount", "failed", "terminated", "evict", "create"}

AtWork ==
  [at : RoundSteps \cup AskingSteps, todo : {round.todo}, wanted : {round.wanted},
   found : {round.found}, released : {round.released}, victims : {round.victims}]
AtAsking ==
  [at : RoundSteps \cup AskingSteps, todo : {round.todo}, wanted : {round.wanted},
   found : {round.found}, released : {round.released}, victims : {round.victims},
   why : {round.why}, of : {round.of}]

RoundTyped ==
  \/ round = NoRound
  \/ round \in AtWork /\ round.at \in RoundSteps
  \/ round \in AtAsking /\ round.why \in OrderReasons

MountMessages ==
  [about : {"status", "result"},
   value : {"pending", "running", "failed", "terminated", "ok", "error"}]

MountTypes ==
  /\ wanted \in [Models -> {"none", "mounted", "unmounted"}]
  /\ found \in [Models -> {"none", "pending", "mounted", "error", "unmounted"}]
  /\ table \in [Models -> {"none", "pending", "running", "failed"}]
  /\ upstream \in [Models -> Seq(MountMessages)]
  /\ online \in BOOLEAN
  /\ \A o \in orders : /\ o \in [kind : {"create", "delete"}, of : {o.of}, live : BOOLEAN]
  /\ RoundTyped

OnlyStatuses(s) == \A i \in 1 .. Len(s) : s[i].about = "status"

Silent(m) == OnlyStatuses(upstream[m])

\* The one answer among the messages of s is its i-th.
AnswerIs(s, i) ==
  /\ i \in 1 .. Len(s) /\ s[i].about = "result" /\ s[i].value \in {"ok", "error"}
  /\ \A j \in 1 .. Len(s) : j # i => s[j].about = "status"

IsDown(m) == m \in Models => ~ Alive(m) /\ m \notin stopping

\* A deletion that was answered has stopped the process.
OrderDone == round.why \in {"unmount", "evict"} => IsDown(round.of)

OneAnswer ==
  \E i \in Nat : /\ AnswerIs(upstream[round.of], i)
                 /\ upstream[round.of][i].value = "ok" => OrderDone

TheOrder == [kind |-> IF round.why = "create" THEN "create" ELSE "delete",
             of |-> round.of, live |-> TRUE]

Offline == (\A m \in Models : upstream[m] = <<>>) /\ \A o \in orders : ~ o.live

Answered ==
  /\ online
  /\ \A m \in Models : m # round.of => Silent(m)
  /\ \/ orders = {TheOrder} /\ (round.of \in Models => Silent(round.of))
     \/ orders = {} /\ (round.of \in Models => OneAnswer)

LinkSound ==
  /\ ~ online => Offline
  /\ online /\ round.at # "waiting" => orders = {} /\ \A m \in Models : Silent(m)
  /\ round.at = "waiting" => Answered
  /\ round.at = "ok" => orders = {} /\ OrderDone

ForUnmount == round.at \in AskingSteps /\ round.why = "unmount"

MarksKnown ==
  \A m \in Models :
    /\ round.wanted[m] = "unmounted" => wanted[m] = "unmounted"
    /\ found[m] = "unmounted" => round.wanted[m] = "unmounted" \/ m \in round.released

CurrentIsMounted == round.wanted[Current] = "mounted" /\ Current \notin round.released

OrderFits ==
  round.at \in AskingSteps =>
    /\ round.why = "unmount" => round.of = Current /\ round.wanted[Current] = "unmounted"
    /\ round.why \in {"failed", "terminated", "create"} => round.of = Current
    /\ round.why = "evict" => /\ round.of # Current
                              /\ round.of \in Models => wanted[round.of] = "unmounted"

RoundSound ==
  round.at # "off" =>
    /\ MarksKnown /\ OrderFits
    /\ round.at # "row" /\ ~ ForUnmount => CurrentIsMounted
    /\ round.victims \subseteq Models \ {Current}

GoneForGood ==
  \A m \in Models : found[m] = "unmounted" =>
    /\ wanted[m] = "unmounted" /\ IsDown(m)
    /\ \A o \in orders : ~ (o.kind = "create" /\ o.of = m)

MountInv == MountTypes /\ LinkSound /\ RoundSound /\ GoneForGood

SameRound ==
  /\ round'.at # "off" /\ round'.wanted = round.wanted /\ round'.released = round.released

\* What becomes of the pass.
LEMMA RoundEnds ==
  ASSUME RoundTyped, round # NoRound, round' = Remaining
  PROVE  /\ RoundTyped'
         /\ \/ round' = NoRound
            \/ SameRound /\ round'.at = "row" /\ round'.victims = {}
<1>1. CASE round' = NoRound
  BY <1>1 DEF RoundTyped
<1>2. CASE round' # NoRound
  <2>1. PICK entry : entry = [round EXCEPT !.at = "row", !.todo = Tail(@), !.victims = {}]
    OBVIOUS
  <2>2. round' = entry
    BY <1>2, <2>1 DEF Remaining
  <2>3. CASE round \in AtWork
    BY <2>1, <2>2, <2>3 DEF AtWork, RoundTyped, RoundSteps, SameRound
  <2>4. CASE round \in AtAsking /\ round.why \in OrderReasons
    BY <2>1, <2>2, <2>4 DEF AtAsking, RoundTyped, RoundSteps, SameRound
  <2> QED BY <2>3, <2>4 DEF RoundTyped
<1> QED BY <1>1, <1>2

LEMMA RoundMoves ==
  ASSUME RoundTyped, round # NoRound, NEW s \in RoundSteps \cup AskingSteps, GoTo(s),
         s \in AskingSteps => round.at \in AskingSteps
  PROVE  /\ RoundTyped' /\ SameRound /\ round'.at = s
         /\ round'.todo = round.todo /\ round'.found = round.found /\ round'.victims = round.victims
         /\ s \in AskingSteps => round'.why = round.why /\ round'.of = round.of
<1>1. PICK entry : entry = [round EXCEPT !.at = s]
  OBVIOUS
<1>2. round' = entry
  BY <1>1 DEF GoTo
<1>3. CASE round \in AtWork /\ round.at \in RoundSteps
  BY <1>1, <1>2, <1>3 DEF AtWork, RoundTyped, RoundSteps, AskingSteps, SameRound
<1>4. CASE round \in AtAsking /\ round.why \in OrderReasons
  BY <1>1, <1>2, <1>4 DEF AtAsking, RoundTyped, RoundSteps, AskingSteps, SameRound
<1> QED BY <1>3, <1>4 DEF RoundTyped

LEMMA RoundAsks ==
  ASSUME RoundTyped, round # NoRound, NEW kind, NEW m, NEW why \in OrderReasons,
         Order(kind, m, why)
  PROVE  /\ RoundTyped' /\ SameRound
         /\ round'.at = IF online THEN "waiting" ELSE "error"
         /\ round'.todo = round.todo /\ round'.found = round.found /\ round'.victims = round.victims
         /\ round'.why = why /\ round'.of = m
<1>1. PICK s : s = IF online THEN "waiting" ELSE "error"
  OBVIOUS
<1>2. round' = [at |-> s, todo |-> round.todo, wanted |-> round.wanted, found |-> round.found,
                released |-> round.released, victims |-> round.victims, why |-> why, of |-> m]
  BY <1>1 DEF Order
<1>3. s \in {"waiting", "error"}
  BY <1>1
<1> QED BY <1>1, <1>2, <1>3 DEF AtAsking, RoundTyped, RoundSteps, AskingSteps, SameRound

\* What a step may do to the link between the two.
LEMMA LinkKept ==
  ASSUME LinkSound, UNCHANGED <<online, orders, upstream, round>>,
         \A m \in Models : IsDown(m) => IsDown(m)'
  PROVE  LinkSound'
<1>1. OrderDone => OrderDone'
  BY DEF OrderDone, IsDown
<1>2. OneAnswer => OneAnswer'
  BY <1>1 DEF OneAnswer
<1>3. Answered => Answered'
  BY <1>2 DEF Answered, Silent, TheOrder
<1> QED BY <1>1, <1>3 DEF LinkSound, Offline, Silent

LEMMA LinkIdle ==
  ASSUME LinkSound, UNCHANGED <<online, orders, upstream>>,
         round.at # "waiting", round'.at \notin {"waiting", "ok"}
  PROVE  LinkSound'
BY DEF LinkSound, Offline, Silent

LEMMA LinkAsked ==
  ASSUME LinkSound, UNCHANGED <<online, upstream>>, online \in BOOLEAN,
         round.at # "waiting", NEW why, NEW m, NEW kind,
         kind = IF why = "create" THEN "create" ELSE "delete",
         round'.at = IF online THEN "waiting" ELSE "error", round'.why = why, round'.of = m,
         orders' = IF online THEN orders \cup {[kind |-> kind, of |-> m, live |-> TRUE]}
                             ELSE orders
  PROVE  LinkSound'
<1>1. CASE online
  <2>1. orders = {} /\ \A k \in Models : Silent(k)
    BY <1>1 DEF LinkSound
  <2>2. orders' = {TheOrder'} /\ \A k \in Models : Silent(k)'
    BY <1>1, <2>1 DEF TheOrder, Silent
  <2>3. Answered'
    BY <1>1, <2>2 DEF Answered
  <2> QED BY <1>1, <2>3 DEF LinkSound
<1>2. CASE ~ online
  BY <1>2 DEF LinkSound, Offline
<1> QED BY <1>1, <1>2

\* What a step may do to the marks of the rows.
Monotone ==
  \A m \in Models : /\ wanted[m] = "unmounted" => wanted'[m] = "unmounted"
                    /\ found'[m] = "unmounted" => found[m] = "unmounted"

LEMMA RoundKept ==
  ASSUME RoundSound, Monotone, UNCHANGED round
  PROVE  RoundSound'
BY DEF RoundSound, Monotone, MarksKnown, OrderFits, CurrentIsMounted, Current, ForUnmount

LEMMA MarksKept ==
  ASSUME RoundSound, Monotone, round.at # "off", SameRound
  PROVE  MarksKnown'
BY DEF RoundSound, Monotone, MarksKnown, SameRound

LEMMA GoneKept ==
  ASSUME GoneForGood, Monotone, \A m \in Models : IsDown(m) => IsDown(m)',
         \A o \in orders' : o.kind = "create" =>
           \/ \E p \in orders : p.kind = "create" /\ p.of = o.of
           \/ o.of \in Models => found'[o.of] # "unmounted"
  PROVE  GoneForGood'
BY DEF GoneForGood, Monotone

\* The operator's requests.
LEMMA OperatorSound ==
  ASSUME MountInv, NEW m \in Models, Mount(m) \/ Unmount(m)
  PROVE  MountInv'
<1>1. /\ UNCHANGED <<round, online, orders, upstream, table, stopping>>
      /\ wanted[m] # "unmounted"
      /\ \/ wanted' = [wanted EXCEPT ![m] = "mounted"] /\ found' = [found EXCEPT ![m] = "pending"]
         \/ wanted' = [wanted EXCEPT ![m] = "unmounted"] /\ found' = found
  BY DEF Mount, Unmount, hostVars
<1>2. MountTypes'
  BY <1>1 DEF MountInv, MountTypes, RoundTyped, AtWork, AtAsking
<1>3. Monotone
  BY <1>1 DEF Monotone, MountInv, MountTypes
<1>4. \A k \in Models : IsDown(k) => IsDown(k)'
  BY <1>1 DEF IsDown, Alive
<1>5. LinkSound'
  BY <1>1, <1>4, LinkKept DEF MountInv
<1>6. RoundSound'
  BY <1>1, <1>3, RoundKept DEF MountInv
<1>7. GoneForGood'
  BY <1>1, <1>3, <1>4, GoneKept DEF MountInv
<1> QED BY <1>2, <1>5, <1>6, <1>7 DEF MountInv

\* The pass goes on to the next row, or within the row.
LEMMA NextRow ==
  ASSUME MountInv, round.at \notin {"off", "waiting"}, round' = Remaining,
         UNCHANGED <<wanted, table, stopping, online, orders, upstream>>,
         found' \in [Models -> {"none", "pending", "mounted", "error", "unmounted"}],
         Monotone
  PROVE  MountInv'
<1>1. /\ RoundTyped' /\ round # NoRound
      /\ \/ round' = NoRound
         \/ SameRound /\ round'.at = "row" /\ round'.victims = {}
  BY RoundEnds DEF MountInv, MountTypes, NoRound
<1>2. round'.at \in {"off", "row"}
  BY <1>1 DEF NoRound
<1>3. MountTypes'
  BY <1>1 DEF MountInv, MountTypes
<1>4. LinkSound'
  BY <1>2, LinkIdle DEF MountInv
<1>5. RoundSound'
  BY <1>1, <1>2, MarksKept DEF MountInv, RoundSound, OrderFits, AskingSteps, NoRound
<1>6. GoneForGood'
  BY GoneKept DEF MountInv, IsDown, Alive
<1> QED BY <1>3, <1>4, <1>5, <1>6 DEF MountInv

LEMMA SameRow ==
  ASSUME MountInv, round.at \notin {"off", "waiting"}, round'.at \in {"mount", "admit", "evict"},
         RoundTyped', SameRound, round'.todo = round.todo, round'.victims \subseteq Models \ {Current},
         CurrentIsMounted, found' = found,
         UNCHANGED <<wanted, table, stopping, online, orders, upstream>>
  PROVE  MountInv'
<1>1. Monotone
  BY DEF Monotone
<1>2. MountTypes'
  BY DEF MountInv, MountTypes
<1>3. LinkSound'
  BY LinkIdle DEF MountInv
<1>4. RoundSound'
  <2>1. MarksKnown' /\ CurrentIsMounted' /\ Current' = Current
    BY <1>1, MarksKept DEF MountInv, CurrentIsMounted, SameRound, Current
  <2> QED BY <2>1 DEF RoundSound, OrderFits, AskingSteps
<1>5. GoneForGood'
  BY <1>1, GoneKept DEF MountInv, IsDown, Alive
<1> QED BY <1>2, <1>3, <1>4, <1>5 DEF MountInv

LEMMA StepIsOn ==
  ASSUME NEW s \in RoundSteps \cup AskingSteps, InStep(s)
  PROVE  round # NoRound /\ round.at = s /\ round.at # "off"
BY DEF InStep, RoundSteps, AskingSteps

LEMMA MountingFact ==
  ASSUME MountInv, Mounting
  PROVE  /\ round # NoRound /\ round.at \in {"row", "mount"} /\ CurrentIsMounted
         /\ Current \in Models => found[Current] # "unmounted"
<1>1. round # NoRound /\ round.at \in {"row", "mount"}
  BY StepIsOn DEF Mounting, InStep
<1>2. CurrentIsMounted
  <2>1. CASE round.at = "mount"
    BY <2>1 DEF MountInv, RoundSound, ForUnmount, AskingSteps
  <2>2. CASE round.at = "row"
    BY <2>2 DEF Mounting, InStep, Settled, CurrentIsMounted
  <2> QED BY <1>1, <2>1, <2>2
<1>3. Current \in Models => found[Current] # "unmounted"
  BY <1>1, <1>2 DEF MountInv, RoundSound, MarksKnown, CurrentIsMounted
<1> QED BY <1>1, <1>2, <1>3

LEMMA MarkFact ==
  ASSUME MountTypes, NEW m, NEW state \in {"pending", "mounted", "error"},
         found' = [found EXCEPT ![m] = state], wanted' = wanted
  PROVE  /\ Monotone
         /\ found' \in [Models -> {"none", "pending", "mounted", "error", "unmounted"}]
BY DEF MountTypes, Monotone

LEMMA BeginRoundSound == ASSUME MountInv, BeginRound PROVE MountInv'
<1>1. PICK todo : round' = [at |-> "row", todo |-> todo, wanted |-> wanted, found |-> found,
                            released |-> {}, victims |-> {}]
  BY DEF BeginRound
<1>2. /\ round = NoRound
      /\ UNCHANGED <<wanted, found, table, stopping, online, orders, upstream>>
  BY DEF BeginRound, rowVars, hostVars
<1>3. RoundTyped'
  BY <1>1 DEF RoundTyped, AtWork, RoundSteps, AskingSteps
<1>4. MountTypes'
  BY <1>2, <1>3 DEF MountInv, MountTypes
<1>5. LinkSound'
  BY <1>1, <1>2, LinkIdle DEF MountInv, NoRound
<1>6. RoundSound'
  BY <1>1, <1>2 DEF MountInv, RoundSound, MarksKnown, OrderFits, GoneForGood, AskingSteps
<1>7. GoneForGood'
  BY <1>2, GoneKept DEF MountInv, Monotone, IsDown, Alive
<1> QED BY <1>4, <1>5, <1>6, <1>7 DEF MountInv

LEMMA VerifySound == ASSUME MountInv, SkipSettled \/ Verify PROVE MountInv'
<1>1. /\ round # NoRound /\ round.at = "row" /\ found' = found
      /\ UNCHANGED <<wanted, table, stopping, online, orders, upstream>>
  BY DEF SkipSettled, Verify, InStep, PassOver, hostVars
<1>2. CASE round' = Remaining
  BY <1>1, <1>2, NextRow DEF MountInv, MountTypes, Monotone
<1>3. CASE Verify /\ GoTo("mount")
  <2>1. CurrentIsMounted
    BY <1>3 DEF Verify, Settled, CurrentIsMounted
  <2>2. /\ RoundTyped' /\ SameRound /\ round'.at = "mount"
        /\ round'.todo = round.todo /\ round'.victims = round.victims
    BY <1>1, <1>3, RoundMoves DEF MountInv, MountTypes, RoundSteps, AskingSteps
  <2> QED BY <1>1, <2>1, <2>2, SameRow DEF MountInv, RoundSound
<1> QED BY <1>2, <1>3 DEF SkipSettled, Verify, PassOver

LEMMA MountLooksSound == ASSUME MountInv, MountLooks PROVE MountInv'
<1>1. /\ round # NoRound /\ round.at \in {"row", "mount"} /\ CurrentIsMounted
      /\ UNCHANGED <<wanted, table, stopping, online, orders, upstream>>
  BY MountingFact DEF MountLooks, hostVars
<1>2. \/ PassOver
      \/ \E state \in {"pending", "mounted", "error"} : Note(Current, state)
      \/ GoTo("admit") /\ found' = found
  BY DEF MountLooks
<1>3. CASE PassOver
  BY <1>1, <1>3, NextRow DEF PassOver, MountInv, MountTypes, Monotone
<1>4. ASSUME NEW state \in {"pending", "mounted", "error"}, Note(Current, state) PROVE MountInv'
  BY <1>1, <1>4, MarkFact, NextRow DEF Note, MountInv
<1>5. CASE GoTo("admit") /\ found' = found
  <2>1. /\ RoundTyped' /\ SameRound /\ round'.at = "admit"
        /\ round'.todo = round.todo /\ round'.victims = round.victims
    BY <1>1, <1>5, RoundMoves DEF MountInv, MountTypes, RoundSteps, AskingSteps
  <2> QED BY <1>1, <1>5, <2>1, SameRow DEF MountInv, RoundSound
<1> QED BY <1>2, <1>3, <1>4, <1>5

LEMMA AdmitModelSound == ASSUME MountInv, AdmitModel PROVE MountInv'
<1>1. /\ round # NoRound /\ round.at = "admit"
      /\ UNCHANGED <<wanted, table, stopping, online, orders, upstream>>
  BY DEF AdmitModel, InStep, hostVars
<1>2. CurrentIsMounted
  BY <1>1 DEF MountInv, RoundSound, ForUnmount, AskingSteps
<1>3. CASE Note(Current, "error")
  BY <1>1, <1>3, MarkFact, NextRow DEF Note, MountInv
<1>4. CASE round' = [round EXCEPT !.at = "evict", !.victims = Victims] /\ found' = found
  <2>1. PICK entry, who : entry = [round EXCEPT !.at = "evict", !.victims = who] /\ who = Victims
    OBVIOUS
  <2>2. round' = entry /\ who \subseteq Models \ {Current}
    BY <1>4, <2>1 DEF Victims, Holders
  <2>3. /\ RoundTyped' /\ SameRound /\ round'.at = "evict"
        /\ round'.todo = round.todo /\ round'.victims = who
    <3>1. CASE round \in AtWork /\ round.at \in RoundSteps
      BY <2>1, <2>2, <3>1 DEF AtWork, RoundTyped, RoundSteps, SameRound
    <3>2. CASE round \in AtAsking /\ round.why \in OrderReasons
      BY <2>1, <2>2, <3>2 DEF AtAsking, RoundTyped, RoundSteps, SameRound
    <3> QED BY <1>1, <3>1, <3>2 DEF MountInv, MountTypes, RoundTyped
  <2> QED BY <1>1, <1>2, <1>4, <2>2, <2>3, SameRow
<1> QED BY <1>3, <1>4 DEF AdmitModel

\* The pass gives an order.
LEMMA AskSound ==
  ASSUME MountInv, round # NoRound, round.at \in RoundSteps, NEW why \in OrderReasons, NEW m,
         NEW kind, kind = IF why = "create" THEN "create" ELSE "delete", Order(kind, m, why),
         UNCHANGED <<found, online, upstream, table, stopping>>,
         wanted' \in [Models -> {"none", "mounted", "unmounted"}], Monotone,
         why = "unmount" => m = Current /\ round.wanted[Current] = "unmounted",
         why # "unmount" => CurrentIsMounted,
         why \in {"failed", "terminated", "create"} => m = Current,
         why = "evict" => m # Current /\ (m \in Models => wanted'[m] = "unmounted"),
         why = "create" => (Current \in Models => found[Current] # "unmounted")
  PROVE  MountInv'
<1>1. /\ RoundTyped' /\ SameRound
      /\ round'.at = IF online THEN "waiting" ELSE "error"
      /\ round'.todo = round.todo /\ round'.victims = round.victims
      /\ round'.why = why /\ round'.of = m
  BY RoundAsks DEF MountInv, MountTypes
<1>2. /\ online \in BOOLEAN /\ round.at \notin {"off", "waiting"}
      /\ round'.at \in {"waiting", "error"}
      /\ orders' = IF online THEN orders \cup {[kind |-> kind, of |-> m, live |-> TRUE]}
                             ELSE orders
  BY <1>1 DEF MountInv, MountTypes, RoundSteps, Order
<1>3. MountTypes'
  <2>1. \A o \in orders' : o \in [kind : {"create", "delete"}, of : {o.of}, live : BOOLEAN]
    <3>1. PICK p : p = [kind |-> kind, of |-> m, live |-> TRUE]
      OBVIOUS
    <3>2. p \in [kind : {"create", "delete"}, of : {p.of}, live : BOOLEAN]
      BY <3>1
    <3> QED BY <1>2, <3>1, <3>2 DEF MountInv, MountTypes
  <2> QED BY <1>1, <2>1 DEF MountInv, MountTypes
<1>4. LinkSound'
  BY <1>1, <1>2, LinkAsked DEF MountInv
<1>5. RoundSound'
  <2>1. MarksKnown' /\ Current' = Current
    BY <1>1, <1>2, MarksKept DEF MountInv, Current
  <2>2. why # "unmount" => CurrentIsMounted'
    BY <1>1, <2>1 DEF CurrentIsMounted, SameRound
  <2>3. round'.victims \subseteq Models \ {Current}
    BY <1>1, <1>2 DEF MountInv, RoundSound
  <2>4. OrderFits'
    BY <1>1, <2>1 DEF OrderFits, SameRound
  <2> QED BY <1>1, <1>2, <2>1, <2>2, <2>3, <2>4 DEF RoundSound, ForUnmount, AskingSteps
<1>6. GoneForGood'
  <2>1. \A k \in Models : IsDown(k) => IsDown(k)'
    BY DEF IsDown, Alive
  <2>2. \A o \in orders' : o.kind = "create" =>
           \/ \E p \in orders : p.kind = "create" /\ p.of = o.of
           \/ o.of \in Models => found'[o.of] # "unmounted"
    <3>1. ASSUME NEW o, o = [kind |-> kind, of |-> m, live |-> TRUE], o.kind = "create"
          PROVE  o.of \in Models => found'[o.of] # "unmounted"
      <4>1. why = "create" /\ o.of = Current
        BY <3>1
      <4> QED BY <4>1
    <3> QED BY <1>2, <3>1
  <2> QED BY <2>1, <2>2, GoneKept DEF MountInv
<1> QED BY <1>3, <1>4, <1>5, <1>6 DEF MountInv

LEMMA OrdersSound ==
  ASSUME MountInv, StartUnmount \/ MountClears \/ OrderCreate \/ Evict
  PROVE  MountInv'
<1>1. UNCHANGED <<found, online, upstream, table, stopping>>
  BY DEF StartUnmount, MountClears, OrderCreate, Evict, rowVars
<1>2. wanted' = wanted => /\ wanted' \in [Models -> {"none", "mounted", "unmounted"}] /\ Monotone
  BY <1>1 DEF MountInv, MountTypes, Monotone
<1>3. CASE StartUnmount
  <2>1. /\ round # NoRound /\ round.at = "row" /\ wanted' = wanted
        /\ round.wanted[Current] = "unmounted" /\ Order("delete", Current, "unmount")
    BY <1>3 DEF StartUnmount, InStep, rowVars
  <2> QED BY <1>1, <1>2, <2>1, AskSound DEF RoundSteps, OrderReasons
<1>4. CASE MountClears
  <2>1. PICK why \in {"failed", "terminated"} : Order("delete", Current, why)
    BY <1>4 DEF MountClears
  <2>2. round # NoRound /\ round.at \in {"row", "mount"} /\ CurrentIsMounted /\ wanted' = wanted
    BY <1>4, MountingFact DEF MountClears, rowVars
  <2> QED BY <1>1, <1>2, <2>1, <2>2, AskSound DEF RoundSteps, OrderReasons
<1>5. CASE OrderCreate \/ Evict
  <2>1. round # NoRound /\ round.at = "evict"
    BY <1>5 DEF OrderCreate, Evict, InStep
  <2>2. /\ CurrentIsMounted /\ round.victims \subseteq Models \ {Current}
        /\ Current \in Models => found[Current] # "unmounted"
    BY <2>1 DEF MountInv, RoundSound, ForUnmount, AskingSteps, CurrentIsMounted, MarksKnown
  <2>3. CASE OrderCreate
    <3>1. Order("create", Current, "create") /\ wanted' = wanted
      BY <2>3 DEF OrderCreate, rowVars
    <3> QED BY <1>1, <1>2, <2>1, <2>2, <3>1, AskSound DEF RoundSteps, OrderReasons
  <2>4. CASE Evict
    <3>1. PICK v : v = Min(round.victims)
      OBVIOUS
    <3>2. /\ Order("delete", v, "evict") /\ wanted' = [wanted EXCEPT ![v] = "unmounted"]
          /\ round.victims # {}
      BY <2>4, <3>1 DEF Evict
    <3>3. v \in Models /\ v # Current
      BY <2>2, <3>1, <3>2, LeastIn, MountAssumption
    <3>4. /\ wanted' \in [Models -> {"none", "mounted", "unmounted"}]
          /\ wanted'[v] = "unmounted" /\ Monotone
      BY <1>1, <3>2, <3>3 DEF MountInv, MountTypes, Monotone
    <3> QED BY <1>1, <2>1, <2>2, <3>2, <3>3, <3>4, AskSound DEF RoundSteps, OrderReasons
  <2> QED BY <1>5, <2>3, <2>4
<1> QED BY <1>3, <1>4, <1>5

\* What the answer to an order does to the rows.
LEMMA FailedSound == ASSUME MountInv, Failed PROVE MountInv'
<1>1. /\ round # NoRound /\ round.at = "error"
      /\ UNCHANGED <<wanted, table, stopping, online, orders, upstream>>
  BY DEF Failed, InStep, hostVars
<1>2. CASE round.why = "terminated"
  <2>1. GoTo("admit") /\ found' = found
    BY <1>2 DEF Failed
  <2>2. /\ RoundTyped' /\ SameRound /\ round'.at = "admit"
        /\ round'.todo = round.todo /\ round'.victims = round.victims
    BY <1>1, <2>1, RoundMoves DEF MountInv, MountTypes, RoundSteps, AskingSteps
  <2>3. CurrentIsMounted
    BY <1>1, <1>2 DEF MountInv, RoundSound, ForUnmount
  <2> QED BY <1>1, <2>1, <2>2, <2>3, SameRow DEF MountInv, RoundSound
<1>3. CASE round.why = "evict"
  <2>1. /\ found' = [found EXCEPT ![round.of] = "error", ![Current] = "error"]
        /\ round' = Remaining
    BY <1>3 DEF Failed
  <2>2. /\ Monotone
        /\ found' \in [Models -> {"none", "pending", "mounted", "error", "unmounted"}]
    BY <1>1, <2>1 DEF MountInv, MountTypes, Monotone
  <2> QED BY <1>1, <2>1, <2>2, NextRow
<1>4. CASE round.why \notin {"terminated", "evict"}
  <2>1. Note(Current, "error")
    BY <1>4 DEF Failed
  <2> QED BY <1>1, <2>1, MarkFact, NextRow DEF Note, MountInv
<1> QED BY <1>2, <1>3, <1>4

\* A model that has been stopped, and is not wanted, is gone for good.
LEMMA StoppedIsGone ==
  ASSUME MountInv, round.at = "ok", round.why \in {"unmount", "evict"}, wanted[round.of] = "unmounted",
         found' = [found EXCEPT ![round.of] = "unmounted"],
         UNCHANGED <<wanted, table, stopping, online, orders, upstream>>
  PROVE  /\ GoneForGood'
         /\ found' \in [Models -> {"none", "pending", "mounted", "error", "unmounted"}]
         /\ \A m \in Models : found'[m] = "unmounted" => m = round.of \/ found[m] = "unmounted"
<1>1. PICK v : v = round.of
  OBVIOUS
<1>2. orders = {} /\ IsDown(v) /\ wanted[v] = "unmounted" /\ found' = [found EXCEPT ![v] = "unmounted"]
  BY <1>1 DEF MountInv, LinkSound, OrderDone
<1>3. /\ \A m \in Models : found'[m] = "unmounted" => m = v \/ found[m] = "unmounted"
      /\ found' \in [Models -> {"none", "pending", "mounted", "error", "unmounted"}]
  BY <1>2 DEF MountInv, MountTypes
<1>4. \A m \in Models : IsDown(m)' = IsDown(m)
  BY DEF IsDown, Alive
<1>5. GoneForGood'
  BY <1>2, <1>3, <1>4 DEF MountInv, GoneForGood
<1> QED BY <1>1, <1>3, <1>5

LEMMA SucceededSound == ASSUME MountInv, Succeeded PROVE MountInv'
<1>1. /\ round # NoRound /\ round.at = "ok"
      /\ UNCHANGED <<wanted, table, stopping, online, orders, upstream>>
      /\ round.why \in OrderReasons
  BY DEF Succeeded, InStep, hostVars, MountInv, MountTypes, RoundTyped, RoundSteps
<1>2. /\ MarksKnown /\ OrderFits /\ (round.why # "unmount" => CurrentIsMounted)
      /\ round.victims \subseteq Models \ {Current}
  BY <1>1 DEF MountInv, RoundSound, ForUnmount, AskingSteps
<1>3. CASE round.why \in {"failed", "create"}
  <2>1. Note(round.of, "error") \/ Note(round.of, "pending")
    BY <1>3 DEF Succeeded
  <2> QED BY <1>1, <2>1, MarkFact, NextRow DEF Note, MountInv
<1>4. CASE round.why = "terminated"
  <2>1. GoTo("admit") /\ found' = found
    BY <1>4 DEF Succeeded
  <2>2. /\ RoundTyped' /\ SameRound /\ round'.at = "admit"
        /\ round'.todo = round.todo /\ round'.victims = round.victims
    BY <1>1, <2>1, RoundMoves DEF MountInv, MountTypes, RoundSteps, AskingSteps
  <2> QED BY <1>1, <1>2, <1>4, <2>1, <2>2, SameRow
<1>5. CASE round.why = "unmount"
  <2>1. /\ found' = [found EXCEPT ![round.of] = "unmounted"] /\ round' = Remaining
        /\ round.of = Current /\ round.wanted[Current] = "unmounted"
    BY <1>1, <1>2, <1>5 DEF Succeeded, Note, OrderFits, AskingSteps
  <2>2. CASE Current \in Models
    <3>1. wanted[round.of] = "unmounted"
      BY <1>2, <2>1, <2>2 DEF MarksKnown
    <3>2. /\ GoneForGood'
          /\ found' \in [Models -> {"none", "pending", "mounted", "error", "unmounted"}]
          /\ \A m \in Models : found'[m] = "unmounted" => m = round.of \/ found[m] = "unmounted"
      BY <1>1, <1>5, <2>1, <3>1, StoppedIsGone
    <3>3. /\ RoundTyped'
          /\ \/ round' = NoRound
             \/ SameRound /\ round'.at = "row" /\ round'.victims = {}
      BY <1>1, <2>1, RoundEnds DEF MountInv, MountTypes
    <3>4. MountTypes'
      BY <1>1, <3>2, <3>3 DEF MountInv, MountTypes
    <3>5. LinkSound'
      BY <1>1, <3>3, LinkIdle DEF MountInv, NoRound
    <3>6. RoundSound'
      <4>1. CASE SameRound /\ round'.at = "row" /\ round'.victims = {}
        <5>1. MarksKnown'
          BY <1>1, <1>2, <2>1, <3>2, <4>1 DEF MarksKnown, SameRound
        <5> QED BY <4>1, <5>1 DEF RoundSound, OrderFits, AskingSteps
      <4>2. CASE round' = NoRound
        BY <4>2 DEF RoundSound, NoRound
      <4> QED BY <3>3, <4>1, <4>2
    <3> QED BY <3>2, <3>4, <3>5, <3>6 DEF MountInv
  <2>3. CASE Current \notin Models
    <3>1. found' = found
      BY <2>1, <2>3 DEF MountInv, MountTypes
    <3> QED BY <1>1, <2>1, <3>1, NextRow DEF MountInv, MountTypes, Monotone
  <2> QED BY <2>2, <2>3
<1>6. CASE round.why = "evict"
  <2>1. PICK v : v = round.of
    OBVIOUS
  <2>2. /\ found' = [found EXCEPT ![v] = "unmounted"]
        /\ round' = [round EXCEPT !.at = "evict", !.released = @ \cup {v},
                                  !.victims = @ \ {v}]
    BY <1>6, <2>1 DEF Succeeded
  <2>3. /\ v # Current /\ (v \in Models => wanted[v] = "unmounted") /\ CurrentIsMounted
    BY <1>1, <1>2, <1>6, <2>1 DEF OrderFits, AskingSteps
  <2>4. /\ RoundTyped' /\ round'.at = "evict" /\ round'.todo = round.todo
        /\ round'.wanted = round.wanted /\ round'.released = round.released \cup {v}
        /\ round'.victims = round.victims \ {v}
    <3>1. PICK entry : entry = [round EXCEPT !.at = "evict", !.released = @ \cup {v},
                                         !.victims = @ \ {v}]
      OBVIOUS
    <3>2. round \in AtAsking
      BY <1>1 DEF MountInv, MountTypes, RoundTyped, RoundSteps
    <3> QED BY <1>1, <2>2, <3>1, <3>2 DEF AtAsking, RoundTyped, RoundSteps
  <2>5. /\ GoneForGood'
        /\ found' \in [Models -> {"none", "pending", "mounted", "error", "unmounted"}]
        /\ \A m \in Models : found'[m] = "unmounted" => m = v \/ found[m] = "unmounted"
    <3>1. CASE v \in Models
      BY <1>1, <1>6, <2>1, <2>2, <2>3, <3>1, StoppedIsGone
    <3>2. CASE v \notin Models
      <4>1. found' = found
        BY <2>2, <3>2 DEF MountInv, MountTypes
      <4> QED BY <1>1, <4>1, GoneKept DEF MountInv, MountTypes, Monotone, IsDown, Alive
    <3> QED BY <3>1, <3>2
  <2>6. MountTypes'
    BY <1>1, <2>4, <2>5 DEF MountInv, MountTypes
  <2>7. LinkSound'
    BY <1>1, <2>4, LinkIdle DEF MountInv
  <2>8. RoundSound'
    <3>1. MarksKnown'
      BY <1>1, <1>2, <2>4, <2>5 DEF MarksKnown
    <3>2. Current' = Current /\ CurrentIsMounted'
      BY <2>3, <2>4 DEF Current, CurrentIsMounted
    <3> QED BY <1>2, <2>4, <3>1, <3>2 DEF RoundSound, OrderFits, AskingSteps
  <2> QED BY <2>5, <2>6, <2>7, <2>8 DEF MountInv
<1> QED BY <1>1, <1>3, <1>4, <1>5, <1>6 DEF OrderReasons

\* Messages: more of them after those on their way, or the first delivered.
LEMMA StatusesFollow ==
  ASSUME NEW s \in Seq(MountMessages), NEW t \in Seq(MountMessages), OnlyStatuses(t)
  PROVE  /\ s \o t \in Seq(MountMessages)
         /\ OnlyStatuses(s) => OnlyStatuses(s \o t)
         /\ \A i \in Nat : AnswerIs(s, i) => AnswerIs(s \o t, i) /\ (s \o t)[i] = s[i]
<1>1. /\ s \o t \in Seq(MountMessages) /\ Len(s \o t) = Len(s) + Len(t)
      /\ Len(s) \in Nat /\ Len(t) \in Nat
      /\ \A i \in 1 .. Len(s) + Len(t) :
           (s \o t)[i] = IF i <= Len(s) THEN s[i] ELSE t[i - Len(s)]
  OBVIOUS
<1>2. ASSUME NEW i \in 1 .. Len(s) + Len(t)
      PROVE  \/ i \in 1 .. Len(s) /\ (s \o t)[i] = s[i]
             \/ ~ (i <= Len(s)) /\ (s \o t)[i].about = "status"
  <2>1. CASE i <= Len(s)
    BY <1>1, <2>1
  <2>2. CASE ~ (i <= Len(s))
    <3>1. i - Len(s) \in 1 .. Len(t)
      BY <1>1, <2>2
    <3> QED BY <1>1, <2>2, <3>1 DEF OnlyStatuses
  <2> QED BY <2>1, <2>2
<1>3. OnlyStatuses(s) => OnlyStatuses(s \o t)
  BY <1>1, <1>2 DEF OnlyStatuses
<1>4. ASSUME NEW i \in Nat, AnswerIs(s, i) PROVE AnswerIs(s \o t, i) /\ (s \o t)[i] = s[i]
  <2>1. i \in 1 .. Len(s) + Len(t) /\ i \in 1 .. Len(s) /\ (s \o t)[i] = s[i]
    BY <1>1, <1>4 DEF AnswerIs
  <2>2. \A j \in 1 .. Len(s \o t) : j # i => (s \o t)[j].about = "status"
    BY <1>1, <1>2, <1>4 DEF AnswerIs
  <2> QED BY <1>1, <1>4, <2>1, <2>2 DEF AnswerIs
<1> QED BY <1>1, <1>3, <1>4

LEMMA AnswerFollows ==
  ASSUME NEW s \in Seq(MountMessages), OnlyStatuses(s), NEW verdict \in {"ok", "error"}
  PROVE  /\ s \o <<Verdict(verdict)>> \in Seq(MountMessages)
         /\ \E i \in Nat : /\ AnswerIs(s \o <<Verdict(verdict)>>, i)
                           /\ (s \o <<Verdict(verdict)>>)[i].value = verdict
<1>1. PICK v : v = Verdict(verdict)
  OBVIOUS
<1>2. v \in MountMessages /\ v.about = "result" /\ v.value = verdict
  BY <1>1 DEF Verdict, MountMessages
<1>3. PICK t : t = s \o <<v>>
  OBVIOUS
<1>4. /\ t \in Seq(MountMessages) /\ Len(t) = Len(s) + 1 /\ Len(s) \in Nat
      /\ t[Len(s) + 1] = v /\ \A i \in 1 .. Len(s) : t[i] = s[i]
  BY <1>2, <1>3
<1>5. AnswerIs(t, Len(s) + 1)
  BY <1>2, <1>4 DEF AnswerIs, OnlyStatuses
<1> QED BY <1>1, <1>2, <1>3, <1>4, <1>5

LEMMA FirstDelivered ==
  ASSUME NEW s \in Seq(MountMessages), s # <<>>
  PROVE  /\ Tail(s) \in Seq(MountMessages) /\ Head(s) \in MountMessages
         /\ OnlyStatuses(s) => OnlyStatuses(Tail(s)) /\ Head(s).about = "status"
         /\ \A i \in Nat : AnswerIs(s, i) =>
              \/ /\ Head(s).about = "result" /\ Head(s).value = s[i].value
                 /\ Head(s).value \in {"ok", "error"} /\ OnlyStatuses(Tail(s))
              \/ /\ Head(s).about = "status"
                 /\ \E k \in Nat : AnswerIs(Tail(s), k) /\ Tail(s)[k] = s[i]
<1>1. /\ Tail(s) \in Seq(MountMessages) /\ Head(s) \in MountMessages /\ Head(s) = s[1]
      /\ Len(s) \in Nat /\ Len(s) >= 1 /\ Len(Tail(s)) = Len(s) - 1
      /\ \A i \in 1 .. Len(s) - 1 : Tail(s)[i] = s[i + 1]
  OBVIOUS
<1>2. OnlyStatuses(s) => OnlyStatuses(Tail(s)) /\ Head(s).about = "status"
  BY <1>1 DEF OnlyStatuses
<1>3. ASSUME NEW i \in Nat, AnswerIs(s, i)
      PROVE  \/ /\ Head(s).about = "result" /\ Head(s).value = s[i].value
                /\ Head(s).value \in {"ok", "error"} /\ OnlyStatuses(Tail(s))
             \/ /\ Head(s).about = "status"
                /\ \E k \in Nat : AnswerIs(Tail(s), k) /\ Tail(s)[k] = s[i]
  <2>1. CASE i = 1
    BY <1>1, <1>3, <2>1 DEF AnswerIs, OnlyStatuses
  <2>2. CASE i # 1
    <3>1. i - 1 \in 1 .. Len(s) - 1 /\ Tail(s)[i - 1] = s[i] /\ Head(s).about = "status"
      BY <1>1, <1>3, <2>2 DEF AnswerIs
    <3>2. \A j \in 1 .. Len(Tail(s)) : j # i - 1 => Tail(s)[j].about = "status"
      BY <1>1, <1>3, <3>1 DEF AnswerIs
    <3>3. AnswerIs(Tail(s), i - 1)
      BY <1>1, <1>3, <3>1, <3>2 DEF AnswerIs
    <3> QED BY <3>1, <3>3
  <2> QED BY <2>1, <2>2
<1> QED BY <1>1, <1>2, <1>3

LEMMA ChangedAreStatuses ==
  ASSUME NEW now \in [Models -> {"none", "pending", "running", "failed"}], NEW m \in Models
  PROVE  Changed(now)[m] \in Seq(MountMessages) /\ OnlyStatuses(Changed(now)[m])
<1>1. PICK v : v = Says(IF now[m] = "none" THEN "terminated" ELSE now[m])
  OBVIOUS
<1>2. v \in MountMessages /\ v.about = "status"
  BY <1>1 DEF Says, MountMessages
<1>3. Changed(now)[m] = <<>> \/ Changed(now)[m] = <<v>>
  BY <1>1 DEF Changed
<1>4. <<v>> \in Seq(MountMessages) /\ OnlyStatuses(<<v>>)
  <2>1. Len(<<v>>) = 1 /\ <<v>>[1] = v
    OBVIOUS
  <2> QED BY <1>2, <2>1 DEF OnlyStatuses
<1>5. <<>> \in Seq(MountMessages) /\ OnlyStatuses(<<>>)
  BY DEF OnlyStatuses
<1> QED BY <1>3, <1>4, <1>5

\* The agent's processes and reports.
LEMMA ProcessesSound ==
  ASSUME MountInv, NEW m \in Models, Ready(m) \/ Dies(m)
  PROVE  MountInv'
<1>1. /\ UNCHANGED <<wanted, found, round, online, orders, upstream, stopping>> /\ Alive(m)
      /\ \/ table' = [table EXCEPT ![m] = "running"]
         \/ table' = [table EXCEPT ![m] = "failed"]
  BY DEF Ready, Dies, rowVars, Alive
<1>2. \A k \in Models : IsDown(k) => IsDown(k)'
  BY <1>1 DEF IsDown, Alive, MountInv, MountTypes
<1>3. MountTypes'
  BY <1>1 DEF MountInv, MountTypes, RoundTyped, AtWork, AtAsking
<1>4. Monotone
  BY <1>1 DEF Monotone
<1> QED BY <1>1, <1>2, <1>3, <1>4, LinkKept, RoundKept, GoneKept DEF MountInv

LEMMA ReportSound == ASSUME MountInv, ReportChanges PROVE MountInv'
<1>1. /\ UNCHANGED <<wanted, found, round, online, orders, table, stopping>> /\ online
      /\ upstream' = [m \in Models |-> upstream[m] \o Changed(table)[m]]
  BY DEF ReportChanges, rowVars
<1>2. ASSUME NEW m \in Models
      PROVE  /\ upstream'[m] \in Seq(MountMessages)
             /\ Silent(m) => Silent(m)'
             /\ \A i \in Nat : AnswerIs(upstream[m], i) =>
                  AnswerIs(upstream'[m], i) /\ upstream'[m][i] = upstream[m][i]
  <2>1. Changed(table)[m] \in Seq(MountMessages) /\ OnlyStatuses(Changed(table)[m])
    BY ChangedAreStatuses DEF MountInv, MountTypes
  <2>2. PICK s, t : s = upstream[m] /\ t = Changed(table)[m] /\ upstream'[m] = s \o t
    BY <1>1
  <2>3. s \in Seq(MountMessages) /\ t \in Seq(MountMessages) /\ OnlyStatuses(t)
    BY <2>1, <2>2 DEF MountInv, MountTypes
  <2>4. /\ s \o t \in Seq(MountMessages) /\ (OnlyStatuses(s) => OnlyStatuses(s \o t))
        /\ \A i \in Nat : AnswerIs(s, i) => AnswerIs(s \o t, i) /\ (s \o t)[i] = s[i]
    BY <2>3, StatusesFollow
  <2>5. Silent(m) = OnlyStatuses(s) /\ Silent(m)' = OnlyStatuses(s \o t)
    BY <2>2 DEF Silent
  <2> QED BY <2>2, <2>4, <2>5
<1>3. upstream' \in [Models -> Seq(MountMessages)]
  BY <1>1, <1>2
<1>4. MountTypes'
  BY <1>1, <1>3 DEF MountInv, MountTypes, RoundTyped, AtWork, AtAsking
<1>5. \A m \in Models : IsDown(m) => IsDown(m)'
  BY <1>1 DEF IsDown, Alive
<1>6. LinkSound'
  <2>1. OrderDone' = OrderDone
    BY <1>1 DEF OrderDone, IsDown, Alive
  <2>2. round.of \in Models /\ OneAnswer => OneAnswer'
    BY <1>1, <1>2, <2>1 DEF OneAnswer
  <2>3. Answered => Answered'
    BY <1>1, <1>2, <2>2 DEF Answered, TheOrder
  <2> QED BY <1>1, <1>2, <2>1, <2>3 DEF MountInv, LinkSound
<1>7. Monotone
  BY <1>1 DEF Monotone
<1> QED BY <1>1, <1>4, <1>5, <1>6, <1>7, RoundKept, GoneKept DEF MountInv

\* The order carried out is the one that is waited for, or nobody waits.
LEMMA OrderAwaited ==
  ASSUME MountInv, NEW o \in orders
  PROVE  /\ round.at # "ok" /\ o.live \in BOOLEAN
         /\ o.live => /\ online /\ round.at = "waiting" /\ o = TheOrder /\ orders = {o}
                      /\ \A m \in Models : Silent(m)
                      /\ o.of = round.of /\ (round.why \in {"unmount", "evict"} => o.kind = "delete")
         /\ ~ o.live => ~ online /\ round.at # "waiting"
<1>1. /\ o \in [kind : {"create", "delete"}, of : {o.of}, live : BOOLEAN]
      /\ online \in BOOLEAN /\ LinkSound
  BY DEF MountInv, MountTypes
<1>2. CASE online
  <2>1. round.at = "waiting" /\ Answered
    BY <1>1, <1>2 DEF LinkSound
  <2>2. orders = {TheOrder} /\ (round.of \in Models => Silent(round.of)) /\ o = TheOrder
    BY <2>1 DEF Answered
  <2>3. \A m \in Models : Silent(m)
    BY <2>1, <2>2 DEF Answered
  <2>4. o.live /\ o.of = round.of /\ o.kind = IF round.why = "create" THEN "create" ELSE "delete"
    BY <2>2 DEF TheOrder
  <2> QED BY <1>1, <1>2, <2>1, <2>2, <2>3, <2>4
<1>3. CASE ~ online
  BY <1>1, <1>3 DEF LinkSound, Offline, Answered
<1> QED BY <1>1, <1>2, <1>3

LEMMA ReplySound ==
  ASSUME MountInv, NEW o \in orders, NEW verdict \in {"ok", "error"}, NEW more,
         \A m \in Models : more[m] \in Seq(MountMessages) /\ OnlyStatuses(more[m]),
         orders' = orders \ {o}, ReplyTo(o, verdict, more), UNCHANGED <<round, online>>,
         verdict = "ok" /\ o.kind = "delete" => IsDown(o.of)'
  PROVE  LinkSound' /\ upstream' \in [Models -> Seq(MountMessages)]
<1>1. upstream \in [Models -> Seq(MountMessages)] /\ online \in BOOLEAN /\ LinkSound
  BY DEF MountInv, MountTypes
<1>2. CASE o.live
  <2>1. /\ online /\ round.at = "waiting" /\ orders' = {} /\ o.of = round.of
        /\ (round.why \in {"unmount", "evict"} => o.kind = "delete")
        /\ \A m \in Models : Silent(m)
    BY <1>2, OrderAwaited
  <2>2. upstream' = [m \in Models |-> upstream[m]
            \o (IF m = round.of THEN <<Verdict(verdict)>> ELSE <<>>) \o more[m]]
    BY <1>2, <2>1 DEF ReplyTo
  <2>3. ASSUME NEW m \in Models, m # round.of
        PROVE  upstream'[m] \in Seq(MountMessages) /\ Silent(m)'
    <3>1. PICK s, t : s = upstream[m] /\ t = more[m]
      OBVIOUS
    <3>2. s \in Seq(MountMessages) /\ t \in Seq(MountMessages) /\ OnlyStatuses(t) /\ OnlyStatuses(s)
      BY <1>1, <2>1, <3>1 DEF Silent
    <3>3. upstream'[m] = s \o t
      <4>1. upstream'[m] = upstream[m] \o <<>> \o more[m]
        BY <2>2, <2>3
      <4>2. s \o <<>> = s
        BY <3>2
      <4> QED BY <3>1, <4>1, <4>2
    <3>4. s \o t \in Seq(MountMessages) /\ OnlyStatuses(s \o t)
      BY <3>2, StatusesFollow
    <3> QED BY <3>3, <3>4 DEF Silent
  <2>4. ASSUME round.of \in Models
        PROVE  /\ upstream'[round.of] \in Seq(MountMessages)
               /\ \E i \in Nat : AnswerIs(upstream'[round.of], i)
                                 /\ upstream'[round.of][i].value = verdict
    <3>1. PICK s, t, u, m : /\ m = round.of /\ s = upstream[m] /\ t = more[m]
                            /\ u = s \o <<Verdict(verdict)>>
      OBVIOUS
    <3>2. s \in Seq(MountMessages) /\ t \in Seq(MountMessages) /\ OnlyStatuses(t) /\ OnlyStatuses(s)
      BY <1>1, <2>1, <2>4, <3>1 DEF Silent
    <3>3. upstream'[m] = u \o t
      BY <2>2, <2>4, <3>1
    <3>4. u \in Seq(MountMessages) /\ \E i \in Nat : AnswerIs(u, i) /\ u[i].value = verdict
      <4>1. /\ s \o <<Verdict(verdict)>> \in Seq(MountMessages)
            /\ \E i \in Nat : /\ AnswerIs(s \o <<Verdict(verdict)>>, i)
                              /\ (s \o <<Verdict(verdict)>>)[i].value = verdict
        BY <3>2, AnswerFollows
      <4> QED BY <3>1, <4>1
    <3>5. /\ u \o t \in Seq(MountMessages)
          /\ \A i \in Nat : AnswerIs(u, i) => AnswerIs(u \o t, i) /\ (u \o t)[i] = u[i]
      BY <3>2, <3>4, StatusesFollow
    <3>6. \E i \in Nat : AnswerIs(u \o t, i) /\ (u \o t)[i].value = verdict
      BY <3>4, <3>5
    <3> QED BY <3>1, <3>3, <3>5, <3>6
  <2>5. upstream' \in [Models -> Seq(MountMessages)]
    <3>1. \A m \in Models : upstream'[m] \in Seq(MountMessages)
      BY <2>3, <2>4
    <3>2. PICK up : up = upstream' /\ up = [m \in Models |-> up[m]]
      BY <2>2
    <3> QED BY <3>1, <3>2
  <2>6. verdict = "ok" => OrderDone'
    BY <2>1 DEF OrderDone
  <2>7. round.of \in Models => OneAnswer'
    BY <2>1, <2>4, <2>6 DEF OneAnswer
  <2>8. Answered'
    BY <2>1, <2>3, <2>7 DEF Answered
  <2> QED BY <2>1, <2>5, <2>8 DEF LinkSound
<1>3. CASE ~ o.live
  <2>1. ~ online /\ round.at \notin {"waiting", "ok"} /\ upstream' = upstream /\ orders' \subseteq orders
    BY <1>3, OrderAwaited DEF ReplyTo
  <2> QED BY <1>1, <2>1 DEF LinkSound, Offline
<1> QED BY <1>2, <1>3, OrderAwaited

LEMMA CarryOutSound == ASSUME MountInv, NEW o \in orders, CarryOut(o) PROVE MountInv'
<1>1. UNCHANGED <<wanted, found, round, online>>
  BY DEF CarryOut, rowVars
<1>2. /\ o \in [kind : {"create", "delete"}, of : {o.of}, live : BOOLEAN]
      /\ table \in [Models -> {"none", "pending", "running", "failed"}]
  BY DEF MountInv, MountTypes
<1>3. Monotone
  BY <1>1 DEF Monotone
<1>4. \A m \in Models : NoMore[m] \in Seq(MountMessages) /\ OnlyStatuses(NoMore[m])
  BY DEF NoMore, OnlyStatuses
<1>5. ASSUME orders' \subseteq orders, upstream' \in [Models -> Seq(MountMessages)], LinkSound',
             table' \in [Models -> {"none", "pending", "running", "failed"}],
             GoneForGood'
      PROVE  MountInv'
  <2>1. MountTypes'
    BY <1>1, <1>5 DEF MountInv, MountTypes, RoundTyped, AtWork, AtAsking
  <2>2. RoundSound'
    BY <1>1, <1>3, RoundKept DEF MountInv
  <2> QED BY <1>5, <2>1, <2>2 DEF MountInv
<1>6. ASSUME orders' \subseteq orders, \A m \in Models : IsDown(m) => IsDown(m)'
      PROVE  GoneForGood'
  BY <1>3, <1>6, GoneKept DEF MountInv
<1>7. CASE CreateExisting(o)
  <2>1. /\ o.kind = "create" /\ orders' = orders \ {o} /\ ReplyTo(o, "ok", NoMore)
        /\ UNCHANGED <<table, stopping>>
    BY <1>7 DEF CreateExisting
  <2>2. LinkSound' /\ upstream' \in [Models -> Seq(MountMessages)]
    BY <1>1, <1>4, <2>1, ReplySound
  <2>3. \A m \in Models : IsDown(m) => IsDown(m)'
    BY <2>1 DEF IsDown, Alive
  <2> QED BY <1>2, <1>5, <1>6, <2>1, <2>2, <2>3
<1>8. CASE Launch(o)
  <2>1. PICK now : now = [table EXCEPT ![o.of] = "pending"]
    OBVIOUS
  <2>2. /\ o.kind = "create" /\ orders' = orders \ {o} /\ table' = now /\ stopping' = stopping
        /\ ReplyTo(o, "ok", Changed(now))
    BY <1>8, <2>1 DEF Launch
  <2>3. now \in [Models -> {"none", "pending", "running", "failed"}]
    BY <1>2, <2>1
  <2>4. LinkSound' /\ upstream' \in [Models -> Seq(MountMessages)]
    BY <1>1, <2>2, <2>3, ChangedAreStatuses, ReplySound
  <2>5. GoneForGood'
    <3>1. ASSUME NEW m \in Models, found[m] = "unmounted" PROVE m # o.of /\ IsDown(m)
      BY <2>2, <3>1 DEF MountInv, GoneForGood
    <3>2. ASSUME NEW m \in Models, m # o.of, IsDown(m) PROVE IsDown(m)'
      BY <1>2, <2>1, <2>2, <3>2 DEF IsDown, Alive
    <3> QED BY <1>1, <2>2, <3>1, <3>2 DEF MountInv, GoneForGood
  <2> QED BY <1>2, <1>5, <2>2, <2>3, <2>4, <2>5
<1>9. CASE LaunchFails(o)
  <2>1. /\ o.kind = "create" /\ orders' = orders \ {o} /\ ReplyTo(o, "error", NoMore)
        /\ table' = [table EXCEPT ![o.of] = "none"] /\ stopping' = stopping
    BY <1>9 DEF LaunchFails
  <2>2. LinkSound' /\ upstream' \in [Models -> Seq(MountMessages)]
    BY <1>1, <1>4, <2>1, ReplySound
  <2>3. \A m \in Models : IsDown(m) => IsDown(m)'
    BY <1>2, <2>1 DEF IsDown, Alive
  <2> QED BY <1>2, <1>5, <1>6, <2>1, <2>2, <2>3
<1>10. CASE DeleteBegins(o)
  <2>1. /\ Alive(o.of) /\ table' = [table EXCEPT ![o.of] = "none"]
        /\ stopping' = stopping \cup {o.of} /\ UNCHANGED <<orders, upstream>>
    BY <1>10 DEF DeleteBegins
  <2>2. \A m \in Models : IsDown(m) => IsDown(m)'
    BY <1>2, <2>1 DEF IsDown, Alive
  <2>3. LinkSound'
    BY <1>1, <2>1, <2>2, LinkKept DEF MountInv
  <2> QED BY <1>2, <1>5, <1>6, <2>1, <2>2, <2>3 DEF MountInv, MountTypes
<1>11. CASE DeleteEnds(o)
  <2>1. /\ o.kind = "delete" /\ orders' = orders \ {o} /\ ReplyTo(o, "ok", NoMore) /\ ~ Alive(o.of)
        /\ table' = [table EXCEPT ![o.of] = "none"] /\ stopping' = stopping \ {o.of}
    BY <1>11 DEF DeleteEnds
  <2>2. IsDown(o.of)' /\ \A m \in Models : IsDown(m) => IsDown(m)'
    BY <1>2, <2>1 DEF IsDown, Alive
  <2>3. LinkSound' /\ upstream' \in [Models -> Seq(MountMessages)]
    BY <1>1, <1>4, <2>1, <2>2, ReplySound
  <2> QED BY <1>2, <1>5, <1>6, <2>1, <2>2, <2>3
<1> QED BY <1>7, <1>8, <1>9, <1>10, <1>11 DEF CarryOut

LEMMA DeliverStatusSound ==
  ASSUME MountInv, NEW m \in Models, DeliverStatus(m)
  PROVE  MountInv'
<1>1. PICK s : s = upstream[m]
  OBVIOUS
<1>2. /\ UNCHANGED <<wanted, found, round, online, orders, table, stopping>>
      /\ s # <<>> /\ Head(s).about = "status" /\ upstream' = [upstream EXCEPT ![m] = Tail(s)]
  BY <1>1 DEF DeliverStatus, rowVars, hostVars
<1>3. s \in Seq(MountMessages) /\ upstream \in [Models -> Seq(MountMessages)]
  BY <1>1 DEF MountInv, MountTypes
<1>4. /\ Tail(s) \in Seq(MountMessages) /\ (OnlyStatuses(s) => OnlyStatuses(Tail(s)))
      /\ \A i \in Nat : AnswerIs(s, i) => \E k \in Nat : AnswerIs(Tail(s), k) /\ Tail(s)[k] = s[i]
  BY <1>2, <1>3, FirstDelivered
<1>5. MountTypes'
  BY <1>2, <1>3, <1>4 DEF MountInv, MountTypes, RoundTyped, AtWork, AtAsking
<1>6. \A k \in Models : IsDown(k) => IsDown(k)'
  BY <1>2 DEF IsDown, Alive
<1>7. \A k \in Models : Silent(k) => Silent(k)'
  BY <1>1, <1>2, <1>3, <1>4 DEF Silent
<1>8. round.of \in Models /\ OneAnswer => OneAnswer'
  <2>1. OrderDone' = OrderDone /\ round' = round
    BY <1>2 DEF OrderDone, IsDown, Alive
  <2>2. CASE round.of = m
    <3>1. upstream'[round.of] = Tail(s) /\ upstream[round.of] = s
      BY <1>1, <1>2, <1>3, <2>2
    <3>2. ASSUME OneAnswer
          PROVE  \E k \in Nat : AnswerIs(Tail(s), k) /\ (Tail(s)[k].value = "ok" => OrderDone)
      <4>1. PICK i \in Nat : AnswerIs(s, i) /\ (s[i].value = "ok" => OrderDone)
        BY <3>1, <3>2 DEF OneAnswer
      <4>2. PICK k \in Nat : AnswerIs(Tail(s), k) /\ Tail(s)[k] = s[i]
        BY <1>4, <4>1
      <4> QED BY <4>1, <4>2
    <3> QED BY <2>1, <3>1, <3>2 DEF OneAnswer
  <2>3. CASE round.of # m
    <3>1. upstream'[round.of] = upstream[round.of]
      BY <1>2, <1>3, <2>3
    <3> QED BY <2>1, <3>1 DEF OneAnswer
  <2> QED BY <2>2, <2>3
<1>9. LinkSound'
  <2>1. OrderDone' = OrderDone
    BY <1>2 DEF OrderDone, IsDown, Alive
  <2>2. Answered => Answered'
    BY <1>2, <1>7, <1>8 DEF Answered, TheOrder
  <2>3. online \/ Offline
    BY DEF MountInv, LinkSound
  <2>4. ~ Offline
    BY <1>1, <1>2 DEF Offline
  <2> QED BY <1>2, <1>7, <2>1, <2>2, <2>3, <2>4 DEF MountInv, LinkSound
<1>10. Monotone
  BY <1>2 DEF Monotone
<1> QED BY <1>2, <1>5, <1>6, <1>9, <1>10, RoundKept, GoneKept DEF MountInv

\* An answer is the answer to the order that is waited for.
LEMMA DeliverAnswerSound ==
  ASSUME MountInv, NEW m \in Models, DeliverAnswer(m)
  PROVE  MountInv'
<1>1. PICK s : s = upstream[m]
  OBVIOUS
<1>2. /\ UNCHANGED <<wanted, found, online, orders, table, stopping>>
      /\ s # <<>> /\ Head(s).about = "result" /\ upstream' = [upstream EXCEPT ![m] = Tail(s)]
  BY <1>1 DEF DeliverAnswer, rowVars, hostVars
<1>3. s \in Seq(MountMessages) /\ upstream \in [Models -> Seq(MountMessages)]
  BY <1>1 DEF MountInv, MountTypes
<1>4. ~ Silent(m)
  BY <1>1, <1>2, <1>3, FirstDelivered DEF Silent
<1>5. online /\ round.at = "waiting" /\ Answered
  <2>1. online
    BY <1>1, <1>2 DEF MountInv, LinkSound, Offline
  <2> QED BY <1>4, <2>1 DEF MountInv, LinkSound
<1>6. round.of = m /\ orders = {} /\ OneAnswer /\ \A k \in Models : k # m => Silent(k)
  BY <1>4, <1>5 DEF Answered
<1>7. PICK i \in Nat : AnswerIs(s, i) /\ (s[i].value = "ok" => OrderDone)
  BY <1>1, <1>6 DEF OneAnswer
<1>8. /\ Head(s).value \in {"ok", "error"} /\ (Head(s).value = "ok" => OrderDone)
      /\ Tail(s) \in Seq(MountMessages) /\ OnlyStatuses(Tail(s))
  <2>1. Head(s).about # "status"
    BY <1>2
  <2>2. /\ Head(s).value = s[i].value /\ Head(s).value \in {"ok", "error"}
        /\ OnlyStatuses(Tail(s)) /\ Tail(s) \in Seq(MountMessages)
    BY <1>2, <1>3, <1>7, <2>1, FirstDelivered
  <2> QED BY <1>7, <2>2
<1>9. PICK verdict \in {"ok", "error"} : verdict = Head(s).value /\ GoTo(verdict)
  <2>1. InStep("waiting")
    BY <1>5 DEF InStep, NoRound
  <2> QED BY <1>1, <1>6, <1>8, <2>1 DEF DeliverAnswer
<1>10. /\ RoundTyped' /\ SameRound /\ round'.at = verdict
       /\ round'.todo = round.todo /\ round'.victims = round.victims
       /\ round'.why = round.why /\ round'.of = round.of
  <2>1. round # NoRound
    BY <1>5 DEF NoRound
  <2> QED BY <1>5, <1>9, <2>1, RoundMoves DEF MountInv, MountTypes, AskingSteps
<1>11. MountTypes'
  BY <1>2, <1>3, <1>8, <1>10 DEF MountInv, MountTypes
<1>12. LinkSound'
  <2>1. \A k \in Models : Silent(k)'
    BY <1>2, <1>3, <1>6, <1>8 DEF Silent
  <2>2. OrderDone' = OrderDone
    BY <1>2, <1>10 DEF OrderDone, IsDown, Alive
  <2> QED BY <1>2, <1>5, <1>6, <1>8, <1>9, <1>10, <2>1, <2>2 DEF LinkSound
<1>13. Monotone
  BY <1>2 DEF Monotone
<1>14. RoundSound'
  <2>1. /\ MarksKnown /\ OrderFits /\ round.victims \subseteq Models \ {Current}
        /\ (round.why # "unmount" => CurrentIsMounted)
    BY <1>5 DEF MountInv, RoundSound, ForUnmount
  <2>2. MarksKnown' /\ Current' = Current
    BY <1>5, <1>10, <1>13, MarksKept DEF MountInv, Current
  <2>3. round.why # "unmount" => CurrentIsMounted'
    BY <1>10, <2>1, <2>2 DEF CurrentIsMounted, SameRound
  <2>4. OrderFits'
    BY <1>2, <1>5, <1>10, <2>1, <2>2 DEF OrderFits, SameRound, AskingSteps
  <2> QED BY <1>9, <1>10, <2>1, <2>2, <2>3, <2>4 DEF RoundSound, ForUnmount, AskingSteps
<1>15. GoneForGood'
  BY <1>2, <1>13, GoneKept DEF MountInv, IsDown, Alive
<1> QED BY <1>11, <1>12, <1>14, <1>15 DEF MountInv

\* The connection is lost, by itself or with an end of it.
LEMMA CutSound ==
  ASSUME MountInv, Cut, UNCHANGED <<wanted, found>>,
         \A o \in orders' : /\ o \in [kind : {"create", "delete"}, of : {o.of}, live : BOOLEAN]
                            /\ ~ o.live /\ \E p \in orders : p.kind = o.kind /\ p.of = o.of,
         \/ round' = NoRound
         \/ round.at # "waiting" /\ round' = round
         \/ round.at = "waiting" /\ GoTo("error"),
         table' \in [Models -> {"none", "pending", "running", "failed"}],
         \A m \in Models : IsDown(m) => IsDown(m)'
  PROVE  MountInv'
<1>1. online' = FALSE /\ upstream' = [m \in Models |-> <<>>] /\ Monotone
  BY DEF Cut, Monotone
<1>2. RoundTyped' => MountTypes'
  <2>1. <<>> \in Seq(MountMessages)
    OBVIOUS
  <2>2. upstream' \in [Models -> Seq(MountMessages)] /\ online' \in BOOLEAN
    BY <1>1, <2>1
  <2> QED BY <2>2 DEF MountInv, MountTypes
<1>3. CASE round' = NoRound \/ (round.at # "waiting" /\ round' = round)
  <2>1. RoundTyped'
    BY <1>3 DEF MountInv, MountTypes, RoundTyped, AtWork, AtAsking
  <2>2. MountTypes'
    BY <1>2, <2>1
  <2>3. LinkSound'
    <3>1. round' = round /\ OrderDone => OrderDone'
      BY DEF OrderDone, IsDown
    <3> QED BY <1>1, <1>3, <3>1 DEF MountInv, LinkSound, Offline, NoRound
  <2>4. RoundSound'
    BY <1>1, <1>3, RoundKept DEF MountInv, RoundSound, NoRound
  <2> QED BY <1>1, <2>2, <2>3, <2>4, GoneKept DEF MountInv
<1>4. CASE round.at = "waiting" /\ GoTo("error")
  <2>1. /\ RoundTyped' /\ SameRound /\ round'.at = "error"
        /\ round'.todo = round.todo /\ round'.victims = round.victims
        /\ round'.why = round.why /\ round'.of = round.of
    <3>1. round # NoRound
      BY <1>4 DEF NoRound
    <3> QED BY <1>4, <3>1, RoundMoves DEF MountInv, MountTypes, AskingSteps
  <2>2. MountTypes'
    BY <1>2, <2>1
  <2>3. LinkSound'
    BY <1>1, <2>1 DEF LinkSound, Offline
  <2>4. RoundSound'
    <3>1. /\ MarksKnown /\ OrderFits /\ round.victims \subseteq Models \ {Current}
          /\ (round.why # "unmount" => CurrentIsMounted)
      BY <1>4 DEF MountInv, RoundSound, ForUnmount
    <3>2. MarksKnown' /\ Current' = Current
      BY <1>1, <1>4, <2>1, MarksKept DEF MountInv, Current
    <3>3. round.why # "unmount" => CurrentIsMounted'
      BY <2>1, <3>1, <3>2 DEF CurrentIsMounted, SameRound
    <3>4. OrderFits'
      BY <1>4, <2>1, <3>1, <3>2 DEF OrderFits, SameRound, AskingSteps
    <3> QED BY <2>1, <3>1, <3>2, <3>3, <3>4 DEF RoundSound, ForUnmount, AskingSteps
  <2> QED BY <1>1, <2>2, <2>3, <2>4, GoneKept DEF MountInv
<1> QED BY <1>3, <1>4

LEMMA OrdersUnheard ==
  ASSUME MountInv, orders' = {[o EXCEPT !.live = FALSE] : o \in orders}
  PROVE  \A o \in orders' : /\ o \in [kind : {"create", "delete"}, of : {o.of}, live : BOOLEAN]
                            /\ ~ o.live /\ \E p \in orders : p.kind = o.kind /\ p.of = o.of
<1> SUFFICES ASSUME NEW p \in orders, NEW o, o = [p EXCEPT !.live = FALSE]
             PROVE  /\ o \in [kind : {"create", "delete"}, of : {o.of}, live : BOOLEAN]
                    /\ ~ o.live /\ p.kind = o.kind /\ p.of = o.of
  OBVIOUS
<1>1. p \in [kind : {"create", "delete"}, of : {p.of}, live : BOOLEAN]
  BY DEF MountInv, MountTypes
<1> QED BY <1>1

LEMMA EndsSound ==
  ASSUME MountInv, LoseLink \/ AgentRestarts \/ ControlRestarts
  PROVE  MountInv'
<1>1. Cut /\ UNCHANGED <<wanted, found>>
  BY DEF LoseLink, AgentRestarts, ControlRestarts, rowVars
<1>2. \/ round' = NoRound
      \/ round.at # "waiting" /\ round' = round
      \/ round.at = "waiting" /\ GoTo("error")
  BY DEF LoseLink, AgentRestarts, ControlRestarts, InStep, NoRound
<1>3. CASE AgentRestarts
  <2>1. /\ orders' = {} /\ table' = [m \in Models |-> "none"] /\ stopping' = {}
    BY <1>3 DEF AgentRestarts
  <2>2. \A m \in Models : IsDown(m)'
    BY <2>1 DEF IsDown, Alive
  <2>3. table' \in [Models -> {"none", "pending", "running", "failed"}]
    BY <2>1
  <2> QED BY <1>1, <1>2, <2>1, <2>2, <2>3, CutSound
<1>4. CASE LoseLink \/ ControlRestarts
  <2>1. /\ UNCHANGED <<table, stopping>>
        /\ orders' = {[o EXCEPT !.live = FALSE] : o \in orders}
    BY <1>4 DEF LoseLink, ControlRestarts
  <2>2. \A m \in Models : IsDown(m) => IsDown(m)'
    BY <2>1 DEF IsDown, Alive
  <2>3. table' \in [Models -> {"none", "pending", "running", "failed"}]
    BY <2>1 DEF MountInv, MountTypes
  <2>4. \A o \in orders' : /\ o \in [kind : {"create", "delete"}, of : {o.of}, live : BOOLEAN]
                           /\ ~ o.live /\ \E p \in orders : p.kind = o.kind /\ p.of = o.of
    BY <2>1, OrdersUnheard
  <2> QED BY <1>1, <1>2, <2>2, <2>3, <2>4, CutSound
<1> QED BY <1>3, <1>4

LEMMA ReconnectSound == ASSUME MountInv, Reconnect PROVE MountInv'
<1>1. /\ UNCHANGED <<wanted, found, round, orders, table, stopping>>
      /\ ~ online /\ online' = TRUE /\ \A o \in orders : o.live
      /\ upstream' = [m \in Models |->
           (IF m \in gone THEN <<Says("terminated")>> ELSE <<>>)
           \o (IF table[m] = "none" THEN <<>> ELSE <<Says(table[m])>>)]
  BY DEF Reconnect, rowVars
<1>2. orders = {}
  BY <1>1 DEF MountInv, LinkSound, Offline
<1>3. ASSUME NEW m \in Models
      PROVE  upstream'[m] \in Seq(MountMessages) /\ OnlyStatuses(upstream'[m])
  <2>1. PICK v, w, s, t :
          /\ v = Says("terminated") /\ w = Says(table[m])
          /\ s = (IF m \in gone THEN <<v>> ELSE <<>>)
          /\ t = (IF table[m] = "none" THEN <<>> ELSE <<w>>)
    OBVIOUS
  <2>2. upstream'[m] = s \o t
    BY <1>1, <2>1
  <2>3. v \in MountMessages /\ v.about = "status"
    BY <2>1 DEF Says, MountMessages
  <2>4. table[m] # "none" => w \in MountMessages /\ w.about = "status"
    BY <2>1 DEF Says, MountMessages, MountInv, MountTypes
  <2>5. /\ <<>> \in Seq(MountMessages) /\ OnlyStatuses(<<>>)
        /\ \A x \in MountMessages : /\ <<x>> \in Seq(MountMessages)
                                    /\ x.about = "status" => OnlyStatuses(<<x>>)
    BY DEF OnlyStatuses
  <2>6. s \in Seq(MountMessages) /\ OnlyStatuses(s) /\ t \in Seq(MountMessages) /\ OnlyStatuses(t)
    BY <2>1, <2>3, <2>4, <2>5
  <2>7. s \o t \in Seq(MountMessages) /\ OnlyStatuses(s \o t)
    BY <2>6, StatusesFollow
  <2> QED BY <2>2, <2>7
<1>4. upstream' \in [Models -> Seq(MountMessages)]
  <2>1. PICK up : up = upstream' /\ up = [m \in Models |-> up[m]]
    BY <1>1
  <2> QED BY <1>3, <2>1
<1>5. MountTypes'
  BY <1>1, <1>4 DEF MountInv, MountTypes, RoundTyped, AtWork, AtAsking
<1>6. \A m \in Models : IsDown(m) => IsDown(m)'
  BY <1>1 DEF IsDown, Alive
<1>7. LinkSound'
  <2>1. round.at # "waiting"
    BY <1>1 DEF MountInv, LinkSound, Answered
  <2>2. OrderDone' = OrderDone
    BY <1>1 DEF OrderDone, IsDown, Alive
  <2> QED BY <1>1, <1>2, <1>3, <2>1, <2>2 DEF MountInv, LinkSound, Silent
<1>8. Monotone
  BY <1>1 DEF Monotone
<1> QED BY <1>1, <1>5, <1>6, <1>7, <1>8, RoundKept, GoneKept DEF MountInv

LEMMA MountStep == MountInv /\ [MountNext]_mountVars => MountInv'
<1> SUFFICES ASSUME MountInv, [MountNext]_mountVars PROVE MountInv'
  OBVIOUS
<1>1. CASE GraceEnds \/ UNCHANGED mountVars
  <2>1. UNCHANGED <<wanted, found, round, online, orders, upstream, table, stopping>>
    BY <1>1 DEF GraceEnds, mountVars, rowVars, hostVars
  <2>2. MountTypes'
    BY <2>1 DEF MountInv, MountTypes, RoundTyped, AtWork, AtAsking
  <2>3. Monotone /\ \A m \in Models : IsDown(m) => IsDown(m)'
    BY <2>1 DEF Monotone, IsDown, Alive
  <2> QED BY <2>1, <2>2, <2>3, LinkKept, RoundKept, GoneKept DEF MountInv
<1>2. CASE RoundStep
  BY <1>2, BeginRoundSound, VerifySound, MountLooksSound, AdmitModelSound, OrdersSound,
     SucceededSound, FailedSound DEF RoundStep
<1>3. ASSUME NEW m \in Models,
             Mount(m) \/ Unmount(m) \/ Ready(m) \/ Dies(m) \/ DeliverStatus(m) \/ DeliverAnswer(m)
      PROVE  MountInv'
  BY <1>3, OperatorSound, ProcessesSound, DeliverStatusSound, DeliverAnswerSound
<1>4. ASSUME NEW o \in orders, CarryOut(o) PROVE MountInv'
  BY <1>4, CarryOutSound
<1>5. CASE ReportChanges \/ LoseLink \/ Reconnect \/ AgentRestarts \/ ControlRestarts
  BY <1>5, ReportSound, EndsSound, ReconnectSound
<1> QED BY <1>1, <1>2, <1>3, <1>4, <1>5 DEF MountNext

(***************************************************************************)
(* A model reported unmounted runs nowhere, for any number of models, lost *)
(* connections and restarts: its deletion has been answered on the         *)
(* connection it was ordered on, no order that could start it is still to  *)
(* be carried out, and the pass never mounts it again                      *)
(* (reconciler.go:116-245, admission.go:54-55).                            *)
(***************************************************************************)
THEOREM UnmountedStaysStopped == MountSpec => []UnmountedIsStopped
<1>1. MountInit => MountInv
  <2> SUFFICES ASSUME MountInit PROVE MountInv
    OBVIOUS
  <2>1. MountTypes
    BY DEF MountInit, MountTypes, RoundTyped
  <2>2. LinkSound
    BY DEF MountInit, LinkSound, Silent, OnlyStatuses, NoRound
  <2>3. RoundSound /\ GoneForGood
    BY DEF MountInit, RoundSound, GoneForGood, NoRound
  <2> QED BY <2>1, <2>2, <2>3 DEF MountInv
<1>2. MountInv => UnmountedIsStopped
  BY DEF MountInv, GoneForGood, IsDown, UnmountedIsStopped
<1> QED BY <1>1, <1>2, MountStep, PTL DEF MountSpec

-----------------------------------------------------------------------------
(* Instances.  A pod that stays, and that no command under way will        *)
(* remove, is billed or somebody's: the caller that has it made, or, once  *)
(* that one has its answer, the row it writes.                             *)

Reports == [Instances -> Statuses \cup {"none"}]
Rows    == [Instances -> Statuses \cup {"none", "stopped"}]
Passes  == {NoPass} \cup [at : {"list"}, rows : Rows]
           \cup [at : {"apply"}, rows : Rows, live : Reports, todo : SUBSET Instances]

Busy(c)    == calls[c] # NoCall
Needed(c)  == CommandOf(calls[c].kind)
\* Who is registered for an answer has a request that needs it.
RegisteredFor(c, i, k) ==
  Busy(c) /\ calls[c].inst = i /\ Needed(c) = k /\ calls[c].at \in {"wait", "ok", "error"}
Registered == \A i \in Instances, k \in Kinds, c \in Callers :
  waiting[i][k] = c => RegisteredFor(c, i, k)

RecordsTyped == RecordTypeOK /\ pass \in Passes /\ Registered
LifeTyped == NodeTypeOK /\ RecordsTyped

\* A create or start, or the undoing of one, is the only request on its
\* instance; others may overlap.  A connection is lost between commands.
Starters   == {"create", "start", "undo_create", "undo_start"}
StartsAlone == \A c, d \in Callers :
  Busy(c) /\ Busy(d) /\ calls[c].inst = calls[d].inst /\ calls[c].kind \in Starters => c = d
Orderly == StartsAlone /\ (~linked => cmds = {} /\ \A c \in Callers : ~Busy(c))

\* The instance has a pod that no command under way will remove.
Stays(i)   == \E k \in DOMAIN pods[i] : ~pods[i][k].leaving
Doomed(i)  == \E m \in cmds : m.inst = i /\ m.kind # "create"
Lasting(i) == Stays(i) /\ ~Doomed(i)

\* The caller that is having a pod made of i.
Creates(c, i) == Busy(c) /\ calls[c].inst = i /\ Needed(c) = "create"
MadeIn(u)     == {n \in DOMAIN u : u[n].about = "create"}
Made(i)       == MadeIn(uplink[i])
Making(i)     == {m \in cmds : m.inst = i /\ m.kind = "create"}
BeingMade(i)  == Making(i) # {} \/ Made(i) # {}
AtMostOne(i)  == /\ Making(i) = {} \/ Made(i) = {}
                 /\ \A m, n \in Making(i) : m = n
                 /\ \A m, n \in Made(i) : m = n /\ uplink[i][n].value = "ok"

\* A create command belongs to a caller that waits for it, and is either
\* under way or answered.
CreateAwaited == \A i \in Instances :
  /\ BeingMade(i) => \E c \in Callers : Creates(c, i) /\ calls[c].at = "wait"
  /\ AtMostOne(i)

CreateAnswered == \A c \in Callers, i \in Instances : Creates(c, i) =>
  /\ calls[c].at # "error"
  /\ calls[c].at = "wait" => waiting[i]["create"] = c /\ BeingMade(i)

\* Who has sent for the end of an instance has seen to it.
EndsSeenTo == \A c \in Callers :
  Busy(c) /\ Needed(c) # "create" /\ Lasting(calls[c].inst) =>
    calls[c].at = "send" \/ (calls[c].at = "save" /\ calls[c].kind # "hold")

LastingKnown == \A i \in Instances : Lasting(i) =>
  \/ cache[i] # "none" /\ routed[i]
  \/ \E c \in Callers : Creates(c, i) /\ calls[c].at \in {"wait", "ok"}

UnbilledHeld == \A i \in Instances : Lasting(i) /\ row[i] \in {"none", "stopped"} =>
  \E c \in Callers : Busy(c) /\ calls[c].inst = i /\ calls[c].kind \in Starters

LifeInv == /\ \A m \in cmds : m.live
           /\ CreateAwaited /\ CreateAnswered /\ EndsSeenTo /\ LastingKnown /\ UnbilledHeld

LEMMA ObservedTyped ==
  ASSUME NEW ps \in [Instances -> Seq(Pod)]
  PROVE  [i \in Instances |-> ObservedOf(ps[i])] \in Reports
<1>1. ASSUME NEW i \in Instances PROVE ObservedOf(ps[i]) \in Statuses \cup {"none"}
  <2>1. ps[i] \in Seq(Pod)
    OBVIOUS
  <2>2. CASE ps[i] = <<>>
    BY <2>2 DEF ObservedOf
  <2>3. CASE ps[i] # <<>>
    <3>1. Len(ps[i]) \in 1 .. Len(ps[i])
      BY <2>1, <2>3
    <3>2. ps[i][Len(ps[i])] \in Pod
      BY <2>1, <3>1
    <3> QED BY <2>3, <3>2 DEF ObservedOf, Pod, Phases, Statuses
  <2> QED BY <2>2, <2>3
<1> QED BY <1>1 DEF Reports

LEMMA ChangesTyped ==
  ASSUME NEW seen \in Reports
  PROVE  /\ Changes(seen) \in [Instances -> Seq(Message)]
         /\ \A i \in Instances : \A n \in DOMAIN Changes(seen)[i] :
               Changes(seen)[i][n].about = "status"
<1>1. ASSUME NEW i \in Instances
      PROVE  /\ Changes(seen)[i] \in Seq(Message)
             /\ \A n \in DOMAIN Changes(seen)[i] : Changes(seen)[i][n].about = "status"
  <2> DEFINE m == Status(IF seen[i] = "none" THEN "terminated" ELSE seen[i])
  <2>1. m \in Message /\ m.about = "status"
    BY DEF Status, Message, Reports, Statuses
  <2>2. Changes(seen)[i] \in {<<>>, <<m>>}
    BY DEF Changes
  <2> HIDE DEF m, Message
  <2>3. CASE Changes(seen)[i] = <<>>
    BY <2>3
  <2>4. CASE Changes(seen)[i] = <<m>>
    BY <2>1, <2>4
  <2> QED BY <2>2, <2>3, <2>4
<1> QED BY <1>1 DEF Changes

LEMMA ReplyTyped ==
  ASSUME NodeTypeOK, NEW m \in cmds, NEW v \in {"ok", "error"}, Reply(m, v)
  PROVE  uplink' \in [Instances -> Seq(Message)]
<1>1. m \in Command /\ uplink \in [Instances -> Seq(Message)]
  BY DEF NodeTypeOK
<1>2. Result(m.kind, v) \in Message /\ m.inst \in Instances
  BY <1>1 DEF Result, Message, Command
<1> HIDE DEF Message, Result
<1>3. Append(uplink[m.inst], Result(m.kind, v)) \in Seq(Message)
  BY <1>1, <1>2
<1> QED BY <1>1, <1>2, <1>3 DEF Reply

LEMMA TeardownTyped ==
  ASSUME NodeTypeOK, NEW i \in Instances, Teardown(i)
  PROVE  pods' \in [Instances -> Seq(Pod)]
<1>1. pods[i] \in Seq(Pod) /\ pods \in [Instances -> Seq(Pod)]
  BY DEF NodeTypeOK
<1> DEFINE t == [k \in DOMAIN pods[i] |-> [pods[i][k] EXCEPT !.leaving = TRUE]]
<1>2. t \in Seq(Pod)
  <2>1. \A k \in DOMAIN pods[i] : pods[i][k] \in Pod
    BY <1>1
  <2>2. \A k \in DOMAIN pods[i] : [pods[i][k] EXCEPT !.leaving = TRUE] \in Pod
    BY <2>1 DEF Pod
  <2>3. t \in [1 .. Len(pods[i]) -> Pod]
    BY <1>1, <2>2
  <2> QED BY <1>1, <2>3
<1>3. pods' = [pods EXCEPT ![i] = IF GracefulExit THEN t ELSE <<>>]
  BY DEF Teardown
<1> HIDE DEF t
<1>4. <<>> \in Seq(Pod)
  OBVIOUS
<1> QED BY <1>1, <1>2, <1>3, <1>4

LEMMA CommandTyped ==
  ASSUME NodeTypeOK, NEW m \in cmds, CommandStep(m)
  PROVE  NodeTypeOK'
<1>0. /\ m \in Command /\ m.inst \in Instances /\ cmds \subseteq Command
      /\ HasDisk \subseteq Instances
  BY InstanceAssumption DEF NodeTypeOK, Command
<1>1. CASE CheckExisting(m)
  <2>1. [m EXCEPT !.step = "create"] \in Command
    BY <1>0 DEF Command
  <2>2. cmds' \subseteq Command
    BY <1>0, <1>1, <2>1 DEF CheckExisting
  <2>3. uplink' \in [Instances -> Seq(Message)]
    <3>1. CASE Reply(m, "ok")
      BY <3>1, ReplyTyped
    <3>2. CASE UNCHANGED uplink
      BY <3>2 DEF NodeTypeOK
    <3> QED BY <1>1, <3>1, <3>2 DEF CheckExisting
  <2> QED BY <1>1, <2>2, <2>3 DEF CheckExisting, NodeTypeOK
<1>2. CASE CreatePod(m)
  <2>1. pods' \in [Instances -> Seq(Pod)]
    <3>1. [phase |-> "pending", leaving |-> FALSE] \in Pod
      BY DEF Pod, Phases
    <3>2. pods[m.inst] \in Seq(Pod) /\ pods \in [Instances -> Seq(Pod)]
      BY <1>0 DEF NodeTypeOK
    <3>3. Append(pods[m.inst], [phase |-> "pending", leaving |-> FALSE]) \in Seq(Pod)
      BY <3>1, <3>2
    <3> QED BY <1>2, <3>2, <3>3 DEF CreatePod
  <2>2. /\ lastReported' \in Reports
        /\ uplink' \in [Instances -> Seq(Message)]
    <3>1. CASE m.live
      <4> DEFINE seen == [i \in Instances |-> ObservedOf(pods'[i])]
      <4>1. seen \in Reports
        BY <2>1, ObservedTyped
      <4> HIDE DEF seen
      <4>2. Changes(seen) \in [Instances -> Seq(Message)]
        BY <4>1, ChangesTyped
      <4>3. Result("create", "ok") \in Message
        BY DEF Result, Message, Kinds
      <4>4. uplink \in [Instances -> Seq(Message)]
        BY DEF NodeTypeOK
      <4> HIDE DEF Message, Result
      <4>5. uplink' = [i \in Instances |->
              uplink[i] \o (IF i = m.inst THEN <<Result("create", "ok")>> ELSE <<>>)
                        \o Changes(seen)[i]]
        BY <1>2, <3>1 DEF CreatePod, seen
      <4>6. lastReported' = seen
        BY <1>2, <3>1 DEF CreatePod, seen
      <4>7. ASSUME NEW i \in Instances
            PROVE  uplink[i] \o (IF i = m.inst THEN <<Result("create", "ok")>> ELSE <<>>)
                             \o Changes(seen)[i] \in Seq(Message)
        <5>1. (IF i = m.inst THEN <<Result("create", "ok")>> ELSE <<>>) \in Seq(Message)
          BY <4>3
        <5> QED BY <5>1, <4>2, <4>4
      <4> QED BY <4>1, <4>5, <4>6, <4>7
    <3>2. CASE ~m.live
      BY <1>2, <3>2 DEF CreatePod, NodeTypeOK, Reports
    <3> QED BY <3>1, <3>2
  <2> QED BY <1>0, <1>2, <2>1, <2>2 DEF CreatePod, NodeTypeOK, Reports
<1>3. CASE CreateFails(m)
  <2>1. uplink' \in [Instances -> Seq(Message)]
    BY <1>3, ReplyTyped DEF CreateFails
  <2> QED BY <1>0, <1>3, <2>1 DEF CreateFails, NodeTypeOK
<1>4. CASE HandleDelete(m) \/ HandleStop(m)
  <2>1. uplink' \in [Instances -> Seq(Message)]
    BY <1>4, ReplyTyped DEF HandleDelete, HandleStop
  <2>2. pods' \in [Instances -> Seq(Pod)]
    BY <1>0, <1>4, TeardownTyped DEF HandleDelete, HandleStop
  <2>3. lastReported' \in [Instances -> Statuses \cup {"none"}]
    BY <1>0, <1>4 DEF HandleDelete, HandleStop, Forget, NodeTypeOK
  <2> QED BY <1>0, <1>4, <2>1, <2>2, <2>3 DEF HandleDelete, HandleStop, NodeTypeOK
<1>5. CASE RemoveFails(m)
  <2>1. uplink' \in [Instances -> Seq(Message)]
    BY <1>5, ReplyTyped DEF RemoveFails
  <2>2. pods' \in [Instances -> Seq(Pod)]
    <3>1. CASE Teardown(m.inst)
      BY <1>0, <3>1, TeardownTyped
    <3>2. CASE UNCHANGED <<pods, disks>>
      BY <3>2 DEF NodeTypeOK
    <3> QED BY <1>5, <3>1, <3>2 DEF RemoveFails
  <2> QED BY <1>0, <1>5, <2>1, <2>2 DEF RemoveFails, NodeTypeOK
<1>6. CASE CommandLost(m)
  BY <1>6 DEF CommandLost, NodeTypeOK
<1> QED BY <1>1, <1>2, <1>3, <1>4, <1>5, <1>6 DEF CommandStep, HandleCommand

\* Removing one element of a sequence.
LEMMA WithoutOne ==
  ASSUME NEW S, NEW s \in Seq(S), NEW k \in DOMAIN s
  PROVE  LET t == SubSeq(s, 1, k - 1) \o SubSeq(s, k + 1, Len(s))
         IN  t \in Seq(S) /\ \A n \in DOMAIN t : \E m \in DOMAIN s : t[n] = s[m]
<1> DEFINE a == SubSeq(s, 1, k - 1)
           b == SubSeq(s, k + 1, Len(s))
<1>0. k \in 1 .. Len(s) /\ Len(s) \in Nat
  OBVIOUS
<1>1. a \in Seq(S) /\ Len(a) = k - 1 /\ \A n \in 1 .. (k - 1) : a[n] = s[n]
  BY <1>0
<1>2. b \in Seq(S) /\ Len(b) = Len(s) - k /\ \A n \in 1 .. (Len(s) - k) : b[n] = s[n + k]
  BY <1>0
<1> HIDE DEF a, b
<1>3. /\ a \o b \in Seq(S) /\ Len(a \o b) = Len(s) - 1
      /\ \A n \in 1 .. (Len(s) - 1) : (a \o b)[n] = IF n <= k - 1 THEN a[n] ELSE b[n - (k - 1)]
  BY <1>0, <1>1, <1>2
<1>4. ASSUME NEW n \in DOMAIN (a \o b) PROVE \E m \in DOMAIN s : (a \o b)[n] = s[m]
  <2>1. n \in 1 .. (Len(s) - 1)
    BY <1>3
  <2>2. CASE n <= k - 1
    BY <1>0, <1>1, <1>3, <2>1, <2>2
  <2>3. CASE ~(n <= k - 1)
    <3>1. n - (k - 1) \in 1 .. (Len(s) - k)
      BY <1>0, <2>1, <2>3
    <3>2. (a \o b)[n] = b[n - (k - 1)]
      BY <1>3, <2>1, <2>3
    <3>3. b[n - (k - 1)] = s[(n - (k - 1)) + k]
      BY <1>2, <3>1
    <3>4. (n - (k - 1)) + k \in DOMAIN s
      BY <1>0, <2>1, <2>3
    <3> QED BY <3>2, <3>3, <3>4
  <2> QED BY <2>2, <2>3
<1> QED BY <1>3, <1>4 DEF a, b

LEMMA SweepTyped ==
  ASSUME NodeTypeOK, SweepList \/ SweepReport
  PROVE  NodeTypeOK'
<1>1. CASE SweepList
  <2>1. Observed \in Reports
    BY ObservedTyped DEF NodeTypeOK, Observed
  <2> QED BY <1>1, <2>1 DEF SweepList, NodeTypeOK, Reports
<1>2. CASE SweepReport
  <2>1. listing \in Reports
    BY <1>2 DEF SweepReport, NodeTypeOK, Reports
  <2>2. Changes(listing) \in [Instances -> Seq(Message)]
    BY <2>1, ChangesTyped
  <2>3. uplink \in [Instances -> Seq(Message)]
    BY DEF NodeTypeOK
  <2> HIDE DEF Message
  <2>4. uplink' \in [Instances -> Seq(Message)]
    <3>1. uplink' = [i \in Instances |-> uplink[i] \o Changes(listing)[i]]
      BY <1>2 DEF SweepReport, Report
    <3>2. \A i \in Instances : uplink[i] \o Changes(listing)[i] \in Seq(Message)
      BY <2>2, <2>3
    <3> QED BY <3>1, <3>2
  <2> QED BY <1>2, <2>1, <2>4 DEF SweepReport, Report, NodeTypeOK, Reports
<1> QED BY <1>1, <1>2

LEMMA PodTyped ==
  ASSUME NodeTypeOK, NEW i \in Instances, NEW k \in DOMAIN pods[i], PodChanges(i, k) \/ PodGone(i, k)
  PROVE  NodeTypeOK'
<1>0. pods \in [Instances -> Seq(Pod)] /\ pods[i] \in Seq(Pod) /\ pods[i][k] \in Pod
  BY DEF NodeTypeOK
<1>1. CASE PodChanges(i, k)
  <2>1. PICK phase \in Phases : SetPhase(i, k, phase)
    BY <1>1 DEF PodChanges, Phases
  <2>2. [pods[i][k] EXCEPT !.phase = phase] \in Pod
    BY <1>0 DEF Pod
  <2>3. [pods[i] EXCEPT ![k] = [pods[i][k] EXCEPT !.phase = phase]] \in Seq(Pod)
    BY <1>0, <2>2
  <2>4. pods' \in [Instances -> Seq(Pod)]
    BY <1>0, <2>1, <2>3 DEF SetPhase
  <2> QED BY <1>1, <2>4 DEF PodChanges, NodeTypeOK
<1>2. CASE PodGone(i, k)
  <2>1. SubSeq(pods[i], 1, k - 1) \o SubSeq(pods[i], k + 1, Len(pods[i])) \in Seq(Pod)
    BY <1>0, WithoutOne
  <2>2. pods' \in [Instances -> Seq(Pod)]
    BY <1>0, <1>2, <2>1 DEF PodGone
  <2> QED BY <1>2, <2>2 DEF PodGone, NodeTypeOK
<1> QED BY <1>1, <1>2

LEMMA NodeStepTyped == ASSUME NodeTypeOK, NodeStep PROVE NodeTypeOK'
BY CommandTyped, SweepTyped, PodTyped DEF NodeStep

LEMMA ConnectTyped == ASSUME NodeTypeOK, Connect PROVE NodeTypeOK'
<1>1. Observed \in Reports
  BY ObservedTyped DEF NodeTypeOK, Observed
<1>2. uplink' \in [Instances -> Seq(Message)]
  <2>1. ASSUME NEW i \in Instances, Observed[i] # "none" PROVE <<Status(Observed[i])>> \in Seq(Message)
    <3>1. Status(Observed[i]) \in Message
      BY <1>1, <2>1 DEF Status, Message, Reports
    <3> QED BY <3>1
  <2> QED BY <2>1 DEF Connect
<1> QED BY <1>1, <1>2 DEF Connect, NodeTypeOK, Reports

LEMMA CutTyped ==
  ASSUME NodeTypeOK, CutStream, drops' \in 0 .. MaxDrops
  PROVE  NodeTypeOK'
<1>1. cmds' \subseteq Command
  BY DEF CutStream, NodeTypeOK, Command
<1>2. uplink' \in [Instances -> Seq(Message)]
  BY DEF CutStream
<1> QED BY <1>1, <1>2 DEF CutStream, NodeTypeOK

LEMMA ReceiveTyped ==
  ASSUME NodeTypeOK, NEW kind \in Kinds, NEW i \in Instances, Receive(kind, i)
  PROVE  NodeTypeOK'
<1>1. received' \in 1 .. MaxCommands
  BY NodeAssumption DEF Receive, NodeTypeOK
<1>2. [id |-> received', kind |-> kind, inst |-> i, step |-> "start", live |-> TRUE] \in Command
  BY <1>1 DEF Command
<1>3. cmds' \subseteq Command
  BY <1>2 DEF Receive, NodeTypeOK
<1> QED BY <1>1, <1>3 DEF Receive, NodeTypeOK

LEMMA DeliverTyped ==
  ASSUME NodeTypeOK, NEW i \in Instances, uplink[i] # <<>>,
         uplink' = [uplink EXCEPT ![i] = Tail(@)],
         UNCHANGED <<pods, disks, cmds, received, lastReported, listing, linked, drops>>
  PROVE  NodeTypeOK'
<1>1. uplink \in [Instances -> Seq(Message)] /\ uplink[i] \in Seq(Message)
  BY DEF NodeTypeOK
<1> HIDE DEF Message
<1>2. Tail(uplink[i]) \in Seq(Message)
  BY <1>1
<1> QED BY <1>1, <1>2 DEF NodeTypeOK

-----------------------------------------------------------------------------
LEMMA CallWell ==
  ASSUME RecordTypeOK, NEW c \in Callers, Busy(c)
  PROVE  /\ calls[c] \in Call /\ calls[c].inst \in Instances /\ calls[c].kind \in CallKinds
         /\ Needed(c) \in Kinds /\ Needed(c) = CommandOf(calls[c].kind)
BY DEF RecordTypeOK, Busy, Needed, Call, CommandOf, Kinds

\* A step that is one caller's.
LEMMA RegisteredStays ==
  ASSUME RecordTypeOK, Registered, NEW c \in Callers,
         \A d \in Callers : d # c => calls'[d] = calls[d],
         \A i \in Instances, k \in Kinds :
            \/ waiting'[i][k] = c /\ RegisteredFor(c, i, k)'
            \/ waiting'[i][k] # c /\ waiting'[i][k] \in {waiting[i][k], Nobody}
  PROVE  Registered'
<1>1. ASSUME NEW i \in Instances, NEW k \in Kinds, NEW d \in Callers, waiting'[i][k] = d
      PROVE  RegisteredFor(d, i, k)'
  <2>1. CASE d = c
    BY <1>1, <2>1
  <2>2. CASE d # c
    <3>1. waiting[i][k] = d
      BY <1>1, <2>2, RecordAssumption DEF Nobody
    <3>2. RegisteredFor(d, i, k) /\ calls'[d] = calls[d]
      BY <2>2, <3>1 DEF Registered
    <3> QED BY <3>2 DEF RegisteredFor, Busy, Needed
  <2> QED BY <2>1, <2>2
<1> QED BY <1>1 DEF Registered

LEMMA RecordStaysTyped ==
  ASSUME RecordsTyped, UNCHANGED <<row, drawn, pass, requests, restarts>>,
         calls' \in [Callers -> Call \cup {NoCall}], cache' \in Reports,
         routed' \in [Instances -> BOOLEAN], warm' \in BOOLEAN,
         waiting' \in [Instances -> [Kinds -> Callers \cup {Nobody}]], Registered'
  PROVE  RecordsTyped'
BY DEF RecordsTyped, RecordTypeOK, Reports

LEMMA CallMoves ==
  ASSUME RecordTypeOK, NEW c \in Callers, Busy(c),
         NEW at \in {"send", "wait", "ok", "error", "save"}, Go(c, at) \/ Finish(c)
  PROVE  /\ calls' \in [Callers -> Call \cup {NoCall}]
         /\ \A d \in Callers : d # c => calls'[d] = calls[d]
<1>1. [calls[c] EXCEPT !.at = at] \in Call
  BY CallWell DEF Call
<1> QED BY <1>1 DEF Go, Finish, SetCall, RecordTypeOK

LEMMA AskTyped ==
  ASSUME RecordsTyped, NEW c \in Callers, NEW kind, NEW i \in Instances,
         NEW connected, Ask(c, kind, i, connected)
  PROVE  RecordsTyped'
<1>0. RecordTypeOK /\ pass \in Passes /\ Registered
  BY DEF RecordsTyped
<1>1. kind \in RequestKinds /\ kind \in CallKinds
  BY RecordAssumption DEF Ask, CallKinds
<1>2. calls' \in [Callers -> Call \cup {NoCall}] /\ \A d \in Callers : d # c => calls'[d] = calls[d]
  <2>1. [kind |-> kind, inst |-> i, at |-> "send"] \in Call
    BY <1>1 DEF Call
  <2> QED BY <1>0, <2>1 DEF Ask, SetCall, RecordTypeOK
<1>3. requests' \in [RequestKinds -> 0 .. MaxOfEach]
  BY <1>0, <1>1, RecordAssumption DEF Ask, RecordTypeOK
<1>4. Registered'
  <2>1. waiting' = waiting /\ \A j \in Instances, k \in Kinds : waiting[j][k] # c
    BY <1>0 DEF Ask, Registered, RegisteredFor, Busy, Idle
  <2> QED BY <1>0, <1>2, <2>1, RegisteredStays
<1>5. RecordTypeOK'
  BY <1>0, <1>2, <1>3 DEF Ask, RecordTypeOK
<1> QED BY <1>0, <1>4, <1>5 DEF RecordsTyped, Ask

LEMMA RoutedTyped ==
  ASSUME RecordTypeOK, NEW call
  PROVE  Routed(call) \in [Instances -> BOOLEAN]
<1>1. ASSUME NEW i \in Instances PROVE Routed(call)[i] \in BOOLEAN
  BY DEF Routed, RecordTypeOK, Routes
<1> QED BY <1>1 DEF Routed, RecordTypeOK

\* At these stages nobody is registered.
LEMMA NotRegistered ==
  ASSUME Registered, NEW c \in Callers, Busy(c), calls[c].at \in {"send", "save"},
         NEW i \in Instances, NEW k \in Kinds
  PROVE  waiting[i][k] # c
BY DEF Registered, RegisteredFor

LEMMA SendTyped ==
  ASSUME RecordsTyped, NEW c \in Callers, NEW connected,
         SkipAbsent(c) \/ Unavailable(c, connected) \/ AskAnother(c) \/ Dispatch(c, connected)
  PROVE  RecordsTyped'
<1>0. Busy(c) /\ calls[c].at = "send" /\ RecordTypeOK /\ Registered
  BY DEF SkipAbsent, Unavailable, AskAnother, Dispatch, Sending, Busy, RecordsTyped
<1>1. calls' \in [Callers -> Call \cup {NoCall}] /\ \A d \in Callers : d # c => calls'[d] = calls[d]
  BY <1>0, CallMoves DEF SkipAbsent, Unavailable, AskAnother, Dispatch
<1>2. routed' \in [Instances -> BOOLEAN]
  BY <1>0, RoutedTyped DEF SkipAbsent, Unavailable, AskAnother, Dispatch, RecordTypeOK
<1>3. UNCHANGED <<row, cache, warm, drawn, pass, requests, restarts>>
  BY DEF SkipAbsent, Unavailable, AskAnother, Dispatch
<1>4. /\ waiting' \in [Instances -> [Kinds -> Callers \cup {Nobody}]]
      /\ Registered'
  <2>1. CASE UNCHANGED waiting
    <3>1. \A i \in Instances, k \in Kinds : waiting[i][k] # c
      BY <1>0, NotRegistered
    <3> QED BY <1>0, <1>1, <2>1, <3>1, RegisteredStays DEF RecordTypeOK
  <2>2. CASE Dispatch(c, connected)
    <3>1. PICK i \in Instances, k \in Kinds : i = calls[c].inst /\ k = Needed(c)
      BY <1>0, CallWell
    <3>2. waiting' = [waiting EXCEPT ![i][k] = c]
      BY <2>2, <3>1 DEF Dispatch, Needed
    <3>3. waiting' \in [Instances -> [Kinds -> Callers \cup {Nobody}]]
      BY <1>0, <3>1, <3>2 DEF RecordTypeOK
    <3>4. RegisteredFor(c, i, k)'
      BY <1>0, <2>2, <3>1, CallWell
         DEF Dispatch, Go, SetCall, RegisteredFor, Busy, Needed, RecordTypeOK, Call, NoCall
    <3>5. ASSUME NEW j \in Instances, NEW l \in Kinds
          PROVE  \/ waiting'[j][l] = c /\ RegisteredFor(c, j, l)'
                 \/ waiting'[j][l] # c /\ waiting'[j][l] \in {waiting[j][l], Nobody}
      <4>1. CASE j = i /\ l = k
        BY <1>0, <3>1, <3>2, <3>4, <4>1 DEF RecordTypeOK
      <4>2. CASE ~(j = i /\ l = k)
        <5>1. waiting'[j][l] = waiting[j][l]
          BY <1>0, <3>1, <3>2, <4>2 DEF RecordTypeOK
        <5>2. waiting[j][l] # c
          BY <1>0, NotRegistered
        <5> QED BY <5>1, <5>2
      <4> QED BY <4>1, <4>2
    <3> QED BY <1>0, <1>1, <3>3, <3>5, RegisteredStays
  <2> QED BY <2>1, <2>2 DEF SkipAbsent, Unavailable, AskAnother
<1> QED BY <1>0, <1>1, <1>2, <1>3, <1>4, RecordStaysTyped DEF RecordTypeOK, Reports

LEMMA AnswerTyped ==
  ASSUME RecordsTyped, NEW i \in Instances, NEW kind \in Kinds,
         NEW value \in {"ok", "error"}, Answer(i, kind, value)
  PROVE  RecordsTyped'
<1>0. RecordTypeOK /\ Registered
  BY DEF RecordsTyped
<1>1. UNCHANGED <<row, cache, routed, warm, waiting, drawn, pass, requests, restarts>>
  BY DEF Answer
<1>2. CASE UNCHANGED calls
  BY <1>1, <1>2 DEF RecordsTyped, RecordTypeOK, Registered, RegisteredFor, Busy, Needed
<1>3. ASSUME NEW c \in Callers, c = waiting[i][kind], Go(c, value)
      PROVE  RecordsTyped'
  <2>1. RegisteredFor(c, i, kind)
    BY <1>0, <1>3 DEF Registered
  <2>2. calls' \in [Callers -> Call \cup {NoCall}] /\ \A d \in Callers : d # c => calls'[d] = calls[d]
    BY <1>0, <1>3, <2>1, CallMoves DEF RegisteredFor
  <2>3. calls[c] \in Call /\ calls'[c] = [calls[c] EXCEPT !.at = value]
    BY <1>0, <1>3, <2>1, CallWell DEF RegisteredFor, Go, SetCall, RecordTypeOK
  <2>4. ASSUME NEW j \in Instances, NEW l \in Kinds, waiting[j][l] = c
        PROVE  RegisteredFor(c, j, l)'
    <3>1. RegisteredFor(c, j, l)
      BY <1>0, <2>4 DEF Registered
    <3> QED BY <2>3, <3>1 DEF RegisteredFor, Busy, Needed, Call, NoCall
  <2>5. Registered'
    BY <1>0, <1>1, <2>2, <2>4, RegisteredStays
  <2> QED BY <1>0, <1>1, <2>2, <2>5, RecordStaysTyped DEF RecordTypeOK, Reports
<1>4. waiting[i][kind] \in Callers \cup {Nobody}
  BY <1>0 DEF RecordTypeOK
<1> QED BY <1>2, <1>3, <1>4 DEF Answer

\* A caller that leaves its place in the table.
LEMMA UnregisterTyped ==
  ASSUME RecordsTyped, NEW c \in Callers, Busy(c), Unregister(calls[c]),
         \A d \in Callers : d # c => calls'[d] = calls[d]
  PROVE  /\ waiting' \in [Instances -> [Kinds -> Callers \cup {Nobody}]]
         /\ Registered'
<1>0. RecordTypeOK /\ Registered
  BY DEF RecordsTyped
<1>1. PICK i \in Instances, k \in Kinds : i = calls[c].inst /\ k = Needed(c)
  BY <1>0, CallWell
<1>2. waiting' = [waiting EXCEPT ![i][k] = Nobody]
  BY <1>1 DEF Unregister, Needed
<1>3. ASSUME NEW j \in Instances, NEW l \in Kinds
      PROVE  waiting'[j][l] # c /\ waiting'[j][l] \in {waiting[j][l], Nobody}
  <2>1. CASE j = i /\ l = k
    BY <1>0, <1>2, <2>1, RecordAssumption DEF RecordTypeOK, Nobody
  <2>2. CASE ~(j = i /\ l = k)
    <3>1. waiting'[j][l] = waiting[j][l]
      BY <1>0, <1>2, <2>2 DEF RecordTypeOK
    <3>2. waiting[j][l] # c
      BY <1>0, <1>1, <2>2 DEF Registered, RegisteredFor
    <3> QED BY <3>1, <3>2
  <2> QED BY <2>1, <2>2
<1>4. waiting' \in [Instances -> [Kinds -> Callers \cup {Nobody}]]
  BY <1>0, <1>2 DEF RecordTypeOK
<1> QED BY <1>0, <1>3, <1>4, RegisteredStays

LEMMA GiveUpTyped == ASSUME RecordsTyped, NEW c \in Callers, GiveUp(c) PROVE RecordsTyped'
<1>0. Busy(c) /\ RecordTypeOK
  BY DEF GiveUp, Waiting, Busy, RecordsTyped
<1>1. calls' \in [Callers -> Call \cup {NoCall}] /\ \A d \in Callers : d # c => calls'[d] = calls[d]
  BY <1>0, CallMoves DEF GiveUp
<1>2. waiting' \in [Instances -> [Kinds -> Callers \cup {Nobody}]] /\ Registered'
  BY <1>0, <1>1, UnregisterTyped DEF GiveUp
<1> QED BY <1>0, <1>1, <1>2, RecordStaysTyped DEF GiveUp, RecordTypeOK, Reports

LEMMA ResumeTyped == ASSUME RecordsTyped, NEW c \in Callers, Resume(c) PROVE RecordsTyped'
<1>0. Busy(c) /\ RecordTypeOK /\ calls[c].inst \in Instances /\ Needed(c) \in Kinds
  <2>1. Busy(c) /\ RecordTypeOK
    BY DEF Resume, Busy, RecordsTyped
  <2> QED BY <2>1, CallWell
<1>1. calls' \in [Callers -> Call \cup {NoCall}] /\ \A d \in Callers : d # c => calls'[d] = calls[d]
  <2>1. Finish(c) \/ Go(c, "save")
    BY DEF Resume
  <2> QED BY <1>0, <2>1, CallMoves
<1>2. waiting' \in [Instances -> [Kinds -> Callers \cup {Nobody}]] /\ Registered'
  BY <1>0, <1>1, UnregisterTyped DEF Resume
<1>3. cache' \in Reports /\ routed' \in [Instances -> BOOLEAN]
  <2>1. cache \in Reports /\ routed \in [Instances -> BOOLEAN]
    BY <1>0 DEF RecordTypeOK, Reports
  <2>2. CASE UNCHANGED <<cache, routed>>
    BY <2>1, <2>2
  <2>3. CASE Needed(c) = "create" /\ cache' = Recorded(calls[c].inst, "pending")
             /\ routed' = [routed EXCEPT ![calls[c].inst] = TRUE]
    BY <1>0, <2>1, <2>3 DEF Recorded, Reports, Statuses
  <2>4. CASE cache' = [cache EXCEPT ![calls[c].inst] = "none"]
             /\ (UNCHANGED routed \/ routed' = [routed EXCEPT ![calls[c].inst] = FALSE])
    BY <1>0, <2>1, <2>4 DEF Reports
  <2> QED BY <1>0, <2>2, <2>3, <2>4 DEF Resume, Needed, Kinds
<1> QED BY <1>0, <1>1, <1>2, <1>3, RecordStaysTyped DEF Resume, RecordTypeOK

LEMMA RecordStatusTyped ==
  ASSUME RecordsTyped, NEW i \in Instances, NEW s \in Statuses, RecordStatus(i, s)
  PROVE  RecordsTyped'
<1>1. cache' \in Reports
  BY DEF RecordStatus, Recorded, RecordsTyped, RecordTypeOK, Reports
<1>2. UNCHANGED <<row, routed, warm, waiting, calls, drawn, pass, requests, restarts>>
  BY DEF RecordStatus
<1>3. Registered'
  BY <1>2 DEF RecordsTyped, Registered, RegisteredFor, Busy, Needed
<1> QED BY <1>1, <1>2, <1>3 DEF RecordsTyped, RecordTypeOK, Reports

LEMMA SaveTyped == ASSUME RecordsTyped, NEW c \in Callers, Save(c) PROVE RecordsTyped'
<1>0. Busy(c) /\ calls[c].at = "save" /\ RecordTypeOK /\ Registered /\ pass \in Passes
  BY DEF Save, SaveNew, SaveStarted, SaveTerminated, SaveStopped, Saving, Busy, RecordsTyped
<1>1. /\ calls[c] \in Call /\ calls[c].inst \in Instances
      /\ \A i \in Instances, k \in Kinds : waiting[i][k] # c
  BY <1>0, CallWell, NotRegistered
<1>2. calls' \in [Callers -> Call \cup {NoCall}] /\ \A d \in Callers : d # c => calls'[d] = calls[d]
  <2>1. CASE Finish(c)
    BY <1>0, <2>1, CallMoves
  <2>2. ASSUME NEW k \in {"undo_create", "undo_start"},
               SetCall(c, [calls[c] EXCEPT !.kind = k, !.at = "send"])
        PROVE  /\ calls' \in [Callers -> Call \cup {NoCall}]
               /\ \A d \in Callers : d # c => calls'[d] = calls[d]
    <3>1. [calls[c] EXCEPT !.kind = k, !.at = "send"] \in Call
      BY <1>1 DEF Call, CallKinds
    <3> QED BY <1>0, <2>2, <3>1 DEF SetCall, RecordTypeOK
  <2> QED BY <2>1, <2>2 DEF Save, SaveNew, SaveStarted, SaveTerminated, SaveStopped
<1>3. row' \in Rows
  <2>1. row \in Rows
    BY <1>0 DEF RecordTypeOK, Rows
  <2>2. UNCHANGED row \/ \E s \in {"pending", "terminated", "stopped"} : SetRow(calls[c].inst, s)
    BY DEF Save, SaveNew, SaveStarted, SaveTerminated, SaveStopped, MarkTerminated
  <2> QED BY <1>1, <2>1, <2>2 DEF SetRow, Rows, Statuses
<1>4. UNCHANGED <<cache, routed, warm, waiting, drawn, pass, requests, restarts>>
  BY DEF Save, SaveNew, SaveStarted, SaveTerminated, SaveStopped
<1>5. Registered'
  BY <1>0, <1>1, <1>2, <1>4, RegisteredStays
<1>6. RecordTypeOK'
  BY <1>0, <1>2, <1>3, <1>4 DEF RecordTypeOK, Rows
<1> QED BY <1>0, <1>4, <1>5, <1>6 DEF RecordsTyped

\* A step of the reconciler.
LEMMA PassTyped ==
  ASSUME RecordsTyped, Reconcile
  PROVE  /\ RecordsTyped'
         /\ UNCHANGED <<cache, routed, warm, waiting, calls, drawn, requests, restarts>>
         /\ \A i \in Instances : row'[i] = row[i] \/ row'[i] \in Statuses
<1>0. RecordTypeOK /\ Registered /\ pass \in Passes /\ row \in Rows /\ cache \in Reports
  BY DEF RecordsTyped, RecordTypeOK, Rows, Reports
<1>1. UNCHANGED <<cache, routed, warm, waiting, calls, drawn, requests, restarts>>
  BY DEF Reconcile, ReconcileRead, ReconcileList, ReconcileApply
<1>2. /\ row' \in Rows /\ pass' \in Passes
      /\ \A i \in Instances : row'[i] = row[i] \/ row'[i] \in Statuses
  <2>1. CASE ReconcileRead
    BY <1>0, <2>1 DEF ReconcileRead, Passes
  <2>2. CASE ReconcileList(linked)
    <3>1. pass.rows \in Rows
      BY <1>0, <2>2 DEF ReconcileList, Passes, NoPass
    <3> QED BY <1>0, <2>2, <3>1 DEF ReconcileList, Passes
  <2>3. ASSUME NEW i \in Instances, ReconcileApply(i)
        PROVE  /\ row' \in Rows /\ pass' \in Passes
               /\ \A j \in Instances : row'[j] = row[j] \/ row'[j] \in Statuses
    <3>1. /\ pass.rows \in Rows /\ pass.live \in Reports /\ pass.todo \in SUBSET Instances
          /\ pass \in [at : {"apply"}, rows : Rows, live : Reports, todo : SUBSET Instances]
      BY <1>0, <2>3 DEF ReconcileApply, Passes, NoPass
    <3>2. pass' \in Passes
      BY <2>3, <3>1 DEF ReconcileApply, Passes
    <3>3. row' = row \/ \E s \in Statuses : row' = [row EXCEPT ![i] = s]
      <4>1. pass.live[i] \in Statuses \cup {"none"}
        BY <3>1 DEF Reports
      <4> QED BY <2>3, <4>1 DEF ReconcileApply, Reconciled, Statuses
    <3> QED BY <1>0, <3>2, <3>3 DEF Rows
  <2> QED BY <2>1, <2>2, <2>3 DEF Reconcile
<1>3. Registered'
  BY <1>0, <1>1 DEF Registered, RegisteredFor, Busy, Needed
<1>4. RecordTypeOK'
  BY <1>0, <1>1, <1>2 DEF RecordTypeOK, Rows, Passes, NoPass
<1> QED BY <1>1, <1>2, <1>3, <1>4 DEF RecordsTyped

LEMMA CloseTyped == ASSUME RecordsTyped, CloseSession PROVE RecordsTyped'
<1>0. RecordTypeOK /\ Registered /\ pass \in Passes
  BY DEF RecordsTyped
<1>1. calls' \in [Callers -> Call \cup {NoCall}]
  <2>1. ASSUME NEW c \in Callers, NEW i \in Instances, NEW k \in Kinds, waiting[i][k] = c
        PROVE  [calls[c] EXCEPT !.at = "error"] \in Call
    <3>1. calls[c] \in Call
      BY <1>0, <2>1, CallWell DEF Registered, RegisteredFor
    <3> QED BY <3>1 DEF Call
  <2> QED BY <1>0, <2>1 DEF CloseSession, RecordTypeOK
<1>2. /\ waiting' \in [Instances -> [Kinds -> Callers \cup {Nobody}]]
      /\ \A i \in Instances, k \in Kinds : waiting'[i][k] = Nobody
  BY DEF CloseSession, NoOneWaiting
<1>3. Registered'
  BY <1>2, RecordAssumption DEF Registered, Nobody
<1> QED BY <1>0, <1>1, <1>2, <1>3, RecordStaysTyped DEF CloseSession, RecordTypeOK, Reports

LEMMA RestartTyped == ASSUME RecordsTyped, Restart PROVE RecordsTyped'
<1>0. RecordTypeOK /\ Registered /\ pass \in Passes
  BY DEF RecordsTyped
<1>1. /\ waiting' \in [Instances -> [Kinds -> Callers \cup {Nobody}]]
      /\ \A i \in Instances, k \in Kinds : waiting'[i][k] = Nobody
  BY DEF Restart, NoOneWaiting
<1>2. Registered'
  BY <1>1, RecordAssumption DEF Registered, Nobody
<1>3. RecordTypeOK'
  <2>1. restarts' \in 0 .. MaxRestarts
    BY <1>0, RecordAssumption DEF Restart, RecordTypeOK
  <2> QED BY <1>0, <1>1, <2>1 DEF Restart, RecordTypeOK, NoPass
<1> QED BY <1>2, <1>3 DEF RecordsTyped, Restart, Passes

LEMMA GraceTyped == ASSUME RecordsTyped, GraceOver PROVE RecordsTyped'
BY DEF RecordsTyped, RecordTypeOK, GraceOver, Registered, RegisteredFor, Busy, Needed

LEMMA LifeTypedInit == Init => LifeTyped
<1> SUFFICES ASSUME Init PROVE LifeTyped
  OBVIOUS
<1>1. NodeTypeOK
  BY NodeAssumption DEF Init, NodeInit, NodeTypeOK
<1>2. RecordTypeOK /\ pass = NoPass
  BY RecordAssumption DEF Init, RecordInit, RecordTypeOK, NoOneWaiting, NoPass
<1>3. Registered
  BY RecordAssumption DEF Init, RecordInit, NoOneWaiting, Registered, Nobody
<1> QED BY <1>1, <1>2, <1>3 DEF LifeTyped, RecordsTyped, Passes

LEMMA NodeUnchanged == ASSUME NodeTypeOK, UNCHANGED nodeVars PROVE NodeTypeOK'
BY DEF NodeTypeOK, nodeVars

LEMMA RecordsUnchanged == ASSUME RecordsTyped, UNCHANGED recordVars PROVE RecordsTyped'
BY DEF RecordsTyped, RecordTypeOK, Registered, RegisteredFor, Busy, Needed, recordVars

LEMMA LifeTypedStep == LifeTyped /\ [Next]_vars => LifeTyped'
<1> SUFFICES ASSUME LifeTyped, [Next]_vars PROVE LifeTyped'
  OBVIOUS
<1>0. NodeTypeOK /\ RecordsTyped
  BY DEF LifeTyped
<1>1. CASE (NodeStep \/ Connect) /\ UNCHANGED recordVars
  BY <1>0, <1>1, NodeStepTyped, ConnectTyped, RecordsUnchanged DEF LifeTyped
<1>2. CASE RecordStep /\ UNCHANGED nodeVars
  <2>1. RecordsTyped'
    <3>1. CASE Request
      BY <1>0, <3>1, AskTyped DEF Request
    <3>2. ASSUME NEW c \in Callers, Proceed(c) \/ TimeOut(c) PROVE RecordsTyped'
      BY <1>0, <3>2, SendTyped, ResumeTyped, SaveTyped, GiveUpTyped DEF Proceed, TimeOut
    <3>3. CASE Reconcile
      BY <1>0, <3>3, PassTyped
    <3>4. CASE GracePeriodEnds
      BY <1>0, <3>4, GraceTyped DEF GracePeriodEnds
    <3> QED BY <1>2, <3>1, <3>2, <3>3, <3>4 DEF RecordStep
  <2> QED BY <1>0, <1>2, <2>1, NodeUnchanged DEF LifeTyped
<1>3. ASSUME NEW c \in Callers, DispatchCommand(c) PROVE LifeTyped'
  <2>1. RecordsTyped'
    BY <1>0, <1>3, SendTyped DEF DispatchCommand
  <2>2. calls[c].inst \in Instances /\ CommandOf(calls[c].kind) \in Kinds
    BY <1>0, <1>3, CallWell DEF DispatchCommand, Dispatch, Sending, Busy, RecordsTyped, Needed
  <2>3. NodeTypeOK'
    BY <1>0, <1>3, <2>2, ReceiveTyped DEF DispatchCommand
  <2> QED BY <2>1, <2>3 DEF LifeTyped
<1>4. ASSUME NEW i \in Instances, DeliverNext(i) PROVE LifeTyped'
  <2>1. NodeTypeOK'
    BY <1>0, <1>4, DeliverTyped DEF DeliverNext
  <2>2. PICK m \in Message : m = Head(uplink[i])
    <3>1. uplink[i] \in Seq(Message) /\ uplink[i] # <<>>
      BY <1>0, <1>4 DEF DeliverNext, NodeTypeOK
    <3> HIDE DEF Message
    <3> QED BY <3>1
  <2>3. CASE m.about = "status"
    <3>1. m.value \in Statuses
      BY <2>2, <2>3 DEF Message, Kinds
    <3>2. RecordStatus(i, m.value)
      BY <1>4, <2>2, <2>3 DEF DeliverNext
    <3> QED BY <1>0, <2>1, <3>1, <3>2, RecordStatusTyped DEF LifeTyped
  <2>4. CASE m.about # "status"
    <3>1. m.about \in Kinds /\ m.value \in {"ok", "error"}
      BY <2>2, <2>4 DEF Message
    <3>2. Answer(i, m.about, m.value)
      BY <1>4, <2>2, <2>4 DEF DeliverNext
    <3> QED BY <1>0, <2>1, <3>1, <3>2, AnswerTyped DEF LifeTyped
  <2> QED BY <2>3, <2>4
<1>5. CASE LoseConnection
  <2>1. drops' \in 0 .. MaxDrops
    BY <1>0, <1>5, NodeAssumption DEF LoseConnection, Drop, NodeTypeOK
  <2> QED BY <1>0, <1>5, <2>1, CutTyped, CloseTyped DEF LoseConnection, Drop, LifeTyped
<1>6. CASE RestartControlPlane
  <2>1. drops' \in 0 .. MaxDrops
    BY <1>0, <1>6 DEF RestartControlPlane, NodeTypeOK
  <2> QED BY <1>0, <1>6, <2>1, CutTyped, RestartTyped DEF RestartControlPlane, LifeTyped
<1>7. CASE UNCHANGED vars
  BY <1>0, <1>7, NodeUnchanged, RecordsUnchanged DEF LifeTyped, vars
<1> QED BY <1>1, <1>2, <1>3, <1>4, <1>5, <1>6, <1>7 DEF Next

\* The variables of an instance's life keep their types: with any number of
\* callers, whatever they ask and whatever is lost (server.go, agent.go,
\* grpcserver.go, runner.go).
THEOREM LifecycleTyped == Spec => []TypeOK
<1>1. LifeTyped => TypeOK
  BY DEF LifeTyped, RecordsTyped, TypeOK
<1> QED BY <1>1, LifeTypedInit, LifeTypedStep, PTL DEF Spec

-----------------------------------------------------------------------------
(* What a step does to the answers in the stream. *)

LEMMA MadeMore ==
  ASSUME NEW u \in Seq(Message), NEW v \in Seq(Message),
         \A n \in DOMAIN v : v[n].about # "create"
  PROVE  /\ MadeIn(u \o v) = MadeIn(u)
         /\ \A n \in MadeIn(u) : (u \o v)[n] = u[n]
<1> HIDE DEF Message
<1>1. /\ DOMAIN (u \o v) = 1 .. (Len(u) + Len(v))
      /\ DOMAIN u = 1 .. Len(u) /\ DOMAIN v = 1 .. Len(v)
      /\ Len(u) \in Nat /\ Len(v) \in Nat
      /\ \A n \in 1 .. (Len(u) + Len(v)) : (u \o v)[n] = IF n <= Len(u) THEN u[n] ELSE v[n - Len(u)]
  OBVIOUS
<1>2. \A n \in DOMAIN u : n \in DOMAIN (u \o v) /\ (u \o v)[n] = u[n]
  BY <1>1
<1>3. ASSUME NEW n \in DOMAIN (u \o v), n \notin DOMAIN u
      PROVE  (u \o v)[n].about # "create"
  <2>1. n - Len(u) \in DOMAIN v /\ (u \o v)[n] = v[n - Len(u)]
    BY <1>1, <1>3
  <2> QED BY <2>1
<1> QED BY <1>2, <1>3 DEF MadeIn

\* The answer to a create command, and what else is said with it.
CreateReply(w, u, v) == w = (u \o <<Result("create", "ok")>>) \o v

LEMMA MadeAnother ==
  ASSUME NEW u \in Seq(Message), NEW v \in Seq(Message), MadeIn(u) = {},
         \A n \in DOMAIN v : v[n].about # "create",
         NEW w, CreateReply(w, u, v)
  PROVE  MadeIn(w) # {} /\ \A m, n \in MadeIn(w) : m = n /\ w[n].value = "ok"
<1> DEFINE r == Result("create", "ok")
           x == u \o <<r>>
<1>1. r \in Message /\ r.about = "create" /\ r.value = "ok"
  BY DEF Result, Message, Kinds
<1> HIDE DEF Message, r
<1>2. /\ x \in Seq(Message) /\ DOMAIN x = 1 .. (Len(u) + 1) /\ Len(u) \in Nat
      /\ DOMAIN u = 1 .. Len(u)
      /\ \A n \in 1 .. Len(u) : x[n] = u[n]
      /\ x[Len(u) + 1] = r
  BY <1>1
<1>3. MadeIn(x) = {Len(u) + 1}
  <2>1. \A n \in DOMAIN u : u[n].about # "create"
    BY DEF MadeIn
  <2>2. Len(u) + 1 \in DOMAIN x /\ \A n \in DOMAIN x : n = Len(u) + 1 \/ n \in DOMAIN u
    BY <1>2
  <2> QED BY <1>1, <1>2, <2>1, <2>2 DEF MadeIn
<1>4. MadeIn(x \o v) = MadeIn(x) /\ \A n \in MadeIn(x) : (x \o v)[n] = x[n]
  BY <1>2, MadeMore
<1>6. (x \o v) = w
  BY DEF r, CreateReply
<1> HIDE DEF x
<1>7. /\ MadeIn(x \o v) # {}
      /\ \A m, n \in MadeIn(x \o v) : m = n /\ (x \o v)[n].value = "ok"
  BY <1>1, <1>2, <1>3, <1>4
<1> QED BY <1>6, <1>7

LEMMA MadeLess ==
  ASSUME NEW u \in Seq(Message), u # <<>>
  PROVE  /\ \A n \in MadeIn(Tail(u)) : n + 1 \in MadeIn(u) /\ Tail(u)[n] = u[n + 1] /\ n \in Nat \ {0}
         /\ \A n \in MadeIn(u) : n \in Nat /\ (n # 1 => n - 1 \in MadeIn(Tail(u)))
         /\ Head(u) = u[1] /\ (Head(u).about = "create" => 1 \in MadeIn(u))
         /\ (Head(u).about # "create" => 1 \notin MadeIn(u))
<1> HIDE DEF Message
<1>1. /\ DOMAIN u = 1 .. Len(u) /\ Len(u) \in Nat \ {0} /\ Head(u) = u[1]
      /\ DOMAIN Tail(u) = 1 .. (Len(u) - 1)
      /\ \A n \in 1 .. (Len(u) - 1) : Tail(u)[n] = u[n + 1]
  OBVIOUS
<1>2. ASSUME NEW n \in MadeIn(Tail(u))
      PROVE  n + 1 \in MadeIn(u) /\ Tail(u)[n] = u[n + 1] /\ n \in Nat \ {0}
  <2>1. n \in 1 .. (Len(u) - 1) /\ Tail(u)[n].about = "create"
    BY <1>1 DEF MadeIn
  <2>2. n + 1 \in 1 .. Len(u) /\ n \in Nat \ {0} /\ Tail(u)[n] = u[n + 1]
    BY <1>1, <2>1
  <2> QED BY <1>1, <2>1, <2>2 DEF MadeIn
<1>3. ASSUME NEW n \in MadeIn(u)
      PROVE  n \in Nat /\ (n # 1 => n - 1 \in MadeIn(Tail(u)))
  <2>1. n \in 1 .. Len(u) /\ u[n].about = "create"
    BY <1>1 DEF MadeIn
  <2>2. CASE n # 1
    <3>1. n - 1 \in 1 .. (Len(u) - 1) /\ n \in Nat /\ (n - 1) + 1 = n
      BY <1>1, <2>1, <2>2
    <3>2. Tail(u)[n - 1] = u[n]
      BY <1>1, <3>1
    <3> QED BY <1>1, <2>1, <3>1, <3>2 DEF MadeIn
  <2> QED BY <2>1, <2>2
<1>4. 1 \in DOMAIN u
  BY <1>1
<1> QED BY <1>1, <1>2, <1>3, <1>4 DEF MadeIn

-----------------------------------------------------------------------------
(* What a step leaves of the invariant. *)

\* A step of the node.
LEMMA NodeFrame ==
  ASSUME LifeInv, RecordTypeOK, StartsAlone, UNCHANGED recordVars, \A m \in cmds' : m.live,
         \A i \in Instances : /\ BeingMade(i)' <=> BeingMade(i)
                              /\ AtMostOne(i)'
                              /\ Lasting(i)' => Lasting(i) \/ BeingMade(i)
  PROVE  LifeInv'
<1> USE DEF LifeInv, recordVars
<1>1. \A c \in Callers : /\ Busy(c)' <=> Busy(c)
                         /\ Needed(c)' = Needed(c)
                         /\ \A i \in Instances : Creates(c, i)' <=> Creates(c, i)
  BY DEF Busy, Needed, Creates
<1>2. CreateAwaited'
  BY <1>1 DEF CreateAwaited
<1>3. CreateAnswered'
  BY <1>1 DEF CreateAnswered
<1>4. ASSUME NEW i \in Instances, BeingMade(i)
      PROVE  \E c \in Callers : /\ Creates(c, i) /\ calls[c].at = "wait" /\ calls[c].kind \in Starters
                                /\ \A d \in Callers : Busy(d) /\ calls[d].inst = i => d = c
  <2>1. PICK c \in Callers : Creates(c, i) /\ calls[c].at = "wait"
    BY <1>4 DEF CreateAwaited
  <2>2. calls[c].kind \in Starters /\ Busy(c) /\ calls[c].inst = i
    BY <2>1 DEF Creates, Needed, CommandOf, Starters
  <2> QED BY <2>1, <2>2 DEF StartsAlone
<1>5. EndsSeenTo'
  <2> SUFFICES ASSUME NEW c \in Callers, Busy(c)', (Needed(c) # "create")', Lasting(calls[c].inst)'
               PROVE  (calls[c].at = "send" \/ (calls[c].at = "save" /\ calls[c].kind # "hold"))'
    BY DEF EndsSeenTo
  <2>1. Busy(c) /\ Needed(c) # "create"
    BY <1>1
  <2>2. PICK i \in Instances : i = calls[c].inst
    BY <2>1, CallWell
  <2>3. i = (calls[c].inst)' /\ Lasting(i)'
    BY <2>2
  <2>4. Lasting(i)
    BY <1>4, <2>1, <2>2, <2>3 DEF Creates
  <2> QED BY <2>1, <2>2, <2>4 DEF EndsSeenTo
<1>6. LastingKnown'
  BY <1>1, <1>4 DEF LastingKnown
<1>7. UnbilledHeld'
  <2> SUFFICES ASSUME NEW i \in Instances, Lasting(i)', row[i] \in {"none", "stopped"}
               PROVE  \E c \in Callers : Busy(c) /\ calls[c].inst = i /\ calls[c].kind \in Starters
    BY <1>1 DEF UnbilledHeld
  <2> QED BY <1>4 DEF UnbilledHeld, Creates
<1> QED BY <1>2, <1>3, <1>5, <1>6, <1>7

\* What a request for the end of an instance does, once the instance is not
\* alive any more.
LEMMA EndFrame ==
  ASSUME LifeInv, RecordTypeOK, NEW c \in Callers, Busy(c), Needed(c) # "create",
         NEW j \in Instances, calls[c].inst = j, NEW x,
         calls' = [calls EXCEPT ![c] = x],
         x = NoCall \/ (x.inst = j /\ CommandOf(x.kind) # "create"),
         ~Lasting(j)', \A m \in cmds' : m.live,
         \A i \in Instances :
           /\ BeingMade(i)' <=> BeingMade(i)
           /\ AtMostOne(i)'
           /\ Lasting(i)' => Lasting(i)
           /\ waiting'[i]["create"] = waiting[i]["create"]
           /\ i # j => /\ cache[i] # "none" => cache'[i] # "none"
                       /\ routed[i] => routed'[i]
                       /\ row'[i] \in {"none", "stopped"} => row'[i] = row[i]
  PROVE  LifeInv'
<1> USE DEF LifeInv
<1>2. \A d \in Callers : d # c => /\ calls'[d] = calls[d]
                                  /\ Busy(d)' <=> Busy(d)
                                  /\ Needed(d)' = Needed(d)
                                  /\ \A i \in Instances : Creates(d, i)' <=> Creates(d, i)
  BY DEF Busy, Needed, Creates
<1>3. /\ calls'[c] = x
      /\ Busy(c)' => x.inst = j /\ Needed(c)' # "create"
      /\ \A i \in Instances : ~Creates(c, i) /\ ~Creates(c, i)'
  BY DEF Busy, Needed, Creates, RecordTypeOK
<1>5. CreateAwaited'
  <2> SUFFICES ASSUME NEW i \in Instances
               PROVE  BeingMade(i)' => \E d \in Callers : Creates(d, i)' /\ calls'[d].at = "wait"
    BY DEF CreateAwaited
  <2> QED BY <1>2, <1>3 DEF CreateAwaited
<1>6. CreateAnswered'
  <2> SUFFICES ASSUME NEW d \in Callers, NEW i \in Instances, Creates(d, i)'
               PROVE  /\ calls'[d].at # "error"
                      /\ calls'[d].at = "wait" => waiting'[i]["create"] = d /\ BeingMade(i)'
    BY DEF CreateAnswered
  <2> QED BY <1>2, <1>3 DEF CreateAnswered
<1>7. EndsSeenTo'
  <2> SUFFICES ASSUME NEW d \in Callers, Busy(d)', (Needed(d) # "create")', Lasting(calls[d].inst)'
               PROVE  calls'[d].at = "send" \/ (calls'[d].at = "save" /\ calls'[d].kind # "hold")
    BY DEF EndsSeenTo
  <2>1. PICK i : i = calls'[d].inst
    OBVIOUS
  <2>2. Lasting(i)'
    BY <2>1
  <2>3. d # c
    BY <1>3, <2>1, <2>2
  <2>4. calls'[d] = calls[d] /\ Busy(d) /\ Needed(d) # "create" /\ i = calls[d].inst
    BY <1>2, <2>1, <2>3
  <2>5. i \in Instances
    BY <2>4, CallWell
  <2>6. Lasting(i)
    BY <2>2, <2>5
  <2> QED BY <2>4, <2>6 DEF EndsSeenTo
<1>8. LastingKnown'
  <2> SUFFICES ASSUME NEW i \in Instances, Lasting(i)'
               PROVE  \/ cache'[i] # "none" /\ routed'[i]
                      \/ \E d \in Callers : Creates(d, i)' /\ calls'[d].at \in {"wait", "ok"}
    BY DEF LastingKnown
  <2>1. i # j /\ Lasting(i)
    OBVIOUS
  <2> QED BY <1>2, <1>3, <2>1 DEF LastingKnown
<1>9. UnbilledHeld'
  <2> SUFFICES ASSUME NEW i \in Instances, Lasting(i)', row'[i] \in {"none", "stopped"}
               PROVE  \E d \in Callers : Busy(d)' /\ calls'[d].inst = i /\ calls'[d].kind \in Starters
    BY DEF UnbilledHeld
  <2>1. i # j /\ Lasting(i) /\ row[i] = row'[i]
    OBVIOUS
  <2>2. PICK d \in Callers : Busy(d) /\ calls[d].inst = i /\ calls[d].kind \in Starters
    BY <2>1 DEF UnbilledHeld
  <2>3. d # c
    BY <2>1, <2>2
  <2> QED BY <1>2, <2>2, <2>3
<1> QED BY <1>5, <1>6, <1>7, <1>8, <1>9

-----------------------------------------------------------------------------
(* The steps of the node. *)

LEMMA SameCreates ==
  ASSUME NodeTypeOK, NEW i \in Instances, AtMostOne(i), Making(i)' = Making(i),
         NEW v \in Seq(Message), \A n \in DOMAIN v : v[n].about # "create",
         uplink'[i] = uplink[i] \o v \/ uplink'[i] = uplink[i]
  PROVE  (BeingMade(i)' <=> BeingMade(i)) /\ AtMostOne(i)'
<1>1. /\ MadeIn(uplink'[i]) = MadeIn(uplink[i])
      /\ \A n \in MadeIn(uplink[i]) : uplink'[i][n] = uplink[i][n]
  <2>1. CASE uplink'[i] = uplink[i]
    BY <2>1
  <2>2. CASE uplink'[i] = uplink[i] \o v
    <3>1. uplink[i] \in Seq(Message)
      BY DEF NodeTypeOK
    <3> HIDE DEF Message
    <3> QED BY <2>2, <3>1, MadeMore
  <2> QED BY <2>1, <2>2
<1> QED BY <1>1 DEF BeingMade, AtMostOne, Made

LEMMA NothingSaid == <<>> \in Seq(Message) /\ \A n \in DOMAIN <<>> : <<>>[n].about # "create"
OBVIOUS

LEMMA SweepLife ==
  ASSUME NodeTypeOK, RecordTypeOK, LifeInv, StartsAlone, UNCHANGED recordVars,
         SweepList \/ SweepReport
  PROVE  LifeInv'
<1>1. UNCHANGED <<pods, cmds>>
  BY DEF SweepList, SweepReport
<1>2. \A i \in Instances : Making(i)' = Making(i) /\ (Lasting(i)' <=> Lasting(i)) /\ AtMostOne(i)
  BY <1>1 DEF Making, Lasting, Stays, Doomed, LifeInv, CreateAwaited
<1>3. ASSUME NEW i \in Instances PROVE (BeingMade(i)' <=> BeingMade(i)) /\ AtMostOne(i)'
  <2>1. CASE SweepList
    <3>1. uplink'[i] = uplink[i]
      BY <2>1 DEF SweepList
    <3> QED BY <1>2, <3>1, SameCreates, NothingSaid
  <2>2. CASE SweepReport
    <3>1. listing \in Reports
      BY <2>2 DEF SweepReport, NodeTypeOK, Reports
    <3>2. /\ Changes(listing)[i] \in Seq(Message)
          /\ \A n \in DOMAIN Changes(listing)[i] : Changes(listing)[i][n].about # "create"
      BY <3>1, ChangesTyped
    <3>3. uplink'[i] = uplink[i] \o Changes(listing)[i]
      BY <2>2 DEF SweepReport, Report
    <3> QED BY <1>2, <3>2, <3>3, SameCreates
  <2> QED BY <2>1, <2>2
<1>4. \A m \in cmds' : m.live
  BY <1>1 DEF LifeInv
<1> QED BY <1>2, <1>3, <1>4, NodeFrame

LEMMA PodLife ==
  ASSUME NodeTypeOK, RecordTypeOK, LifeInv, StartsAlone, UNCHANGED recordVars,
         NEW j \in Instances, NEW k \in DOMAIN pods[j], PodChanges(j, k) \/ PodGone(j, k)
  PROVE  LifeInv'
<1>1. UNCHANGED <<cmds, uplink>>
  BY DEF PodChanges, PodGone
<1>2. \A i \in Instances : /\ Making(i)' = Making(i) /\ (Doomed(i)' <=> Doomed(i))
                           /\ uplink'[i] = uplink[i] /\ AtMostOne(i)
  BY <1>1 DEF Making, Doomed, LifeInv, CreateAwaited
<1>3. ASSUME NEW i \in Instances, Stays(i)' PROVE Stays(i)
  <2>1. /\ pods \in [Instances -> Seq(Pod)] /\ pods[j] \in Seq(Pod) /\ pods[j][k] \in Pod
    BY DEF NodeTypeOK
  <2>2. CASE i # j
    <3>1. pods'[i] = pods[i]
      BY <2>1, <2>2 DEF PodChanges, PodGone, SetPhase
    <3> QED BY <1>3, <3>1 DEF Stays
  <2>3. CASE i = j /\ PodChanges(j, k)
    <3>1. PICK phase \in Phases : SetPhase(j, k, phase)
      BY <2>3 DEF PodChanges, Phases
    <3>2. pods'[j] = [pods[j] EXCEPT ![k] = [pods[j][k] EXCEPT !.phase = phase]]
      BY <2>1, <3>1 DEF SetPhase
    <3>3. DOMAIN pods'[j] = DOMAIN pods[j]
          /\ \A n \in DOMAIN pods[j] : pods'[j][n].leaving = pods[j][n].leaving
      BY <2>1, <3>2 DEF Pod
    <3> QED BY <1>3, <2>3, <3>3 DEF Stays
  <2>4. CASE i = j /\ PodGone(j, k)
    <3>1. pods'[j] = SubSeq(pods[j], 1, k - 1) \o SubSeq(pods[j], k + 1, Len(pods[j]))
      BY <2>1, <2>4 DEF PodGone
    <3>2. LET t == SubSeq(pods[j], 1, k - 1) \o SubSeq(pods[j], k + 1, Len(pods[j]))
          IN  \A n \in DOMAIN t : \E m \in DOMAIN pods[j] : t[n] = pods[j][m]
      BY <2>1, WithoutOne
    <3> QED BY <1>3, <2>4, <3>1, <3>2 DEF Stays
  <2> QED BY <2>2, <2>3, <2>4
<1>4. \A m \in cmds' : m.live
  BY <1>1 DEF LifeInv
<1>5. \A i \in Instances : /\ (BeingMade(i)' <=> BeingMade(i)) /\ AtMostOne(i)'
                           /\ Lasting(i)' => Lasting(i)
  BY <1>2, <1>3, SameCreates, NothingSaid DEF Lasting
<1> QED BY <1>4, <1>5, NodeFrame

\* A teardown leaves no pod that stays.
LEMMA TornDown ==
  ASSUME NodeTypeOK, NEW j \in Instances, Teardown(j)
  PROVE  ~Stays(j)' /\ \A i \in Instances : i # j => pods'[i] = pods[i]
<1>1. pods \in [Instances -> Seq(Pod)] /\ pods[j] \in Seq(Pod)
  BY DEF NodeTypeOK
<1>2. pods'[j] = IF GracefulExit THEN [k \in DOMAIN pods[j] |-> [pods[j][k] EXCEPT !.leaving = TRUE]]
                 ELSE <<>>
  BY <1>1 DEF Teardown
<1>3. \A k \in DOMAIN pods'[j] : pods'[j][k].leaving
  <2>1. CASE GracefulExit
    <3>1. \A k \in DOMAIN pods[j] : pods[j][k] \in Pod
      BY <1>1
    <3> QED BY <1>2, <2>1, <3>1 DEF Pod
  <2>2. CASE ~GracefulExit
    BY <1>2, <2>2
  <2> QED BY <2>1, <2>2
<1> QED BY <1>1, <1>3 DEF Stays, Teardown

LEMMA RemoveLife ==
  ASSUME NodeTypeOK, RecordTypeOK, LifeInv, StartsAlone, UNCHANGED recordVars,
         NEW m \in cmds, HandleDelete(m) \/ HandleStop(m)
  PROVE  LifeInv'
<1>1. PICK j \in Instances : j = m.inst
  BY DEF NodeTypeOK, Command
<1>2. m.live /\ m.kind \in {"delete", "stop"} /\ cmds' = cmds \ {m} /\ Teardown(j) /\ Reply(m, "ok")
  BY <1>1 DEF LifeInv, HandleDelete, HandleStop
<1>3. \A i \in Instances : Making(i)' = Making(i) /\ AtMostOne(i)
  BY <1>2 DEF Making, LifeInv, CreateAwaited
<1>4. ASSUME NEW i \in Instances, Lasting(i)' PROVE Lasting(i)
  <2>1. i # j /\ pods'[i] = pods[i]
    BY <1>2, <1>4, TornDown DEF Lasting
  <2> QED BY <1>1, <1>2, <1>4, <2>1 DEF Lasting, Stays, Doomed
<1>5. ASSUME NEW i \in Instances PROVE (BeingMade(i)' <=> BeingMade(i)) /\ AtMostOne(i)'
  <2>1. uplink \in [Instances -> Seq(Message)]
    BY DEF NodeTypeOK
  <2>r. Result(m.kind, "ok") \in Message /\ Result(m.kind, "ok").about # "create"
    BY <1>2 DEF Result, Message, Kinds
  <2> HIDE DEF Message
  <2>2. PICK r \in Message : r = Result(m.kind, "ok") /\ r.about # "create"
    BY <2>r
  <2>3. <<r>> \in Seq(Message) /\ \A n \in DOMAIN <<r>> : <<r>>[n].about # "create"
    BY <2>2
  <2>4. uplink'[i] = uplink[i] \o <<r>> \/ uplink'[i] = uplink[i]
    <3>1. uplink' = [uplink EXCEPT ![j] = Append(uplink[j], r)]
      BY <1>1, <1>2, <2>2 DEF Reply
    <3>2. uplink'[i] = IF i = j THEN Append(uplink[i], r) ELSE uplink[i]
      BY <2>1, <3>1
    <3>3. Append(uplink[i], r) = uplink[i] \o <<r>>
      BY <2>1, <2>2
    <3> QED BY <3>2, <3>3
  <2> QED BY <1>3, <2>3, <2>4, SameCreates
<1>6. \A n \in cmds' : n.live
  BY <1>2 DEF LifeInv
<1> QED BY <1>4, <1>5, <1>6, NodeFrame

\* A create command that is carried out, or found to be needless.
LEMMA MadeLife ==
  ASSUME NodeTypeOK, RecordTypeOK, LifeInv, StartsAlone, UNCHANGED recordVars,
         NEW m \in cmds, NEW j \in Instances, m.inst = j, m.kind = "create",
         cmds' = cmds \ {m}, \A i \in Instances : i # j => pods'[i] = pods[i],
         NEW said \in [Instances -> Seq(Message)],
         \A i \in Instances : \A n \in DOMAIN said[i] : said[i][n].about # "create",
         CreateReply(uplink'[j], uplink[j], said[j]),
         \A i \in Instances : i # j => uplink'[i] = uplink[i] \o said[i] \/ uplink'[i] = uplink[i]
  PROVE  LifeInv'
<1>1. \A i \in Instances : AtMostOne(i) /\ (i # j => Making(i)' = Making(i))
  BY DEF LifeInv, CreateAwaited, Making
<1>2. m \in Making(j) /\ BeingMade(j)
  BY DEF Making, BeingMade
<1>3. Making(j)' = {} /\ Made(j) = {}
  <2>1. Making(j) = {m}
    BY <1>1, <1>2 DEF AtMostOne
  <2> QED BY <1>1, <1>2, <2>1 DEF Making, AtMostOne
<1>4. BeingMade(j)' /\ AtMostOne(j)'
  <2>1. uplink[j] \in Seq(Message) /\ MadeIn(uplink[j]) = {}
    BY <1>3 DEF NodeTypeOK, Made
  <2>2. said[j] \in Seq(Message) /\ \A n \in DOMAIN said[j] : said[j][n].about # "create"
    OBVIOUS
  <2> HIDE DEF Message
  <2>3. CreateReply(uplink'[j], uplink[j], said[j])
    OBVIOUS
  <2>4. /\ MadeIn(uplink'[j]) # {}
        /\ \A k, n \in MadeIn(uplink'[j]) : k = n /\ uplink'[j][n].value = "ok"
    BY <2>1, <2>2, <2>3, MadeAnother
  <2> QED BY <1>3, <2>4 DEF BeingMade, AtMostOne, Made
<1>5. ASSUME NEW i \in Instances, i # j PROVE (BeingMade(i)' <=> BeingMade(i)) /\ AtMostOne(i)'
  <2>1. said[i] \in Seq(Message) /\ \A n \in DOMAIN said[i] : said[i][n].about # "create"
    OBVIOUS
  <2>2. uplink'[i] = uplink[i] \o said[i] \/ uplink'[i] = uplink[i]
    BY <1>5
  <2> HIDE DEF Message
  <2> QED BY <1>1, <1>5, <2>1, <2>2, SameCreates
<1>6. ASSUME NEW i \in Instances, Lasting(i)' PROVE Lasting(i) \/ BeingMade(i)
  <2>1. CASE i = j
    BY <1>2, <2>1
  <2>2. CASE i # j
    BY <1>6, <2>2 DEF Lasting, Stays, Doomed
  <2> QED BY <2>1, <2>2
<1>7. \A n \in cmds' : n.live
  BY DEF LifeInv
<1> QED BY <1>2, <1>4, <1>5, <1>6, <1>7, NodeFrame

LEMMA CreateLife ==
  ASSUME NodeTypeOK, RecordTypeOK, LifeInv, StartsAlone, UNCHANGED recordVars,
         NEW m \in cmds, CheckExisting(m) \/ CreatePod(m)
  PROVE  LifeInv'
<1>1. PICK j \in Instances : j = m.inst
  BY DEF NodeTypeOK, Command
<1>2. m.kind = "create" /\ m.live /\ m \in Command /\ uplink \in [Instances -> Seq(Message)]
      /\ pods \in [Instances -> Seq(Pod)]
  BY DEF CheckExisting, CreatePod, LifeInv, NodeTypeOK
<1>3. \A i \in Instances : AtMostOne(i)
  BY DEF LifeInv, CreateAwaited
<1>4. CASE CheckExisting(m) /\ cmds' = cmds \ {m} /\ Reply(m, "ok")
  <2>1. [i \in Instances |-> <<>>] \in [Instances -> Seq(Message)]
    OBVIOUS
  <2>2. Result("create", "ok") \in Message
    BY DEF Result, Message, Kinds
  <2> HIDE DEF Message
  <2>3. /\ uplink'[j] = Append(uplink[j], Result("create", "ok"))
        /\ \A i \in Instances : i # j => uplink'[i] = uplink[i]
    BY <1>1, <1>2, <1>4 DEF Reply
  <2>4. uplink'[j] = (uplink[j] \o <<Result("create", "ok")>>) \o <<>>
    BY <1>2, <2>2, <2>3
  <2>5. UNCHANGED pods
    BY <1>4 DEF CheckExisting
  <2>6. PICK said \in [Instances -> Seq(Message)] : \A i \in Instances : said[i] = <<>>
    BY <2>1
  <2>7. \A i \in Instances : \A n \in DOMAIN said[i] : said[i][n].about # "create"
    BY <2>6
  <2>8. /\ CreateReply(uplink'[j], uplink[j], said[j])
        /\ \A i \in Instances : i # j => uplink'[i] = uplink[i]
        /\ \A i \in Instances : i # j => pods'[i] = pods[i]
    BY <2>3, <2>4, <2>5, <2>6 DEF CreateReply
  <2> QED BY <1>1, <1>2, <1>4, <2>7, <2>8, MadeLife
<1>5. CASE cmds' = (cmds \ {m}) \cup {[m EXCEPT !.step = "create"]} /\ UNCHANGED <<uplink, pods>>
  <2>1. PICK n \in Command : n = [m EXCEPT !.step = "create"]
    BY <1>2 DEF Command
  <2>2. n.inst = j /\ n.kind = "create" /\ n.live /\ cmds' = (cmds \ {m}) \cup {n}
    BY <1>1, <1>2, <1>5, <2>1 DEF Command
  <2>3. ASSUME NEW i \in Instances
        PROVE  (BeingMade(i)' <=> BeingMade(i)) /\ AtMostOne(i)' /\ (Lasting(i)' => Lasting(i))
    <3>1. Made(i)' = Made(i) /\ uplink' = uplink /\ pods' = pods
      BY <1>5 DEF Made
    <3>2. Making(i)' = IF i = j THEN {n} ELSE Making(i)
      BY <1>1, <1>2, <1>3, <2>2 DEF Making, AtMostOne
    <3>3. i = j => Making(i) # {}
      BY <1>1, <1>2 DEF Making
    <3>4. Doomed(i)' <=> Doomed(i)
      BY <1>2, <2>2 DEF Doomed
    <3> QED BY <1>3, <3>1, <3>2, <3>3, <3>4 DEF BeingMade, AtMostOne, Lasting, Stays
  <2>4. \A k \in cmds' : k.live
    BY <2>2 DEF LifeInv
  <2> QED BY <2>3, <2>4, NodeFrame
<1>6. CASE CreatePod(m)
  <2>1. PICK seen : seen = [i \in Instances |-> ObservedOf(pods'[i])]
    OBVIOUS
  <2>2. pods' \in [Instances -> Seq(Pod)] /\ \A i \in Instances : i # j => pods'[i] = pods[i]
    <3>1. [phase |-> "pending", leaving |-> FALSE] \in Pod
      BY DEF Pod, Phases
    <3>2. pods' = [pods EXCEPT ![j] = Append(pods[j], [phase |-> "pending", leaving |-> FALSE])]
      BY <1>1, <1>6 DEF CreatePod
    <3> HIDE DEF Pod
    <3>3. Append(pods[j], [phase |-> "pending", leaving |-> FALSE]) \in Seq(Pod)
      BY <1>2, <3>1
    <3> QED BY <1>2, <3>2, <3>3
  <2>3. seen \in Reports
    BY <2>1, <2>2, ObservedTyped
  <2>4. /\ Changes(seen) \in [Instances -> Seq(Message)]
        /\ \A i \in Instances : \A n \in DOMAIN Changes(seen)[i] : Changes(seen)[i][n].about # "create"
    BY <2>3, ChangesTyped
  <2>5. Result("create", "ok") \in Message
    BY DEF Result, Message, Kinds
  <2>6. cmds' = cmds \ {m} /\ uplink' = [i \in Instances |->
          uplink[i] \o (IF i = j THEN <<Result("create", "ok")>> ELSE <<>>) \o Changes(seen)[i]]
    BY <1>1, <1>2, <1>6, <2>1 DEF CreatePod
  <2> HIDE DEF Message
  <2>7. CreateReply(uplink'[j], uplink[j], Changes(seen)[j])
    BY <2>6 DEF CreateReply
  <2>8. ASSUME NEW i \in Instances, i # j PROVE uplink'[i] = uplink[i] \o Changes(seen)[i]
    <3>1. uplink[i] \o <<>> = uplink[i]
      BY <1>2
    <3>2. uplink'[i] = (uplink[i] \o <<>>) \o Changes(seen)[i]
      BY <2>6, <2>8
    <3> QED BY <3>1, <3>2
  <2>9. cmds' = cmds \ {m} /\ \A i \in Instances : i # j => pods'[i] = pods[i]
    BY <2>2, <2>6
  <2> QED BY <1>1, <1>2, <2>4, <2>7, <2>8, <2>9, MadeLife
<1> QED BY <1>1, <1>2, <1>4, <1>5, <1>6 DEF CheckExisting

LEMMA ConnectLife ==
  ASSUME NodeTypeOK, RecordTypeOK, LifeInv, Orderly, UNCHANGED recordVars, Connect
  PROVE  LifeInv'
<1>1. StartsAlone /\ cmds = {} /\ cmds' = {} /\ UNCHANGED pods /\ \A c \in Callers : ~Busy(c)
  BY DEF Connect, Orderly
<1>2. ASSUME NEW i \in Instances PROVE ~BeingMade(i) /\ ~BeingMade(i)' /\ AtMostOne(i)' /\ (Lasting(i)' => Lasting(i))
  <2>1. ~BeingMade(i)
    BY <1>1 DEF LifeInv, CreateAwaited, Creates
  <2>2. Made(i)' = {}
    <3>1. uplink'[i] = <<>> \/ uplink'[i] = <<Status(Observed[i])>>
      BY DEF Connect
    <3>2. Status(Observed[i]).about # "create"
      BY DEF Status
    <3> QED BY <3>1, <3>2 DEF Made, MadeIn
  <2>3. Making(i)' = {}
    BY <1>1 DEF Making
  <2>4. Lasting(i)' => Lasting(i)
    BY <1>1 DEF Lasting, Stays, Doomed
  <2> QED BY <2>1, <2>2, <2>3, <2>4 DEF BeingMade, AtMostOne
<1>3. \A m \in cmds' : m.live
  BY <1>1
<1> QED BY <1>1, <1>2, <1>3, NodeFrame

LEMMA NodeLife ==
  ASSUME ~NodeErrors, NodeTypeOK, RecordTypeOK, LifeInv, StartsAlone, UNCHANGED recordVars, NodeStep
  PROVE  LifeInv'
<1>1. ASSUME NEW m \in cmds, CommandStep(m) PROVE LifeInv'
  <2>1. m.live
    BY DEF LifeInv
  <2>2. HandleCommand(m)
    BY <1>1, <2>1 DEF CommandStep, CreateFails, RemoveFails, CommandLost
  <2> QED BY <2>2, CreateLife, RemoveLife DEF HandleCommand
<1> QED BY <1>1, SweepLife, PodLife DEF NodeStep

-----------------------------------------------------------------------------
(* The steps of the control plane. *)

\* What the node is does not change with the records.
LEMMA NodeAsItWas ==
  ASSUME LifeInv, UNCHANGED nodeVars
  PROVE  /\ \A m \in cmds' : m.live
         /\ \A i \in Instances : /\ BeingMade(i)' <=> BeingMade(i)
                                 /\ AtMostOne(i)'
                                 /\ Lasting(i)' <=> Lasting(i)
BY DEF LifeInv, CreateAwaited, BeingMade, AtMostOne, Making, Made, Lasting, Stays, Doomed, nodeVars

\* A step that leaves the calls alone.
LEMMA CallsStay ==
  ASSUME LifeInv, RecordTypeOK, UNCHANGED <<calls, waiting>>, \A m \in cmds' : m.live,
         \A i \in Instances :
           /\ BeingMade(i)' <=> BeingMade(i)
           /\ AtMostOne(i)'
           /\ Lasting(i)' <=> Lasting(i)
           /\ cache[i] # "none" => cache'[i] # "none"
           /\ routed'[i] = routed[i]
           /\ row'[i] \in {"none", "stopped"} => row'[i] = row[i]
  PROVE  LifeInv'
<1> USE DEF LifeInv
<1>1. \A c \in Callers : /\ Busy(c)' <=> Busy(c)
                         /\ Needed(c)' = Needed(c)
                         /\ \A i \in Instances : Creates(c, i)' <=> Creates(c, i)
  BY DEF Busy, Needed, Creates
<1>2. CreateAwaited'
  BY <1>1 DEF CreateAwaited
<1>3. CreateAnswered'
  BY <1>1 DEF CreateAnswered
<1>4. EndsSeenTo'
  <2> SUFFICES ASSUME NEW c \in Callers, Busy(c)', (Needed(c) # "create")', Lasting(calls[c].inst)'
               PROVE  calls[c].at = "send" \/ (calls[c].at = "save" /\ calls[c].kind # "hold")
    BY DEF EndsSeenTo
  <2>1. Busy(c) /\ Needed(c) # "create"
    BY <1>1
  <2>2. PICK i \in Instances : i = calls[c].inst
    BY <2>1, CallWell
  <2>3. i = calls'[c].inst /\ Lasting(i)'
    BY <2>2
  <2>4. Lasting(i)
    BY <2>3
  <2> QED BY <2>1, <2>2, <2>4 DEF EndsSeenTo
<1>5. LastingKnown'
  BY <1>1 DEF LastingKnown
<1>6. UnbilledHeld'
  BY <1>1 DEF UnbilledHeld
<1> QED BY <1>2, <1>3, <1>4, <1>5, <1>6

LEMMA ReconcileLife ==
  ASSUME RecordsTyped, LifeInv, UNCHANGED nodeVars, Reconcile \/ GracePeriodEnds
  PROVE  LifeInv'
<1>1. UNCHANGED <<cache, routed, waiting, calls>>
  BY PassTyped DEF GracePeriodEnds, GraceOver
<1>2. \A i \in Instances : row'[i] = row[i] \/ row'[i] \in Statuses
  BY PassTyped DEF GracePeriodEnds, GraceOver
<1>3. \A i \in Instances : row'[i] \in {"none", "stopped"} => row'[i] = row[i]
  BY <1>2 DEF Statuses
<1>4. RecordTypeOK
  BY DEF RecordsTyped
<1> QED BY <1>1, <1>3, <1>4, NodeAsItWas, CallsStay

LEMMA AskLife ==
  ASSUME RecordTypeOK, LifeInv, UNCHANGED nodeVars, NEW c \in Callers, NEW kind,
         NEW j \in Instances, NEW connected, Ask(c, kind, j, connected)
  PROVE  LifeInv'
<1> USE DEF LifeInv
<1>1. /\ ~Busy(c) /\ UNCHANGED <<cache, routed, waiting, row>>
      /\ calls'[c] = [kind |-> kind, inst |-> j, at |-> "send"]
      /\ \A d \in Callers : d # c => calls'[d] = calls[d]
  BY DEF Ask, Idle, Busy, SetCall, RecordTypeOK
<1>2. \A d \in Callers : d # c => /\ Busy(d)' <=> Busy(d)
                                  /\ Needed(d)' = Needed(d)
                                  /\ \A i \in Instances : Creates(d, i)' <=> Creates(d, i)
  BY <1>1 DEF Busy, Needed, Creates
<1>3. calls'[c].at = "send" /\ \A i \in Instances : ~Creates(c, i)
  BY <1>1 DEF Creates
<1>4. CreateAwaited'
  BY <1>1, <1>2, <1>3, NodeAsItWas DEF CreateAwaited
<1>5. CreateAnswered'
  <2> SUFFICES ASSUME NEW d \in Callers, NEW i \in Instances, Creates(d, i)'
               PROVE  /\ calls'[d].at # "error"
                      /\ calls'[d].at = "wait" => waiting'[i]["create"] = d /\ BeingMade(i)'
    BY DEF CreateAnswered
  <2> QED BY <1>1, <1>2, <1>3, NodeAsItWas DEF CreateAnswered
<1>6. EndsSeenTo'
  <2> SUFFICES ASSUME NEW d \in Callers, d # c, Busy(d)', (Needed(d) # "create")', Lasting(calls[d].inst)'
               PROVE  calls'[d].at = "send" \/ (calls'[d].at = "save" /\ calls'[d].kind # "hold")
    BY <1>3 DEF EndsSeenTo
  <2>1. calls'[d] = calls[d] /\ Busy(d) /\ Needed(d) # "create"
    BY <1>1, <1>2
  <2>2. PICK i \in Instances : i = calls[d].inst
    BY <2>1, CallWell
  <2>3. i = calls'[d].inst /\ Lasting(i)'
    BY <2>1, <2>2
  <2>4. Lasting(i)
    BY <2>3, NodeAsItWas
  <2> QED BY <2>1, <2>2, <2>4 DEF EndsSeenTo
<1>7. LastingKnown'
  BY <1>1, <1>2, <1>3, NodeAsItWas DEF LastingKnown
<1>8. UnbilledHeld'
  <2> SUFFICES ASSUME NEW i \in Instances, Lasting(i), row[i] \in {"none", "stopped"}
               PROVE  \E d \in Callers : Busy(d)' /\ calls'[d].inst = i /\ calls'[d].kind \in Starters
    BY <1>1, NodeAsItWas DEF UnbilledHeld
  <2>1. PICK d \in Callers : Busy(d) /\ calls[d].inst = i /\ calls[d].kind \in Starters
    BY DEF UnbilledHeld
  <2> QED BY <1>1, <1>2, <2>1
<1>9. \A m \in cmds' : m.live
  BY NodeAsItWas
<1> QED BY <1>4, <1>5, <1>6, <1>7, <1>8, <1>9

MakesPod(x) == x # NoCall /\ CommandOf(x.kind) = "create"

\* What the caller that has a pod made of an instance does: it is alone there.
LEMMA StartFrame ==
  ASSUME RecordTypeOK, LifeInv, StartsAlone, NEW c \in Callers, NEW j \in Instances,
         Busy(c), calls[c].inst = j, calls[c].kind \in Starters, NEW x,
         calls' = [calls EXCEPT ![c] = x],
         x # NoCall => x.inst = j,
         \A m \in cmds' : m.live, \A i \in Instances : AtMostOne(i)',
         \A i \in Instances : i # j =>
           /\ BeingMade(i)' <=> BeingMade(i)
           /\ Lasting(i)' => Lasting(i)
           /\ waiting'[i]["create"] = waiting[i]["create"]
           /\ UNCHANGED <<cache[i], routed[i], row[i]>>,
         BeingMade(j)' => MakesPod(x) /\ x.at = "wait",
         MakesPod(x) => /\ x.at # "error"
                        /\ x.at = "wait" => waiting'[j]["create"] = c /\ BeingMade(j)',
         ~MakesPod(x) /\ x # NoCall => x.at = "send",
         Lasting(j)' => (cache'[j] # "none" /\ routed'[j]) \/ (MakesPod(x) /\ x.at \in {"wait", "ok"}),
         Lasting(j)' /\ row'[j] \in {"none", "stopped"} => x # NoCall /\ x.kind \in Starters
  PROVE  LifeInv'
<1> USE DEF LifeInv
<1>1. \A d \in Callers : d # c => /\ calls'[d] = calls[d]
                                  /\ Busy(d)' <=> Busy(d)
                                  /\ Needed(d)' = Needed(d)
                                  /\ Busy(d) => calls[d].inst # j
                                  /\ \A i \in Instances : Creates(d, i)' <=> Creates(d, i)
  BY DEF Busy, Needed, Creates, StartsAlone
<1>2. /\ calls'[c] = x /\ (Busy(c)' <=> x # NoCall)
      /\ Busy(c)' => (MakesPod(x) <=> (Needed(c) = "create")')
      /\ \A i \in Instances : (Creates(c, i)' <=> i = j /\ MakesPod(x))
      /\ \A i \in Instances : Creates(c, i) => i = j
  BY DEF Busy, Needed, Creates, RecordTypeOK, MakesPod
<1>3. CreateAwaited'
  <2> SUFFICES ASSUME NEW i \in Instances, BeingMade(i)'
               PROVE  \E d \in Callers : Creates(d, i)' /\ calls'[d].at = "wait"
    BY DEF CreateAwaited
  <2>1. CASE i = j
    BY <1>2, <2>1
  <2>2. CASE i # j
    <3>1. PICK d \in Callers : Creates(d, i) /\ calls[d].at = "wait"
      BY <2>2 DEF CreateAwaited
    <3> QED BY <1>1, <1>2, <2>2, <3>1
  <2> QED BY <2>1, <2>2
<1>4. CreateAnswered'
  <2> SUFFICES ASSUME NEW d \in Callers, NEW i \in Instances, Creates(d, i)'
               PROVE  /\ calls'[d].at # "error"
                      /\ calls'[d].at = "wait" => waiting'[i]["create"] = d /\ BeingMade(i)'
    BY DEF CreateAnswered
  <2>1. CASE d = c
    BY <1>2, <2>1
  <2>2. CASE d # c
    <3>1. Creates(d, i) /\ i # j
      BY <1>1, <2>2 DEF Creates
    <3> QED BY <1>1, <2>2, <3>1 DEF CreateAnswered
  <2> QED BY <2>1, <2>2
<1>5. EndsSeenTo'
  <2> SUFFICES ASSUME NEW d \in Callers, Busy(d)', (Needed(d) # "create")', Lasting(calls[d].inst)'
               PROVE  calls'[d].at = "send" \/ (calls'[d].at = "save" /\ calls'[d].kind # "hold")
    BY DEF EndsSeenTo
  <2>1. CASE d = c
    BY <1>2, <2>1
  <2>2. CASE d # c
    <3>1. calls'[d] = calls[d] /\ Busy(d) /\ Needed(d) # "create" /\ calls[d].inst # j
      BY <1>1, <2>2
    <3>2. PICK i \in Instances : i = calls[d].inst
      BY <3>1, CallWell
    <3>3. i = calls'[d].inst /\ Lasting(i)'
      BY <3>1, <3>2
    <3>4. Lasting(i)
      BY <3>1, <3>2, <3>3
    <3> QED BY <3>1, <3>2, <3>4 DEF EndsSeenTo
  <2> QED BY <2>1, <2>2
<1>6. LastingKnown'
  <2> SUFFICES ASSUME NEW i \in Instances, Lasting(i)'
               PROVE  \/ cache'[i] # "none" /\ routed'[i]
                      \/ \E d \in Callers : Creates(d, i)' /\ calls'[d].at \in {"wait", "ok"}
    BY DEF LastingKnown
  <2>1. CASE i = j
    BY <1>2, <2>1
  <2>2. CASE i # j
    BY <1>1, <1>2, <2>2 DEF LastingKnown
  <2> QED BY <2>1, <2>2
<1>7. UnbilledHeld'
  <2> SUFFICES ASSUME NEW i \in Instances, Lasting(i)', row'[i] \in {"none", "stopped"}
               PROVE  \E d \in Callers : Busy(d)' /\ calls'[d].inst = i /\ calls'[d].kind \in Starters
    BY DEF UnbilledHeld
  <2>1. CASE i = j
    BY <1>2, <2>1
  <2>2. CASE i # j
    <3>1. PICK d \in Callers : Busy(d) /\ calls[d].inst = i /\ calls[d].kind \in Starters
      BY <2>2 DEF UnbilledHeld
    <3>2. d # c
      BY <2>2, <3>1
    <3> QED BY <1>1, <3>1, <3>2
  <2> QED BY <2>1, <2>2
<1> QED BY <1>3, <1>4, <1>5, <1>6, <1>7

\* Who sends for the end of an instance that is not known to exist is right.
LEMMA UnknownNotLasting ==
  ASSUME LifeInv, StartsAlone, NEW c \in Callers, Busy(c), Needed(c) # "create",
         NEW j \in Instances, calls[c].inst = j, cache[j] = "none" \/ ~routed[j]
  PROVE  ~Lasting(j)
<1> SUFFICES ASSUME Lasting(j) PROVE FALSE
  OBVIOUS
<1>1. PICK d \in Callers : Creates(d, j)
  BY DEF LifeInv, LastingKnown
<1>2. Busy(d) /\ calls[d].inst = j /\ calls[d].kind \in Starters /\ Needed(d) = "create"
  BY <1>1 DEF Creates, Needed, CommandOf, Starters
<1> QED BY <1>2 DEF StartsAlone

\* A call at another stage is the same call.
LEMMA StageOnly ==
  ASSUME RecordTypeOK, NEW c \in Callers, Busy(c), NEW at
  PROVE  LET x == [calls[c] EXCEPT !.at = at]
         IN  x # NoCall /\ x.inst = calls[c].inst /\ x.kind = calls[c].kind /\ x.at = at
<1>1. calls[c] \in Call
  BY CallWell
<1> QED BY <1>1 DEF Call, NoCall

LEMMA SkipLife ==
  ASSUME RecordTypeOK, LifeInv, StartsAlone, UNCHANGED nodeVars, NEW c \in Callers,
         SkipAbsent(c) \/ AskAnother(c)
  PROVE  LifeInv'
<1>1. Busy(c) /\ UNCHANGED <<cache, row, waiting>>
  BY DEF SkipAbsent, AskAnother, Sending, Busy
<1>2. PICK j \in Instances : j = calls[c].inst
  BY <1>1, CallWell
<1>3. /\ Needed(c) # "create" /\ (cache[j] = "none" \/ ~routed[j])
      /\ \A i \in Instances : i # j => routed'[i] = routed[i]
  <2>1. CASE SkipAbsent(c)
    BY <1>2, <2>1 DEF SkipAbsent, Absent, Scoped, Needed, CommandOf, Routed, RecordTypeOK
  <2>2. CASE AskAnother(c)
    BY <1>2, <2>2 DEF AskAnother, ForThisNode, Routed, Routes, Needed, CommandOf, RecordTypeOK
  <2> QED BY <2>1, <2>2
<1>4. ~Lasting(j)'
  BY <1>1, <1>2, <1>3, UnknownNotLasting, NodeAsItWas
<1>5. PICK x : /\ calls' = [calls EXCEPT ![c] = x]
               /\ x = NoCall \/ (x.inst = j /\ CommandOf(x.kind) # "create")
  <2>1. CASE Finish(c)
    BY <2>1 DEF Finish, SetCall
  <2>2. ASSUME NEW at, Go(c, at)
        PROVE  \E x : /\ calls' = [calls EXCEPT ![c] = x]
                      /\ x = NoCall \/ (x.inst = j /\ CommandOf(x.kind) # "create")
    <3>1. PICK x : x = [calls[c] EXCEPT !.at = at]
      OBVIOUS
    <3>2. calls' = [calls EXCEPT ![c] = x]
      BY <2>2, <3>1 DEF Go, SetCall
    <3>3. x.inst = j /\ x.kind = calls[c].kind
      BY <1>1, <1>2, <3>1, StageOnly
    <3>4. CommandOf(x.kind) # "create"
      BY <1>3, <3>3 DEF Needed
    <3> QED BY <3>2, <3>3, <3>4
  <2> QED BY <2>1, <2>2 DEF SkipAbsent, AskAnother
<1> QED BY <1>1, <1>2, <1>3, <1>4, <1>5, NodeAsItWas, EndFrame

\* A call that is settled or given up, when it was to end an instance.
LEMMA EndedLife ==
  ASSUME RecordTypeOK, LifeInv, UNCHANGED nodeVars, NEW c \in Callers, Busy(c), Needed(c) # "create",
         calls[c].at \in {"wait", "ok", "error"}, Unregister(calls[c]), Finish(c) \/ Go(c, "save"),
         UNCHANGED row,
         \A i \in Instances : i # calls[c].inst => UNCHANGED <<cache[i], routed[i]>>
  PROVE  LifeInv'
<1>1. PICK j \in Instances : j = calls[c].inst
  BY CallWell
<1>2. ~Lasting(j)'
  <2>1. ~Lasting(j)
    BY <1>1 DEF LifeInv, EndsSeenTo
  <2> QED BY <2>1, NodeAsItWas
<1>3. \A i \in Instances : waiting'[i]["create"] = waiting[i]["create"]
  <2>1. PICK k \in Kinds : k = Needed(c) /\ k # "create"
    BY CallWell
  <2>2. waiting' = [waiting EXCEPT ![j][k] = Nobody]
    BY <1>1, <2>1 DEF Unregister, Needed
  <2> QED BY <2>1, <2>2 DEF RecordTypeOK, Kinds
<1>5. PICK x : /\ calls' = [calls EXCEPT ![c] = x]
               /\ x = NoCall \/ (x.inst = j /\ CommandOf(x.kind) # "create")
  <2>1. CASE Finish(c)
    BY <2>1 DEF Finish, SetCall
  <2>2. CASE Go(c, "save")
    <3>1. PICK x : x = [calls[c] EXCEPT !.at = "save"]
      OBVIOUS
    <3>2. calls' = [calls EXCEPT ![c] = x]
      BY <2>2, <3>1 DEF Go, SetCall
    <3>3. x.inst = j /\ x.kind = calls[c].kind
      BY <1>1, <3>1, StageOnly
    <3>4. CommandOf(x.kind) # "create"
      BY <3>3 DEF Needed
    <3> QED BY <3>2, <3>3, <3>4
  <2> QED BY <2>1, <2>2
<1> QED BY <1>1, <1>2, <1>3, <1>5, NodeAsItWas, EndFrame

LEMMA TimeOutLife ==
  ASSUME ~LostReplies, RecordTypeOK, LifeInv, UNCHANGED nodeVars, NEW c \in Callers, TimeOut(c)
  PROVE  LifeInv'
<1>1. /\ Busy(c) /\ calls[c].at = "wait" /\ Finish(c) /\ Unregister(calls[c])
      /\ UNCHANGED <<row, cache, routed>> /\ ~Outstanding(Needed(c), calls[c].inst)
  BY DEF TimeOut, GiveUp, Waiting, Busy, Needed
<1>2. PICK j \in Instances : j = calls[c].inst
  BY <1>1, CallWell
<1>3. Needed(c) # "create"
  <2> SUFFICES ASSUME Needed(c) = "create" PROVE FALSE
    OBVIOUS
  <2>1. BeingMade(j)
    BY <1>1, <1>2 DEF LifeInv, CreateAnswered, Creates
  <2>2. Outstanding("create", j)
    BY <2>1 DEF BeingMade, Making, Made, MadeIn, Outstanding, LifeInv
  <2> QED BY <1>1, <1>2, <2>2
<1> QED BY <1>1, <1>3, EndedLife

\* Where one caller is having a pod made of an instance, nothing else is.
LEMMA NothingElse ==
  ASSUME LifeInv, StartsAlone, NEW c \in Callers, NEW j \in Instances,
         Busy(c), calls[c].inst = j, calls[c].kind \in Starters,
         calls[c].at # "wait" \/ Needed(c) # "create"
  PROVE  ~BeingMade(j)
<1> SUFFICES ASSUME BeingMade(j) PROVE FALSE
  OBVIOUS
<1>1. PICK d \in Callers : Creates(d, j) /\ calls[d].at = "wait"
  BY DEF LifeInv, CreateAwaited
<1>2. Busy(d) /\ calls[d].inst = j /\ Needed(d) = "create"
  BY <1>1 DEF Creates
<1> QED BY <1>1, <1>2 DEF StartsAlone

LEMMA ResumeLife ==
  ASSUME RecordTypeOK, LifeInv, StartsAlone, UNCHANGED nodeVars, NEW c \in Callers, Resume(c)
  PROVE  LifeInv'
<1>1. /\ Busy(c) /\ calls[c].at \in {"ok", "error"} /\ Unregister(calls[c]) /\ UNCHANGED row
      /\ Finish(c) \/ Go(c, "save")
  BY DEF Resume, Busy
<1>2. PICK j \in Instances : j = calls[c].inst
  BY <1>1, CallWell
<1>3. CASE Needed(c) # "create"
  <2>1. \A i \in Instances : i # j => UNCHANGED <<cache[i], routed[i]>>
    <3>1. Needed(c) \in {"delete", "stop"}
      BY <1>1, <1>3, CallWell DEF Kinds
    <3> QED BY <1>2, <3>1 DEF Resume, Needed, RecordTypeOK
  <2> QED BY <1>1, <1>2, <1>3, <2>1, EndedLife
<1>4. CASE Needed(c) = "create"
  <2>1. Creates(c, j) /\ calls[c].at = "ok" /\ calls[c].kind \in {"create", "start"}
    <3>1. Creates(c, j)
      BY <1>1, <1>2, <1>4 DEF Creates
    <3>2. calls[c].at # "error"
      BY <3>1 DEF LifeInv, CreateAnswered
    <3>3. calls[c].kind \in {"create", "start"}
      BY <1>4 DEF Needed, CommandOf
    <3> QED BY <1>1, <3>1, <3>2, <3>3
  <2>2. /\ cache' = Recorded(j, "pending") /\ routed' = [routed EXCEPT ![j] = TRUE]
        /\ Go(c, "save")
    BY <1>2, <1>4, <2>1 DEF Resume, Needed
  <2>3. /\ cache'[j] # "none" /\ routed'[j]
        /\ \A i \in Instances : i # j => UNCHANGED <<cache[i], routed[i]>>
    BY <2>2 DEF Recorded, RecordTypeOK
  <2>4. PICK x : x = [calls[c] EXCEPT !.at = "save"]
    OBVIOUS
  <2>5. x # NoCall /\ x.inst = j /\ x.kind = calls[c].kind /\ x.at = "save"
    BY <1>1, <1>2, <2>4, StageOnly
  <2>6. calls' = [calls EXCEPT ![c] = x]
    BY <2>2, <2>4 DEF Go, SetCall
  <2>7. \A i \in Instances : i # j => waiting'[i]["create"] = waiting[i]["create"]
    BY <1>1, <1>2 DEF Unregister, RecordTypeOK
  <2>8. MakesPod(x) /\ x.kind \in Starters /\ calls[c].kind \in Starters
    BY <1>4, <2>1, <2>5 DEF Needed, Starters, MakesPod
  <2>9. ~BeingMade(j)'
    BY <1>1, <1>2, <2>1, <2>8, NothingElse, NodeAsItWas
  <2>10. /\ \A m \in cmds' : m.live
         /\ \A i \in Instances : AtMostOne(i)'
         /\ \A i \in Instances : i # j =>
              /\ BeingMade(i)' <=> BeingMade(i)
              /\ Lasting(i)' => Lasting(i)
              /\ waiting'[i]["create"] = waiting[i]["create"]
              /\ UNCHANGED <<cache[i], routed[i], row[i]>>
    BY <1>1, <2>3, <2>7, NodeAsItWas
  <2> QED BY <1>1, <1>2, <2>3, <2>5, <2>6, <2>8, <2>9, <2>10, StartFrame
<1> QED BY <1>3, <1>4

\* The row of an instance that was made or started is written, or what was
\* done is to be undone.
LEMMA SaveMadeLife ==
  ASSUME RecordTypeOK, LifeInv, StartsAlone, UNCHANGED nodeVars, NEW c \in Callers,
         SaveNew(c) \/ SaveStarted(c)
  PROVE  LifeInv'
<1>1. /\ Busy(c) /\ calls[c].at = "save" /\ UNCHANGED <<cache, routed, waiting>>
      /\ calls[c].kind \in {"create", "start"} /\ calls[c].kind \in Starters /\ Needed(c) = "create"
  BY DEF SaveNew, SaveStarted, Saving, Busy, Starters, Needed, CommandOf
<1>2. PICK j \in Instances : j = calls[c].inst
  BY <1>1, CallWell
<1>3. ~BeingMade(j)'
  BY <1>1, <1>2, NothingElse, NodeAsItWas
<1>4. Lasting(j)' => cache[j] # "none" /\ routed[j]
  <2> SUFFICES ASSUME Lasting(j) PROVE cache[j] # "none" /\ routed[j]
    BY NodeAsItWas
  <2> SUFFICES ASSUME NEW d \in Callers, Creates(d, j), calls[d].at \in {"wait", "ok"} PROVE FALSE
    BY DEF LifeInv, LastingKnown
  <2>1. d = c
    BY <1>1, <1>2 DEF StartsAlone, Creates
  <2> QED BY <1>1, <2>1
<1>5. CASE SetRow(j, "pending") /\ Finish(c)
  <2>1. calls' = [calls EXCEPT ![c] = NoCall]
    BY <1>5 DEF Finish, SetCall
  <2>2. ~MakesPod(NoCall) /\ row'[j] = "pending" /\ \A i \in Instances : i # j => row'[i] = row[i]
    BY <1>5 DEF SetRow, RecordTypeOK, MakesPod
  <2> QED BY <1>1, <1>2, <1>3, <1>4, <2>1, <2>2, NodeAsItWas, StartFrame
<1>6. ASSUME NEW kind \in {"undo_create", "undo_start"}, UNCHANGED row,
             SetCall(c, [calls[c] EXCEPT !.kind = kind, !.at = "send"])
      PROVE  LifeInv'
  <2>1. PICK x : x = [calls[c] EXCEPT !.kind = kind, !.at = "send"]
    OBVIOUS
  <2>2. calls[c] \in Call
    BY <1>1, CallWell
  <2>3. x # NoCall /\ x.inst = j /\ x.kind = kind /\ x.at = "send"
    BY <1>2, <2>1, <2>2 DEF Call, NoCall
  <2>4. calls' = [calls EXCEPT ![c] = x]
    BY <1>6, <2>1 DEF SetCall
  <2>5. ~MakesPod(x) /\ x.kind \in Starters
    BY <2>3 DEF CommandOf, Starters, MakesPod
  <2> QED BY <1>1, <1>2, <1>3, <1>4, <1>6, <2>3, <2>4, <2>5, NodeAsItWas, StartFrame
<1> QED BY <1>2, <1>5, <1>6 DEF SaveNew, SaveStarted

LEMMA SaveEndedLife ==
  ASSUME RecordTypeOK, LifeInv, UNCHANGED nodeVars, NEW c \in Callers,
         SaveTerminated(c) \/ SaveStopped(c)
  PROVE  LifeInv'
<1>1. /\ Busy(c) /\ calls[c].at = "save" /\ UNCHANGED <<cache, routed, waiting>> /\ Finish(c)
      /\ calls[c].kind \notin Starters /\ Needed(c) # "create"
  BY DEF SaveTerminated, SaveStopped, Saving, Busy, Starters, Needed, CommandOf
<1>2. PICK j \in Instances : j = calls[c].inst
  BY <1>1, CallWell
<1>3. calls' = [calls EXCEPT ![c] = NoCall]
  BY <1>1 DEF Finish, SetCall
<1>4. CASE SaveStopped(c)
  <2>1. ~Lasting(j)'
    <3>1. ~Lasting(j)
      BY <1>1, <1>2, <1>4 DEF SaveStopped, Saving, LifeInv, EndsSeenTo
    <3> QED BY <3>1, NodeAsItWas
  <2>2. \A i \in Instances : i # j => row'[i] = row[i]
    BY <1>2, <1>4 DEF SaveStopped, SetRow, RecordTypeOK
  <2> QED BY <1>1, <1>2, <1>3, <2>1, <2>2, NodeAsItWas, EndFrame
<1>5. CASE SaveTerminated(c)
  <2> USE DEF LifeInv
  <2>1. \A i \in Instances : row'[i] \in {"none", "stopped"} => row'[i] = row[i]
    BY <1>2, <1>5 DEF SaveTerminated, MarkTerminated, SetRow, RecordTypeOK
  <2>2. \A d \in Callers : d # c => /\ calls'[d] = calls[d]
                                    /\ Busy(d)' <=> Busy(d)
                                    /\ Needed(d)' = Needed(d)
                                    /\ \A i \in Instances : Creates(d, i)' <=> Creates(d, i)
    BY <1>3 DEF Busy, Needed, Creates
  <2>3. ~Busy(c)' /\ \A i \in Instances : ~Creates(c, i) /\ ~Creates(c, i)'
    BY <1>1, <1>3 DEF Busy, Creates, RecordTypeOK
  <2>4. CreateAwaited'
    BY <2>2, <2>3, NodeAsItWas DEF CreateAwaited
  <2>5. CreateAnswered'
    <3> SUFFICES ASSUME NEW d \in Callers, NEW i \in Instances, Creates(d, i)'
                 PROVE  /\ calls'[d].at # "error"
                        /\ calls'[d].at = "wait" => waiting'[i]["create"] = d /\ BeingMade(i)'
      BY DEF CreateAnswered
    <3> QED BY <1>1, <2>2, <2>3, NodeAsItWas DEF CreateAnswered
  <2>6. EndsSeenTo'
    <3> SUFFICES ASSUME NEW d \in Callers, Busy(d)', (Needed(d) # "create")', Lasting(calls[d].inst)'
                 PROVE  calls'[d].at = "send" \/ (calls'[d].at = "save" /\ calls'[d].kind # "hold")
      BY DEF EndsSeenTo
    <3>1. calls'[d] = calls[d] /\ Busy(d) /\ Needed(d) # "create"
      BY <2>2, <2>3
    <3>2. PICK i \in Instances : i = calls[d].inst
      BY <3>1, CallWell
    <3>3. i = calls'[d].inst /\ Lasting(i)'
      BY <3>1, <3>2
    <3>4. Lasting(i)
      BY <3>3, NodeAsItWas
    <3> QED BY <3>1, <3>2, <3>4 DEF EndsSeenTo
  <2>7. LastingKnown'
    BY <1>1, <2>2, <2>3, NodeAsItWas DEF LastingKnown
  <2>8. UnbilledHeld'
    <3> SUFFICES ASSUME NEW i \in Instances, Lasting(i), row[i] \in {"none", "stopped"}
                 PROVE  \E d \in Callers : Busy(d)' /\ calls'[d].inst = i /\ calls'[d].kind \in Starters
      BY <2>1, NodeAsItWas DEF UnbilledHeld
    <3>1. PICK d \in Callers : Busy(d) /\ calls[d].inst = i /\ calls[d].kind \in Starters
      BY DEF UnbilledHeld
    <3>2. d # c
      BY <1>1, <3>1
    <3> QED BY <2>2, <3>1, <3>2
  <2>9. \A m \in cmds' : m.live
    BY NodeAsItWas
  <2> QED BY <2>4, <2>5, <2>6, <2>7, <2>8, <2>9
<1> QED BY <1>4, <1>5

LEMMA DispatchLife ==
  ASSUME NodeTypeOK, RecordTypeOK, LifeInv, StartsAlone, NEW c \in Callers, DispatchCommand(c)
  PROVE  LifeInv'
<1>1. /\ Busy(c) /\ calls[c].at = "send" /\ Go(c, "wait") /\ UNCHANGED <<cache, row, pods, uplink>>
      /\ routed' = Routed(calls[c])
      /\ waiting' = [waiting EXCEPT ![calls[c].inst][Needed(c)] = c]
  BY DEF DispatchCommand, Dispatch, Receive, Sending, Busy, Needed
<1>2. PICK j \in Instances : j = calls[c].inst
  BY <1>1, CallWell
<1>k. PICK k \in Kinds : k = Needed(c)
  BY <1>1, CallWell
<1>3. PICK m : /\ m = [id |-> received', kind |-> k, inst |-> j, step |-> "start", live |-> TRUE]
               /\ cmds' = cmds \cup {m}
  BY <1>2, <1>k DEF DispatchCommand, Receive, Needed
<1>4. /\ \A n \in cmds' : n.live
      /\ \A i \in Instances : Making(i)' = IF i = j /\ k = "create" THEN Making(i) \cup {m} ELSE Making(i)
      /\ \A i \in Instances : Made(i)' = Made(i) /\ AtMostOne(i)
      /\ \A i \in Instances : (Doomed(i)' <=> Doomed(i) \/ (i = j /\ k # "create")) /\ (Stays(i)' <=> Stays(i))
  BY <1>1, <1>3 DEF Making, Made, Doomed, Stays, LifeInv, CreateAwaited
<1>5. \A i \in Instances : i # j => /\ routed'[i] = routed[i]
                                    /\ waiting'[i]["create"] = waiting[i]["create"]
  BY <1>1, <1>2, <1>k DEF Routed, RecordTypeOK
<1>6. PICK x : x = [calls[c] EXCEPT !.at = "wait"]
  OBVIOUS
<1>7. x # NoCall /\ x.inst = j /\ x.kind = calls[c].kind /\ x.at = "wait"
      /\ calls' = [calls EXCEPT ![c] = x] /\ CommandOf(x.kind) = k
  BY <1>1, <1>2, <1>k, <1>6, StageOnly DEF Go, SetCall, Needed
<1>8. \A i \in Instances : Lasting(i)' => Lasting(i)
  BY <1>4 DEF Lasting
<1>9. \A i \in Instances : i # j \/ k # "create" => (BeingMade(i)' <=> BeingMade(i)) /\ AtMostOne(i)'
  BY <1>1, <1>4 DEF BeingMade, AtMostOne
<1>10. CASE k # "create"
  <2>1. ~Lasting(j)'
    BY <1>4, <1>10 DEF Lasting
  <2>2. \A i \in Instances : waiting'[i]["create"] = waiting[i]["create"]
    BY <1>1, <1>2, <1>k, <1>10 DEF RecordTypeOK, Kinds
  <2> QED BY <1>1, <1>2, <1>k, <1>4, <1>5, <1>7, <1>8, <1>9, <1>10, <2>1, <2>2, EndFrame
<1>11. CASE k = "create"
  <2>1. calls[c].kind \in Starters
    BY <1>k, <1>11 DEF Needed, CommandOf, Starters
  <2>2. ~BeingMade(j)
    BY <1>1, <1>2, <2>1, NothingElse
  <2>3. Making(j)' = {m} /\ Made(j)' = {}
    BY <1>4, <1>11, <2>2 DEF BeingMade
  <2>4. BeingMade(j)' /\ AtMostOne(j)'
    BY <2>3 DEF BeingMade, AtMostOne
  <2>5. waiting'[j]["create"] = c /\ MakesPod(x)
    BY <1>1, <1>2, <1>k, <1>7, <1>11 DEF RecordTypeOK, MakesPod
  <2>6. \A i \in Instances : AtMostOne(i)'
    BY <1>9, <2>4
  <2>7. \A i \in Instances : i # j =>
          /\ BeingMade(i)' <=> BeingMade(i)
          /\ Lasting(i)' => Lasting(i)
          /\ waiting'[i]["create"] = waiting[i]["create"]
          /\ UNCHANGED <<cache[i], routed[i], row[i]>>
    BY <1>1, <1>5, <1>8, <1>9
  <2> QED BY <1>1, <1>2, <1>4, <1>7, <1>11, <2>1, <2>4, <2>5, <2>6, <2>7, StartFrame
<1> QED BY <1>10, <1>11

LEMMA DeliverLife ==
  ASSUME NodeTypeOK, RecordsTyped, LifeInv, StartsAlone, NEW j \in Instances, DeliverNext(j)
  PROVE  LifeInv'
<1>0. /\ RecordTypeOK /\ Registered /\ uplink[j] \in Seq(Message) /\ uplink[j] # <<>>
      /\ uplink'[j] = Tail(uplink[j]) /\ \A i \in Instances : i # j => uplink'[i] = uplink[i]
      /\ UNCHANGED <<pods, cmds>>
  BY DEF RecordsTyped, DeliverNext, NodeTypeOK
<1>1. PICK m \in Message : m = Head(uplink[j])
  <2> HIDE DEF Message
  <2> QED BY <1>0
<1>2. /\ \A i \in Instances : /\ Making(i)' = Making(i) /\ (Lasting(i)' <=> Lasting(i)) /\ AtMostOne(i)
                              /\ i # j => (BeingMade(i)' <=> BeingMade(i)) /\ AtMostOne(i)'
      /\ \A n \in cmds' : n.live
  <2>1. \A n \in cmds' : n.live
    BY <1>0 DEF LifeInv
  <2>2. \A i \in Instances : Making(i)' = Making(i) /\ (Lasting(i)' <=> Lasting(i)) /\ AtMostOne(i)
    BY <1>0 DEF Making, Lasting, Stays, Doomed, LifeInv, CreateAwaited
  <2>3. \A i \in Instances : i # j => Made(i)' = Made(i) /\ uplink'[i] = uplink[i]
    BY <1>0 DEF Made
  <2>4. \A i \in Instances : i # j => (BeingMade(i)' <=> BeingMade(i)) /\ AtMostOne(i)'
    BY <2>2, <2>3 DEF BeingMade, AtMostOne
  <2> QED BY <2>1, <2>2, <2>4
<1>3. /\ \A n \in MadeIn(uplink'[j]) : n + 1 \in MadeIn(uplink[j]) /\ uplink'[j][n] = uplink[j][n + 1] /\ n \in Nat \ {0}
      /\ \A n \in MadeIn(uplink[j]) : n \in Nat /\ (n # 1 => n - 1 \in MadeIn(uplink'[j]))
      /\ m = uplink[j][1] /\ (m.about = "create" => 1 \in MadeIn(uplink[j]))
      /\ (m.about # "create" => 1 \notin MadeIn(uplink[j]))
  <2> HIDE DEF Message
  <2> QED BY <1>0, <1>1, MadeLess
<1>4. /\ \A n, k \in MadeIn(uplink[j]) : n = k /\ uplink[j][n].value = "ok"
      /\ Making(j) = {} \/ MadeIn(uplink[j]) = {}
  BY <1>2 DEF AtMostOne, Made
<1>5. AtMostOne(j)'
  <2>1. ASSUME NEW n \in MadeIn(uplink'[j]), NEW k \in MadeIn(uplink'[j])
        PROVE  n = k /\ uplink'[j][n].value = "ok"
    <3>1. n + 1 = k + 1 /\ uplink[j][n + 1].value = "ok"
      BY <1>3, <1>4
    <3>2. n \in Nat /\ k \in Nat
      BY <1>3
    <3> QED BY <1>3, <3>1, <3>2
  <2>2. Making(j) = {} \/ MadeIn(uplink'[j]) = {}
    BY <1>3, <1>4
  <2> QED BY <1>2, <2>1, <2>2 DEF AtMostOne, Made
<1>6. CASE m.about # "create"
  <2>1. BeingMade(j)' <=> BeingMade(j)
    <3>1. MadeIn(uplink'[j]) = {} <=> MadeIn(uplink[j]) = {}
      BY <1>3, <1>6
    <3> QED BY <1>2, <3>1 DEF BeingMade, Made
  <2>2. \A i \in Instances : (BeingMade(i)' <=> BeingMade(i)) /\ AtMostOne(i)' /\ (Lasting(i)' <=> Lasting(i))
    BY <1>2, <1>5, <2>1
  <2>3. CASE m.about = "status"
    <3>1. m.value \in Statuses
      BY <1>1, <2>3 DEF Message, Kinds
    <3>2. RecordStatus(j, m.value)
      BY <1>1, <2>3 DEF DeliverNext
    <3>3. \A i \in Instances : cache[i] # "none" => cache'[i] # "none"
      BY <1>0, <3>1, <3>2 DEF RecordStatus, Recorded, RecordTypeOK, Statuses
    <3>4. UNCHANGED <<calls, waiting, routed, row>>
      BY <3>2 DEF RecordStatus
    <3> QED BY <1>0, <1>2, <2>2, <3>3, <3>4, CallsStay
  <2>4. CASE m.about # "status"
    <3>1. m.about \in Kinds /\ m.value \in {"ok", "error"} /\ Answer(j, m.about, m.value)
      BY <1>1, <2>4 DEF Message, DeliverNext
    <3>2. UNCHANGED <<waiting, cache, routed, row>>
      BY <3>1 DEF Answer
    <3>3. CASE UNCHANGED calls
      BY <1>0, <1>2, <2>2, <3>2, <3>3, CallsStay
    <3>4. CASE calls' # calls
      <4>1. PICK c : c = waiting[j][m.about] /\ c # Nobody /\ calls[c].at = "wait" /\ Go(c, m.value)
        BY <3>1, <3>4 DEF Answer
      <4>2. c \in Callers
        BY <1>0, <3>1, <4>1 DEF RecordTypeOK
      <4>3. Busy(c) /\ calls[c].inst = j /\ Needed(c) = m.about
        BY <1>0, <3>1, <4>1, <4>2 DEF Registered, RegisteredFor
      <4>4. ~Lasting(j)'
        BY <1>2, <1>6, <4>1, <4>2, <4>3 DEF LifeInv, EndsSeenTo
      <4>5. PICK x : x = [calls[c] EXCEPT !.at = m.value]
        OBVIOUS
      <4>6. x.inst = j /\ CommandOf(x.kind) # "create" /\ calls' = [calls EXCEPT ![c] = x]
        BY <1>0, <1>6, <4>1, <4>2, <4>3, <4>5, StageOnly DEF Go, SetCall, Needed
      <4> QED BY <1>0, <1>2, <1>6, <2>2, <3>2, <4>2, <4>3, <4>4, <4>6, EndFrame
    <3> QED BY <3>3, <3>4
  <2> QED BY <2>3, <2>4
<1>7. CASE m.about = "create"
  <2>1. m.value = "ok" /\ MadeIn(uplink[j]) # {} /\ Making(j) = {}
    BY <1>3, <1>4, <1>7
  <2>2. MadeIn(uplink'[j]) = {}
    <3> SUFFICES ASSUME NEW n \in MadeIn(uplink'[j]) PROVE FALSE
      OBVIOUS
    <3>1. n \in Nat \ {0} /\ n + 1 = 1
      BY <1>3, <1>4, <1>7
    <3> QED BY <3>1
  <2>3. ~BeingMade(j)'
    BY <1>2, <2>1, <2>2 DEF BeingMade, Made
  <2>4. PICK c \in Callers : Creates(c, j) /\ calls[c].at = "wait"
    BY <2>1 DEF LifeInv, CreateAwaited, BeingMade, Made
  <2>5. /\ Busy(c) /\ calls[c].inst = j /\ Needed(c) = "create" /\ calls[c].kind \in Starters
        /\ waiting[j]["create"] = c
    BY <2>4 DEF Creates, LifeInv, CreateAnswered, Needed, CommandOf, Starters
  <2>6. Answer(j, "create", "ok")
    BY <1>1, <1>7, <2>1 DEF DeliverNext
  <2>7. UNCHANGED <<waiting, cache, routed, row>> /\ Go(c, "ok")
    BY <2>4, <2>5, <2>6, RecordAssumption DEF Answer, Nobody
  <2>8. PICK x : x = [calls[c] EXCEPT !.at = "ok"]
    OBVIOUS
  <2>9. x # NoCall /\ x.inst = j /\ x.kind = calls[c].kind /\ x.at = "ok"
        /\ calls' = [calls EXCEPT ![c] = x]
    BY <1>0, <2>5, <2>7, <2>8, StageOnly DEF Go, SetCall
  <2>10. MakesPod(x) /\ x.kind \in Starters
    BY <2>5, <2>9 DEF Needed, MakesPod
  <2>11. \A i \in Instances : AtMostOne(i)'
    BY <1>2, <1>5
  <2>12. \A i \in Instances : i # j =>
          /\ BeingMade(i)' <=> BeingMade(i)
          /\ Lasting(i)' => Lasting(i)
          /\ waiting'[i]["create"] = waiting[i]["create"]
          /\ UNCHANGED <<cache[i], routed[i], row[i]>>
    BY <1>2, <2>7
  <2> QED BY <1>0, <1>2, <2>3, <2>5, <2>9, <2>10, <2>11, <2>12, StartFrame
<1> QED BY <1>6, <1>7

LEMMA LoseLife ==
  ASSUME NodeTypeOK, RecordTypeOK, LifeInv, LoseConnection, Orderly'
  PROVE  LifeInv'
<1>1. cmds = {} /\ cmds' = {} /\ UNCHANGED <<pods, cache, routed, row>>
      /\ \A i \in Instances : uplink'[i] = <<>>
  BY DEF LoseConnection, Drop, CutStream, CloseSession, Orderly
<1>2. \A c \in Callers : ~Busy(c)'
  BY DEF LoseConnection, Drop, CutStream, Orderly
<1>3. \A c \in Callers : ~Busy(c)
  <2> SUFFICES ASSUME NEW c \in Callers, Busy(c) PROVE FALSE
    OBVIOUS
  <2>1. PICK x : x = [calls[c] EXCEPT !.at = "error"]
    OBVIOUS
  <2>2. x # NoCall
    BY <2>1, StageOnly
  <2>3. calls'[c] \in {x, calls[c]}
    BY <2>1 DEF LoseConnection, CloseSession
  <2> QED BY <1>2, <2>2, <2>3 DEF Busy
<1>4. \A i \in Instances : /\ ~BeingMade(i)' /\ AtMostOne(i)'
                           /\ Lasting(i)' <=> Lasting(i)
  BY <1>1 DEF BeingMade, AtMostOne, Making, Made, MadeIn, Lasting, Stays, Doomed
<1>5. CreateAwaited' /\ CreateAnswered' /\ EndsSeenTo'
  BY <1>2, <1>4 DEF CreateAwaited, CreateAnswered, EndsSeenTo, Creates
<1>6. LastingKnown'
  BY <1>1, <1>3, <1>4 DEF LifeInv, LastingKnown, Creates
<1>7. UnbilledHeld'
  BY <1>1, <1>3, <1>4 DEF LifeInv, UnbilledHeld
<1> QED BY <1>1, <1>5, <1>6, <1>7 DEF LifeInv

\* Nothing goes wrong but connections between commands, and a create or start
\* is alone on its instance.
Quiet == ~NodeErrors /\ ~LostReplies /\ MaxRestarts = 0

LEMMA LifeStep ==
  Quiet /\ LifeTyped /\ LifeInv /\ Orderly /\ Orderly' /\ [Next]_vars => LifeInv'
<1> SUFFICES ASSUME Quiet, LifeTyped, LifeInv, Orderly, Orderly', [Next]_vars PROVE LifeInv'
  OBVIOUS
<1>0. NodeTypeOK /\ RecordsTyped /\ RecordTypeOK /\ StartsAlone /\ ~NodeErrors /\ ~LostReplies
  BY DEF LifeTyped, RecordsTyped, Orderly, Quiet
<1>1. CASE NodeStep /\ UNCHANGED recordVars
  BY <1>0, <1>1, NodeLife
<1>2. CASE Connect /\ UNCHANGED recordVars
  BY <1>0, <1>2, ConnectLife
<1>3. CASE RecordStep /\ UNCHANGED nodeVars
  <2>1. CASE Request
    BY <1>0, <1>3, <2>1, AskLife DEF Request
  <2>2. ASSUME NEW c \in Callers, Proceed(c) \/ TimeOut(c) PROVE LifeInv'
    <3>1. CASE SkipAbsent(c) \/ AskAnother(c)
      BY <1>0, <1>3, <3>1, SkipLife
    <3>2. CASE Unavailable(c, linked)
      BY <3>2 DEF Unavailable, Sending, Orderly, Busy
    <3>3. CASE Resume(c)
      BY <1>0, <1>3, <3>3, ResumeLife
    <3>4. CASE Save(c)
      BY <1>0, <1>3, <3>4, SaveMadeLife, SaveEndedLife DEF Save
    <3>5. CASE TimeOut(c)
      BY <1>0, <1>3, <3>5, TimeOutLife
    <3> QED BY <2>2, <3>1, <3>2, <3>3, <3>4, <3>5 DEF Proceed
  <2>3. CASE Reconcile \/ GracePeriodEnds
    BY <1>0, <1>3, <2>3, ReconcileLife
  <2> QED BY <1>3, <2>1, <2>2, <2>3 DEF RecordStep
<1>4. ASSUME NEW c \in Callers, DispatchCommand(c) PROVE LifeInv'
  BY <1>0, <1>4, DispatchLife
<1>5. ASSUME NEW i \in Instances, DeliverNext(i) PROVE LifeInv'
  BY <1>0, <1>5, DeliverLife
<1>6. CASE LoseConnection
  BY <1>0, <1>6, LoseLife
<1>7. CASE RestartControlPlane
  <2>1. restarts \in Nat /\ restarts < 0
    BY <1>0, <1>7 DEF RestartControlPlane, Restart, Quiet, RecordTypeOK
  <2> QED BY <2>1
<1>8. CASE UNCHANGED vars
  <2>1. UNCHANGED nodeVars /\ UNCHANGED recordVars
    BY <1>8 DEF vars
  <2>2. UNCHANGED <<calls, waiting, cache, routed, row>>
    BY <2>1 DEF recordVars
  <2> QED BY <1>0, <2>1, <2>2, NodeAsItWas, CallsStay
<1> QED BY <1>1, <1>2, <1>3, <1>4, <1>5, <1>6, <1>7, <1>8 DEF Next

LEMMA LifeStart == Init => LifeInv
<1> SUFFICES ASSUME Init PROVE LifeInv
  OBVIOUS
<1>1. cmds = {} /\ \A i \in Instances : pods[i] = <<>> /\ uplink[i] = <<>>
  BY DEF Init, NodeInit
<1>2. \A c \in Callers : ~Busy(c)
  BY DEF Init, RecordInit, Busy
<1>3. \A i \in Instances : ~BeingMade(i) /\ AtMostOne(i) /\ ~Lasting(i)
  <2>0. DOMAIN <<>> = {}
    OBVIOUS
  <2>1. ASSUME NEW i \in Instances PROVE Making(i) = {} /\ Made(i) = {} /\ ~Stays(i)
    <3>1. pods[i] = <<>> /\ uplink[i] = <<>> /\ cmds = {}
      BY <1>1
    <3>2. ~Stays(i)
      BY <2>0, <3>1, Zenon DEF Stays
    <3>3. Made(i) = {}
      BY <2>0, <3>1, Zenon DEF Made, MadeIn
    <3>4. Making(i) = {}
      BY <3>1 DEF Making
    <3> QED BY <3>2, <3>3, <3>4
  <2> QED BY <2>1 DEF BeingMade, AtMostOne, Lasting
<1>4. CreateAwaited /\ CreateAnswered /\ EndsSeenTo
  BY <1>2, <1>3 DEF CreateAwaited, CreateAnswered, EndsSeenTo, Creates
<1>5. LastingKnown /\ UnbilledHeld
  BY <1>3 DEF LastingKnown, UnbilledHeld
<1> QED BY <1>1, <1>4, <1>5 DEF LifeInv

LEMMA LifeEnough == LifeTyped /\ LifeInv => NoPodUnbilledForEver
<1> SUFFICES ASSUME LifeTyped, LifeInv, NEW i \in Instances, Runs(i), row[i] \in {"none", "stopped"}
             PROVE  BeingHandled(i)
  BY DEF NoPodUnbilledForEver
<1>1. Stays(i)
  BY DEF Runs, LivePods, Live, Stays
<1>2. CASE Doomed(i)
  BY <1>2 DEF Doomed, BeingHandled
<1>3. CASE ~Doomed(i)
  BY <1>1, <1>3 DEF Lasting, LifeInv, UnbilledHeld, BeingHandled, Busy
<1> QED BY <1>2, <1>3

\* No pod runs where nothing would ever bill or stop it, however requests,
\* commands, reports and the reconciler interleave, when no answer is lost, no
\* node refuses a command and the control plane stays up, in a behaviour where
\* whoever creates or starts an instance is alone on it and connections are
\* lost between commands (server.go:929-931, instance_hold.go:216-217,
\* runner.go, reconciler.go).
THEOREM PodsAreBilledOrHandled ==
  ASSUME Quiet
  PROVE  Spec /\ []Orderly => []NoPodUnbilledForEver
<1>1. LifeTyped /\ LifeInv /\ Orderly /\ Orderly' /\ [Next]_vars => LifeTyped' /\ LifeInv'
  BY LifeTypedStep, LifeStep
<1>2. Init => LifeTyped /\ LifeInv
  BY LifeTypedInit, LifeStart
<1>3. LifeTyped /\ LifeInv => NoPodUnbilledForEver
  BY LifeEnough
<1> QED BY <1>1, <1>2, <1>3, PTL DEF Spec
=============================================================================
