--------------------------- MODULE ComputeBilling ---------------------------
(***************************************************************************)
(* What an account pays for one instance with a disk: the usage collector  *)
(* (pkg/billing/collector.go, stopped_storage.go), the credit enforcer     *)
(* that stops the instance before the credit is gone (enforcer.go), the    *)
(* storage holds that make the disk free while there is none               *)
(* (storage_hold.go) and the sweep that forgets billed instances           *)
(* (pkg/compute/retention.go).                                             *)
(*                                                                         *)
(* A time unit is a minute, the shortest interval the collector bills.     *)
(* The instance costs one unit of credit a minute while it runs and its    *)
(* disk DiskRate while it is stopped.                                      *)
(***************************************************************************)
EXTENDS Integers, Sequences, FiniteSets, FiniteSetsExt

CONSTANTS
  Collectors,    \* passes that may be under way at once
  Settler,       \* the one that also settles for the enforcer
  DiskRate,      \* price of a stopped disk per minute
  Horizon,       \* enforcementHorizon, in minutes
  Runway,        \* credit a start must find (MinLaunchRunway)
  HoldPeriod,    \* minutes a hold lasts before the disk is deleted
  Retention,     \* minutes a terminated row is kept
  StartBalance,  \* the credit at first
  TopUpAmount,   \* what one top-up adds
  MaxPending,    \* minutes a pod may take to start
  ReviveWindow,  \* minutes a pod may be missing and come back
  MaxTopUps,     \* bound: top-ups
  MaxMinutes,    \* bound: the clock stops here
  MaxFaults      \* bound: statements that fail, pods that disappear for a while

VARIABLES
  minute,    \* the database clock
  credit,    \* CreditBalance of the account
  inst,      \* the row of compute.instances
  usage,     \* billing.usage_records of the instance, oldest first
  hold,      \* the active row of billing.storage_holds, or NoHold
  released,  \* MAX(released_at), NoTime when no hold was released
  pass,      \* pass[c]: where each collection is
  enf,       \* where the enforcer's tick is
  sweeper,   \* where the storage hold sweep is
  topUps,    \* top-ups made
  faults,    \* statements that failed
  was        \* history: what each past minute was

billingVars ==
  <<minute, credit, inst, usage, hold, released, pass, enf, sweeper, topUps, faults, was>>

NoTime   == -1
NoHold  == [since |-> NoTime]
Resting == [at |-> "idle"]

Larger(a, b)  == IF a > b THEN a ELSE b
Smaller(a, b) == IF a < b THEN a ELSE b

\* MAX(end_time) of the instance's records.
LastEnd == Max({NoTime} \union {usage[n].to : n \in DOMAIN usage})

\* The end of the running time to be billed, NoTime while it goes on.
End == IF inst.ended # NoTime THEN inst.ended
       ELSE IF inst.st = "stopped" THEN inst.stopped ELSE NoTime

\* Mutant of BilledThrough: the records already written are not looked at.
BilledThroughResume == Larger(inst.created, inst.resumed)

\* getLastCollectionTime, created_at when it has nothing.
BilledThrough == Larger(Larger(LastEnd, inst.created), inst.resumed)

BillingInit ==
  /\ minute = 0 /\ credit = StartBalance
  /\ inst = [st |-> "pending", created |-> 0, stopped |-> NoTime, resumed |-> NoTime, ended |-> NoTime]
  /\ usage = <<>>
  /\ hold = NoHold /\ released = NoTime
  /\ pass = [c \in Collectors |-> Resting]
  /\ enf = Resting /\ sweeper = Resting
  /\ topUps = 0 /\ faults = 0
  /\ was = <<>>

-----------------------------------------------------------------------------
(* The instance and its owner. *)

Observe(from, to) ==
  /\ inst.st = from
  /\ inst' = [inst EXCEPT !.st = to, !.ended = IF to = "terminated" THEN minute ELSE NoTime]
  /\ UNCHANGED <<minute, credit, usage, hold, released, pass, enf, sweeper, topUps, was>>

PodRuns  == Observe("pending", "running") /\ UNCHANGED faults
PodEnds  == Observe("running", "terminated") /\ UNCHANGED faults
DiskGone == Observe("stopped", "terminated") /\ UNCHANGED faults

\* Revive: a pod taken for gone is seen again within the window.
PodRevives ==
  /\ inst.stopped = NoTime /\ minute - inst.ended < ReviveWindow
  /\ Observe("terminated", "running")
  /\ faults < MaxFaults /\ faults' = faults + 1

\* The start of a stopped instance: it needs the runway a launch needs.
StartAgain ==
  /\ inst.st = "stopped"
  /\ credit >= Runway
  /\ enf.at = "idle"
  /\ inst' = [inst EXCEPT !.st = "pending", !.stopped = NoTime, !.resumed = minute]
  /\ UNCHANGED <<minute, credit, usage, hold, released, pass, enf, sweeper, topUps, faults, was>>

TopUp ==
  /\ topUps < MaxTopUps
  /\ topUps' = topUps + 1
  /\ credit' = credit + TopUpAmount
  /\ UNCHANGED <<minute, inst, usage, hold, released, pass, enf, sweeper, faults, was>>

-----------------------------------------------------------------------------
(* One pass of the collector: the running time first, then the disk. *)

Failing == faults < MaxFaults /\ faults' = faults + 1
Fine    == UNCHANGED faults

OnlyPass == UNCHANGED <<minute, credit, inst, usage, hold, released, sweeper, topUps, was>>

\* getBillableInstances, and the pass's idea of "now" right after it.  The
\* enforcer's own pass (CollectAccount) is the settler's next one.
ListBillable(c) ==
  /\ pass[c].at = "idle"
  /\ LET billable == \/ inst.st = "running" /\ inst.ended = NoTime
                     \/ inst.st # "gone" /\ End # NoTime /\ End > BilledThrough + 1
     IN  pass' = [pass EXCEPT ![c] = IF billable THEN [at |-> "listed", end |-> End, now |-> minute]
                                                 ELSE [at |-> "disks"]]
  /\ enf' = IF c = Settler /\ enf.at = "settle" THEN [at |-> "settling"] ELSE enf
  /\ OnlyPass /\ Fine

\* getLastCollectionTime: a statement of its own, after the list.
ReadLast(c) ==
  /\ pass[c].at = "listed"
  /\ LET from == BilledThrough
         to   == IF pass[c].end # NoTime THEN Smaller(pass[c].end, pass[c].now) ELSE pass[c].now
     IN  pass' = [pass EXCEPT ![c] =
           IF to - from < 1 THEN [at |-> "disks"]
           ELSE [at |-> "record", kind |-> "compute", from |-> from, to |-> to]]
  /\ OnlyPass /\ UNCHANGED enf /\ Fine

\* Mutant of DiskFrom: the end of the last hold is not looked at.
DiskFromLastEnd == Larger(Larger(LastEnd, inst.created), inst.stopped)

\* Where the disk's next record starts.
DiskFrom == Larger(Larger(LastEnd, inst.created), Larger(inst.stopped, released))

\* stoppedDisks: nothing while a hold is active, never from before its release.
ListDisks(c) ==
  /\ pass[c].at = "disks"
  /\ pass' = [pass EXCEPT ![c] =
       IF inst.st = "stopped" /\ hold = NoHold /\ minute - DiskFrom >= 1
       THEN [at |-> "record", kind |-> "disk", from |-> DiskFrom, to |-> minute]
       ELSE [at |-> "done"]]
  /\ OnlyPass /\ UNCHANGED enf /\ Fine

AfterRecord(p) == [at |-> IF p.kind = "compute" THEN "disks" ELSE "done"]

RecordUsage(c) ==
  /\ pass[c].at = "record"
  /\ \/ /\ Fine
        /\ usage' = Append(usage, [kind |-> pass[c].kind, from |-> pass[c].from, to |-> pass[c].to])
        /\ pass' = [pass EXCEPT ![c].at = "draw"]
     \/ /\ Failing
        /\ pass' = [pass EXCEPT ![c] = AfterRecord(pass[c])]
        /\ UNCHANGED usage
  /\ UNCHANGED <<minute, credit, inst, hold, released, enf, sweeper, topUps, was>>

CostOf(p) == (p.to - p.from) * IF p.kind = "disk" THEN DiskRate ELSE 1

\* ConsumeCredit draws what there is; its failure is only logged.
DrawCredit(c) ==
  /\ pass[c].at = "draw"
  /\ \/ /\ Fine
        /\ credit' = credit - Smaller(credit, CostOf(pass[c]))
     \/ Failing /\ UNCHANGED credit
  /\ pass' = [pass EXCEPT ![c] = AfterRecord(pass[c])]
  /\ UNCHANGED <<minute, inst, usage, hold, released, enf, sweeper, topUps, was>>

EndPass(c) ==
  /\ pass[c].at = "done"
  /\ pass' = [pass EXCEPT ![c] = Resting]
  /\ enf' = IF c = Settler /\ enf.at = "settling" THEN [at |-> "done"] ELSE enf
  /\ UNCHANGED <<minute, credit, inst, usage, hold, released, sweeper, topUps, faults, was>>

-----------------------------------------------------------------------------
(* The enforcer's tick, once a minute. *)

OnlyEnforcer ==
  UNCHANGED <<minute, credit, usage, hold, released, pass, sweeper, topUps, was>>

ListRunning ==
  /\ enf.at = "idle"
  /\ enf' = IF inst.st = "running" THEN [at |-> "listed", through |-> BilledThrough, now |-> minute]
                                   ELSE [at |-> "done"]
  /\ OnlyEnforcer /\ UNCHANGED <<inst, faults>>

\* Mutant of CreditLeft: the time not yet metered is left out.
UnmeteredBalance == credit

\* assess: what is left of the balance once the time since is charged.
CreditLeft == credit - (enf.now - enf.through)

Assess ==
  /\ enf.at = "listed"
  /\ enf' = [at |-> IF CreditLeft <= Horizon THEN "hold" ELSE "done"]
  /\ OnlyEnforcer /\ UNCHANGED <<inst, faults>>

\* HoldInstances stops the pod, keeps the disk and marks the row stopped.
HoldInstance ==
  /\ enf.at = "hold"
  /\ IF inst.st \in {"running", "pending"}
     THEN /\ inst' = [inst EXCEPT !.st = "stopped", !.stopped = minute]
          /\ enf' = [at |-> "settle"]
     ELSE UNCHANGED inst /\ enf' = [at |-> "done"]
  /\ OnlyEnforcer /\ UNCHANGED faults

-----------------------------------------------------------------------------
(* The storage hold sweeper. *)

OnlySweeper == UNCHANGED <<minute, credit, usage, pass, enf, topUps, faults, was>>

Stored == inst.st = "stopped"

ListHolds ==
  /\ sweeper.at = "idle"
  /\ sweeper' = [at |-> "listed", stored |-> Stored, hold |-> hold]
  /\ OnlySweeper /\ UNCHANGED <<inst, hold, released>>

StartHold ==
  /\ sweeper.at = "listed" /\ sweeper.hold = NoHold
  /\ hold' = IF sweeper.stored /\ credit = 0 /\ hold = NoHold THEN [since |-> minute] ELSE hold
  /\ sweeper' = [at |-> "done"]
  /\ OnlySweeper /\ UNCHANGED <<inst, released>>

ReleaseHold ==
  /\ sweeper.at = "listed" /\ sweeper.hold # NoHold
  /\ credit > 0 \/ ~sweeper.stored
  /\ hold' = NoHold
  /\ released' = IF hold # NoHold THEN minute ELSE released
  /\ sweeper' = [at |-> "done"]
  /\ OnlySweeper /\ UNCHANGED inst

\* The hold ran out: the last look at the balance, then the deletion.
LastLook ==
  /\ sweeper.at = "listed" /\ sweeper.hold # NoHold
  /\ credit = 0 /\ sweeper.stored
  /\ sweeper' = IF minute >= sweeper.hold.since + HoldPeriod
                THEN [at |-> "purge", hold |-> sweeper.hold] ELSE [at |-> "done"]
  /\ OnlySweeper /\ UNCHANGED <<inst, hold, released>>

\* PurgeAccount deletes what is stopped now; then MarkStorageHoldPurged.
PurgeHeld ==
  /\ sweeper.at = "purge"
  /\ inst' = IF inst.st = "stopped" THEN [inst EXCEPT !.st = "terminated", !.ended = minute] ELSE inst
  /\ hold' = IF hold = sweeper.hold THEN NoHold ELSE hold
  /\ sweeper' = [at |-> "done"]
  /\ OnlySweeper /\ UNCHANGED released

-----------------------------------------------------------------------------
(* The retention sweep and the clock. *)

\* Mutant of FullyBilled: age alone decides.
AlwaysBilled == TRUE

FullyBilled == inst.ended <= Larger(LastEnd, inst.created) + 1

PurgeFullyBilledTerminated ==
  /\ inst.st = "terminated"
  /\ minute - inst.ended >= Retention
  /\ FullyBilled
  /\ inst' = [inst EXCEPT !.st = "gone"]
  /\ UNCHANGED <<minute, credit, usage, hold, released, pass, enf, sweeper, topUps, faults, was>>

\* A minute passes once the enforcer and the sweeper have had their tick and
\* no collection is in the middle of something.
PassMinute ==
  /\ minute < MaxMinutes
  /\ enf.at = "done" /\ sweeper.at = "done"
  /\ \A c \in Collectors : pass[c].at = "idle"
  /\ inst.st = "pending" => minute - Larger(inst.created, inst.resumed) < MaxPending
  /\ minute' = minute + 1
  /\ enf' = Resting /\ sweeper' = Resting
  /\ was' = Append(was, [st |-> inst.st, held |-> hold # NoHold])
  /\ UNCHANGED <<credit, inst, usage, hold, released, pass, topUps, faults>>

PassStep(c) ==
  ReadLast(c) \/ ListDisks(c) \/ RecordUsage(c) \/ DrawCredit(c) \/ EndPass(c)

BillingNext ==
  \/ PodRuns \/ PodEnds \/ DiskGone \/ PodRevives \/ StartAgain \/ TopUp
  \/ \E c \in Collectors : ListBillable(c) \/ PassStep(c)
  \/ ListRunning \/ Assess \/ HoldInstance
  \/ ListHolds \/ StartHold \/ ReleaseHold \/ LastLook \/ PurgeHeld
  \/ PurgeFullyBilledTerminated \/ PassMinute

BillingSpec == BillingInit /\ [][BillingNext]_billingVars

-----------------------------------------------------------------------------
(* What should hold. *)

Minutes(r) == r.from .. (r.to - 1)

\* No minute of an instance is billed twice (collector.go:142-180: each
\* interval starts where the last one ended), as long as one collection ends
\* before the next begins: two that read the same last end bill it twice.
BilledOnce == \A m, n \in DOMAIN usage :
  m # n => Minutes(usage[m]) \cap Minutes(usage[n]) = {}

\* A disk is billed only for minutes it was stopped and not on hold, and a
\* stopped minute is not billed as a running one unless the instance came to
\* its end while stopped (stopped_storage.go:20-31, collector.go:276-278).
BilledAsUsed == \A n \in DOMAIN usage : \A t \in Minutes(usage[n]) :
  t < Len(was) =>
    IF usage[n].kind = "disk"
    THEN was[t + 1] = [st |-> "stopped", held |-> FALSE]
    ELSE was[t + 1].st # "stopped" \/ (inst.ended # NoTime /\ inst.stopped # NoTime)

\* "Time spent on hold is never billed" (stopped_storage.go:26).
HeldTimeIsFree == \A n \in DOMAIN usage : \A t \in Minutes(usage[n]) :
  t < Len(was) => ~was[t + 1].held

\* Unless a statement failed, a row is only forgotten when every minute the
\* instance ran is billed, but for the last one before each stop (store.go
\* PurgeFullyBilledTerminated, collector.go:164-167).
ForgottenIsBilled == inst.st = "gone" /\ faults = 0 =>
  \A t \in 0 .. inst.ended - 2 :
    was[t + 1].st = "running" /\ was[t + 2].st = "running"
      => \E n \in DOMAIN usage : t \in Minutes(usage[n])

\* The credit covers what a running instance has cost since it was last
\* billed: it is stopped before it runs for nothing (enforcer.go:50-55).
NeverRunsForFree ==
  inst.st = "running" /\ (\A c \in Collectors : pass[c].at # "draw") =>
    credit >= minute - BilledThrough
=============================================================================
