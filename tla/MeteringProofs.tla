--------------------------- MODULE MeteringProofs ---------------------------
(***************************************************************************)
(* Theorems about what is billed for a bucket and for an instance, the     *)
(* catalog of objects, and the registry of a project, for any times and    *)
(* any number of holds, failures, passes and requests.                     *)
(***************************************************************************)
EXTENDS ComputeBilling, StorageMeter, ObjectStorage, ProjectRegistry, SumTheorems, TLAPS

-----------------------------------------------------------------------------
(* The latest end of a set of records.                                     *)

HasMax(S) == \E m \in S : \A n \in S : n <= m

\* What has a largest element is bounded by what Max chooses.
LEMMA MaxBounds ==
  ASSUME NEW S, HasMax(S)
  PROVE  Max(S) \in S /\ \A n \in S : n <= Max(S)
<1>1. PICK m \in S : \A n \in S : n <= m
  BY DEF HasMax
<1>2. \E x \in S : \A y \in S : x >= y
  BY <1>1
<1> QED BY <1>2 DEF Max

\* One more number leaves a set of numbers with a largest element.
LEMMA MaxOfMore ==
  ASSUME NEW S, S \subseteq Int, HasMax(S), NEW n \in Int
  PROVE  HasMax(S \union {n})
<1>1. PICK m \in S : \A k \in S : k <= m
  BY DEF HasMax
<1>2. m \in Int
  BY <1>1
<1>3. CASE n <= m
  <2>1. \A k \in S \union {n} : k <= m
    BY <1>1, <1>3
  <2> QED BY <1>1, <2>1 DEF HasMax
<1>4. CASE m < n
  <2>1. \A k \in S \union {n} : k <= n
    BY <1>1, <1>2, <1>4
  <2> QED BY <2>1 DEF HasMax
<1> QED BY <1>2, <1>3, <1>4

-----------------------------------------------------------------------------
(* The storage meter.  A hold that is over ended no later than lastHold,   *)
(* and a pass that found none active bills from there on at the earliest.  *)

Bill == [kind : {"storage", "egress"}, from : Nat, to : Nat]

MeterPass ==
  [at : {"idle"}] \union [at : {"floor"}, now : Nat]
  \union [at : {"last"}, now : Nat, floor : Nat \union {-1}]
  \union [at : {"bill"}, from : Nat, to : Nat]

MeterTypeOK ==
  /\ hour \in Nat /\ exists \in BOOLEAN /\ onHold \in BOOLEAN
  /\ lastHold \in Nat \union {-1} /\ lastHold <= hour
  /\ bills \in Seq(Bill)
  /\ meter \in MeterPass
  /\ pending \in Nat /\ flushing \in Nat /\ downloads \in Nat
  /\ heldThen \in Seq(BOOLEAN) /\ Len(heldThen) = hour

Free(from, to) == \A t \in Nat : from <= t /\ t < to => ~heldThen[t + 1]

FreeSinceHold == ~onHold => Free(lastHold, hour)

EndsHaveMax == HasMax({0} \union {bills[n].to : n \in DOMAIN bills})

PassIsFree ==
  /\ meter.at \in {"floor", "last"} => meter.now <= hour
  /\ meter.at = "last" => Free(meter.floor, meter.now)
  /\ meter.at = "bill" =>
       /\ meter.to <= hour /\ Free(meter.from, meter.to)
       /\ \A n \in DOMAIN bills : StorageBill(n) => bills[n].to <= meter.from

BillsAreFree ==
  \A n \in DOMAIN bills : StorageBill(n) => bills[n].to <= hour /\ Free(bills[n].from, bills[n].to)

BillsInOrder ==
  \A m, n \in DOMAIN bills : m < n /\ StorageBill(m) /\ StorageBill(n) =>
    bills[m].to <= bills[n].from

MeterInv ==
  MeterTypeOK /\ FreeSinceHold /\ EndsHaveMax /\ PassIsFree /\ BillsAreFree /\ BillsInOrder

LEMMA BillTyped ==
  ASSUME MeterTypeOK, NEW n \in DOMAIN bills
  PROVE  bills[n].from \in Nat /\ bills[n].to \in Nat
<1>1. bills \in Seq(Bill)
  BY DEF MeterTypeOK
<1>2. bills[n] \in Bill
  BY <1>1
<1> QED BY <1>2 DEF Bill

\* LatestEnd is the end of some record, and no record ends later.
LEMMA LatestEndBounds ==
  ASSUME MeterTypeOK, EndsHaveMax
  PROVE  LatestEnd \in Nat /\ \A n \in DOMAIN bills : bills[n].to <= LatestEnd
<1> DEFINE Ends == {0} \union {bills[n].to : n \in DOMAIN bills}
<1>1. Ends \subseteq Nat
  BY BillTyped
<1>2. LatestEnd \in Ends /\ \A k \in Ends : k <= LatestEnd
  BY MaxBounds DEF EndsHaveMax, LatestEnd
<1> QED BY <1>1, <1>2

LEMMA MeterInitially == MeterInit => MeterInv
<1> SUFFICES ASSUME MeterInit PROVE MeterInv
  OBVIOUS
<1>1. MeterTypeOK
  <2>1. meter \in MeterPass
    BY DEF MeterInit, MeterPass, MeterIdle
  <2>2. bills \in Seq(Bill) /\ heldThen \in Seq(BOOLEAN) /\ Len(heldThen) = 0
    BY DEF MeterInit
  <2>3. exists \in BOOLEAN /\ onHold \in BOOLEAN
    BY Zenon DEF MeterInit
  <2>4. /\ hour = 0 /\ lastHold = -1
        /\ pending \in Nat /\ flushing \in Nat /\ downloads \in Nat
    BY DEF MeterInit
  <2> QED BY <2>1, <2>2, <2>3, <2>4 DEF MeterTypeOK
<1>2. EndsHaveMax
  BY DEF MeterInit, EndsHaveMax, HasMax
<1>3. FreeSinceHold /\ PassIsFree /\ BillsAreFree /\ BillsInOrder
  BY DEF MeterInit, FreeSinceHold, Free, PassIsFree, BillsAreFree, BillsInOrder, MeterIdle
<1> QED BY <1>1, <1>2, <1>3 DEF MeterInv

\* The meter's reads change nothing but the pass.
LEMMA MeterReads ==
  ASSUME MeterInv, UNCHANGED bills, OnlyMeter, meter' \in MeterPass, PassIsFree'
  PROVE  MeterInv'
BY DEF MeterInv, OnlyMeter, MeterTypeOK, FreeSinceHold, Free, EndsHaveMax, BillsAreFree,
       BillsInOrder, StorageBill

LEMMA ListBucketsKeeps == ASSUME MeterInv, ListBuckets PROVE MeterInv'
<1>1. meter' \in MeterPass
  BY DEF MeterInv, MeterTypeOK, ListBuckets, MeterPass
<1>2. PassIsFree'
  BY DEF MeterInv, MeterTypeOK, ListBuckets, PassIsFree, OnlyMeter
<1> QED BY <1>1, <1>2, MeterReads DEF ListBuckets

LEMMA ReadFloorKeeps == ASSUME MeterInv, ReadFloor PROVE MeterInv'
<1>1. meter \in [at : {"floor"}, now : Nat]
  BY DEF MeterInv, MeterTypeOK, ReadFloor, MeterPass
<1>2. meter' \in MeterPass
  BY <1>1 DEF MeterInv, MeterTypeOK, ReadFloor, MeterPass, MeterIdle
<1>3. PassIsFree'
  BY <1>1 DEF MeterInv, MeterTypeOK, ReadFloor, PassIsFree, FreeSinceHold, Free, OnlyMeter, MeterIdle
<1> QED BY <1>2, <1>3, MeterReads DEF ReadFloor

LEMMA ReadLastEndKeeps == ASSUME MeterInv, ReadLastEnd PROVE MeterInv'
<1>1. meter \in [at : {"last"}, now : Nat, floor : Nat \union {-1}]
  BY DEF MeterInv, MeterTypeOK, ReadLastEnd, MeterPass
<1>2. LatestEnd \in Nat /\ \A n \in DOMAIN bills : bills[n].to <= LatestEnd
  BY LatestEndBounds DEF MeterInv
<1>3. BillFrom \in Nat /\ LatestEnd <= BillFrom /\ meter.floor <= BillFrom
  BY <1>1, <1>2 DEF BillFrom
<1>4. meter' \in MeterPass
  BY <1>1, <1>3 DEF ReadLastEnd, MeterPass, MeterIdle
<1>5. PassIsFree'
  <2>1. CASE meter.now - BillFrom < 1
    BY <2>1 DEF ReadLastEnd, PassIsFree, MeterIdle
  <2>2. CASE ~ (meter.now - BillFrom < 1)
    <3>1. meter' = [at |-> "bill", from |-> BillFrom, to |-> meter.now]
      BY <2>2 DEF ReadLastEnd
    <3>2. Free(BillFrom, meter.now) /\ meter.now <= hour
      BY <1>1, <1>3 DEF MeterInv, PassIsFree, Free, ReadLastEnd
    <3>3. \A n \in DOMAIN bills : bills[n].to <= BillFrom
      BY <1>2, <1>3, BillTyped DEF MeterInv
    <3> QED BY <3>1, <3>2, <3>3 DEF ReadLastEnd, PassIsFree, Free, OnlyMeter, StorageBill
  <2> QED BY <2>1, <2>2
<1> QED BY <1>4, <1>5, MeterReads DEF ReadLastEnd

\* One more record of any kind keeps the latest end.
LEMMA EndsKeepMax ==
  ASSUME MeterTypeOK, EndsHaveMax, NEW b \in Bill, bills' = Append(bills, b)
  PROVE  /\ EndsHaveMax' /\ bills' \in Seq(Bill)
         /\ Len(bills') = Len(bills) + 1 /\ bills'[Len(bills) + 1] = b
         /\ \A n \in DOMAIN bills : bills'[n] = bills[n]
         /\ DOMAIN bills' = DOMAIN bills \union {Len(bills) + 1}
<1> DEFINE Ends == {0} \union {bills[n].to : n \in DOMAIN bills}
<1>1. bills \in Seq(Bill)
  BY DEF MeterTypeOK
<1>2. /\ bills' \in Seq(Bill)
      /\ Len(bills') = Len(bills) + 1 /\ bills'[Len(bills) + 1] = b
      /\ \A n \in DOMAIN bills : bills'[n] = bills[n]
      /\ DOMAIN bills' = DOMAIN bills \union {Len(bills) + 1}
  BY <1>1
<1>3. {0} \union {bills'[n].to : n \in DOMAIN bills'} = Ends \union {b.to}
  BY <1>2
<1>4. Ends \subseteq Int /\ b.to \in Int
  BY BillTyped DEF Bill
<1>5. HasMax(Ends \union {b.to})
  BY <1>4, MaxOfMore DEF EndsHaveMax
<1> QED BY <1>2, <1>3, <1>5 DEF EndsHaveMax

LEMMA BillStorageKeeps == ASSUME MeterInv, BillStorage PROVE MeterInv'
<1>1. meter \in [at : {"bill"}, from : Nat, to : Nat]
  BY DEF MeterInv, MeterTypeOK, BillStorage, MeterPass
<1>2. meter' \in MeterPass /\ PassIsFree'
  BY DEF BillStorage, MeterPass, MeterIdle, PassIsFree
<1>3. CASE UNCHANGED bills
  BY <1>2, <1>3, MeterReads DEF BillStorage
<1>4. CASE bills' = Append(bills, [kind |-> "storage", from |-> meter.from, to |-> meter.to])
  <2> DEFINE b == [kind |-> "storage", from |-> meter.from, to |-> meter.to]
  <2>1. b \in Bill
    BY <1>1 DEF Bill
  <2>2. /\ EndsHaveMax' /\ bills' \in Seq(Bill)
        /\ Len(bills') = Len(bills) + 1 /\ bills'[Len(bills) + 1] = b
        /\ \A n \in DOMAIN bills : bills'[n] = bills[n]
        /\ DOMAIN bills' = DOMAIN bills \union {Len(bills) + 1}
    BY <1>4, <2>1, EndsKeepMax DEF MeterInv
  <2>3. MeterTypeOK'
    BY <1>2, <2>2 DEF MeterInv, MeterTypeOK, BillStorage, OnlyMeter
  <2>4. FreeSinceHold'
    BY DEF MeterInv, FreeSinceHold, Free, BillStorage, OnlyMeter
  <2>5. BillsAreFree'
    BY <2>2 DEF MeterInv, BillsAreFree, PassIsFree, Free, StorageBill, BillStorage, OnlyMeter
  <2>6. BillsInOrder'
    <3> SUFFICES ASSUME NEW m \in DOMAIN bills', NEW n \in DOMAIN bills',
                        m < n, StorageBill(m)', StorageBill(n)'
                 PROVE  bills'[m].to <= bills'[n].from
      BY DEF BillsInOrder
    <3>1. m \in DOMAIN bills
      BY <2>2 DEF MeterInv, MeterTypeOK
    <3>2. CASE n \in DOMAIN bills
      BY <2>2, <3>1, <3>2 DEF MeterInv, BillsInOrder, StorageBill
    <3>3. CASE n = Len(bills) + 1
      BY <2>2, <3>1, <3>3 DEF MeterInv, PassIsFree, StorageBill, BillStorage
    <3> QED BY <2>2, <3>2, <3>3
  <2> QED BY <1>2, <2>2, <2>3, <2>4, <2>5, <2>6 DEF MeterInv
<1> QED BY <1>3, <1>4 DEF BillStorage

LEMMA FlushEgressKeeps == ASSUME MeterInv, FlushEgress PROVE MeterInv'
<1>1. /\ UNCHANGED <<hour, exists, onHold, lastHold, meter, pending, downloads, heldThen>>
      /\ flushing' = 0 /\ hour \in Nat
  BY DEF FlushEgress, MeterInv, MeterTypeOK
<1>2. CASE UNCHANGED bills
  BY <1>1, <1>2 DEF MeterInv, MeterTypeOK, FreeSinceHold, Free, EndsHaveMax, PassIsFree,
                    BillsAreFree, BillsInOrder, StorageBill
<1>3. CASE bills' = Append(bills, [kind |-> "egress", from |-> hour, to |-> hour])
  <2> DEFINE b == [kind |-> "egress", from |-> hour, to |-> hour]
  <2>1. b \in Bill
    BY <1>1 DEF Bill
  <2>2. /\ EndsHaveMax' /\ bills' \in Seq(Bill)
        /\ Len(bills') = Len(bills) + 1 /\ bills'[Len(bills) + 1] = b
        /\ \A n \in DOMAIN bills : bills'[n] = bills[n]
        /\ DOMAIN bills' = DOMAIN bills \union {Len(bills) + 1}
    BY <1>3, <2>1, EndsKeepMax DEF MeterInv
  <2>3. MeterTypeOK' /\ FreeSinceHold'
    BY <1>1, <2>2 DEF MeterInv, MeterTypeOK, FreeSinceHold, Free
  <2>4. \A n \in DOMAIN bills' : StorageBill(n)' => n \in DOMAIN bills /\ StorageBill(n)
    BY <2>2 DEF StorageBill
  <2>5. PassIsFree' /\ BillsAreFree' /\ BillsInOrder'
    BY <1>1, <2>2, <2>4 DEF MeterInv, PassIsFree, BillsAreFree, BillsInOrder, Free
  <2> QED BY <2>2, <2>3, <2>5 DEF MeterInv
<1> QED BY <1>2, <1>3 DEF FlushEgress

LEMMA PassHourKeeps == ASSUME MeterInv, PassHour PROVE MeterInv'
<1>1. /\ UNCHANGED <<exists, onHold, lastHold, bills, meter, pending, flushing, downloads>>
      /\ hour' = hour + 1 /\ heldThen' = Append(heldThen, onHold)
      /\ hour \in Nat /\ heldThen \in Seq(BOOLEAN) /\ Len(heldThen) = hour /\ onHold \in BOOLEAN
  BY DEF PassHour, MeterInv, MeterTypeOK
<1>2. /\ heldThen' \in Seq(BOOLEAN) /\ Len(heldThen') = hour'
      /\ heldThen'[hour + 1] = onHold
      /\ \A t \in Nat : t < hour => heldThen'[t + 1] = heldThen[t + 1]
  BY <1>1
<1>3. MeterTypeOK'
  BY <1>1, <1>2 DEF MeterInv, MeterTypeOK
<1>4. ASSUME NEW from \in Int, NEW to \in Int, to <= hour, Free(from, to)
      PROVE  Free(from, to)'
  BY <1>1, <1>2, <1>4 DEF Free
<1>5. FreeSinceHold'
  BY <1>1, <1>2 DEF MeterInv, FreeSinceHold, Free
<1>6. PassIsFree'
  <2>1. CASE meter.at = "last"
    <3>1. meter \in [at : {"last"}, now : Nat, floor : Nat \union {-1}]
      BY <2>1 DEF MeterInv, MeterTypeOK, MeterPass
    <3> QED BY <1>1, <1>4, <2>1, <3>1 DEF MeterInv, PassIsFree, StorageBill
  <2>2. CASE meter.at = "bill"
    <3>1. meter \in [at : {"bill"}, from : Nat, to : Nat]
      BY <2>2 DEF MeterInv, MeterTypeOK, MeterPass
    <3> QED BY <1>1, <1>4, <2>2, <3>1 DEF MeterInv, PassIsFree, StorageBill
  <2>3. CASE meter.at = "floor"
    <3>1. meter \in [at : {"floor"}, now : Nat]
      BY <2>3 DEF MeterInv, MeterTypeOK, MeterPass
    <3> QED BY <1>1, <2>3, <3>1 DEF MeterInv, PassIsFree
  <2>4. CASE meter.at = "idle"
    BY <1>1, <2>4 DEF PassIsFree
  <2> QED BY <2>1, <2>2, <2>3, <2>4 DEF MeterInv, MeterTypeOK, MeterPass
<1>7. BillsAreFree'
  <2> SUFFICES ASSUME NEW n \in DOMAIN bills, StorageBill(n)
               PROVE  bills[n].to <= hour' /\ Free(bills[n].from, bills[n].to)'
    BY <1>1 DEF BillsAreFree, StorageBill, Free
  <2>1. bills[n].from \in Nat /\ bills[n].to \in Nat
    BY BillTyped DEF MeterInv
  <2>2. bills[n].to <= hour /\ Free(bills[n].from, bills[n].to)
    BY DEF MeterInv, BillsAreFree
  <2>3. Free(bills[n].from, bills[n].to)'
    BY <1>1, <1>2, <2>1, <2>2 DEF Free
  <2> QED BY <1>1, <2>1, <2>2, <2>3
<1>8. EndsHaveMax' /\ BillsInOrder'
  BY <1>1 DEF MeterInv, EndsHaveMax, BillsInOrder, StorageBill
<1> QED BY <1>3, <1>5, <1>6, <1>7, <1>8 DEF MeterInv

LEMMA MeterStep == MeterInv /\ [MeterNext]_meterVars => MeterInv'
<1> SUFFICES ASSUME MeterInv, [MeterNext]_meterVars PROVE MeterInv'
  OBVIOUS
<1>1. CASE Download \/ SwapBatch \/ BucketDeleted
  <2>1. /\ UNCHANGED <<hour, onHold, lastHold, bills, meter, heldThen>>
        /\ pending' \in Nat /\ flushing' \in Nat /\ downloads' \in Nat
    BY <1>1 DEF Download, SwapBatch, BucketDeleted, MeterInv, MeterTypeOK
  <2>2. exists' \in BOOLEAN
    BY <1>1, Zenon DEF Download, SwapBatch, BucketDeleted, MeterInv, MeterTypeOK
  <2>3. MeterTypeOK'
    BY <2>1, <2>2 DEF MeterInv, MeterTypeOK
  <2> QED BY <2>1, <2>3 DEF MeterInv, FreeSinceHold, Free, EndsHaveMax, PassIsFree,
              BillsAreFree, BillsInOrder, StorageBill
<1>2. CASE HoldsChange
  <2>1. /\ UNCHANGED <<hour, exists, bills, meter, pending, flushing, downloads, heldThen>>
        /\ onHold' = ~onHold /\ lastHold' = IF onHold THEN hour ELSE lastHold
    BY <1>2 DEF HoldsChange
  <2>2. MeterTypeOK' /\ FreeSinceHold'
    BY <2>1 DEF MeterInv, MeterTypeOK, FreeSinceHold, Free
  <2>3. EndsHaveMax' /\ PassIsFree' /\ BillsAreFree' /\ BillsInOrder'
    BY <2>1 DEF MeterInv, EndsHaveMax, PassIsFree, BillsAreFree, BillsInOrder, StorageBill, Free
  <2> QED BY <2>2, <2>3 DEF MeterInv
<1>3. CASE UNCHANGED meterVars
  BY <1>3 DEF meterVars, MeterInv, MeterTypeOK, FreeSinceHold, Free, EndsHaveMax, PassIsFree,
              BillsAreFree, BillsInOrder, StorageBill
<1>4. CASE ListBuckets \/ ReadFloor \/ ReadLastEnd \/ BillStorage
  BY <1>4, ListBucketsKeeps, ReadFloorKeeps, ReadLastEndKeeps, BillStorageKeeps
<1>5. CASE FlushEgress \/ PassHour
  BY <1>5, FlushEgressKeeps, PassHourKeeps
<1> QED BY <1>1, <1>2, <1>3, <1>4, <1>5 DEF MeterNext

\* The meter bills no hour that was on hold, not even after the hold, and no
\* hour twice, whatever records the egress tracker writes for the same bucket
\* in between (meter.go:93-116, store.go:510-524).
THEOREM StorageFairly == MeterSpec => []StorageBilledFairly
<1>1. MeterInv => StorageBilledFairly
  <2> SUFFICES ASSUME MeterInv PROVE StorageBilledFairly
    OBVIOUS
  <2>1. ASSUME NEW n \in DOMAIN bills, StorageBill(n), NEW t \in bills[n].from .. bills[n].to - 1
        PROVE  ~heldThen[t + 1]
    <3>1. bills[n].from \in Nat /\ bills[n].to \in Nat
      BY BillTyped DEF MeterInv
    <3>2. Free(bills[n].from, bills[n].to)
      BY <2>1 DEF MeterInv, BillsAreFree
    <3> QED BY <3>1, <3>2 DEF Free
  <2> QED BY <2>1 DEF StorageBilledFairly, MeterInv, BillsInOrder
<1> QED BY <1>1, MeterInitially, MeterStep, PTL DEF MeterSpec

-----------------------------------------------------------------------------
(* Compute billing.  The row of an instance says since when it has run or  *)
(* been stopped, and the last release of a hold since when none was; a     *)
(* pass reads both within one minute.                                      *)

States == {"pending", "running", "stopped", "terminated", "gone"}
Time   == Nat \union {NoTime}

Row    == [st : States, created : {0}, stopped : Time, resumed : Time, ended : Time]
Usage  == [kind : {"compute", "disk"}, from : Nat, to : Int]
Minute == [st : States, held : BOOLEAN]

Collection ==
  [at : {"idle", "disks", "done"}] \union [at : {"listed"}, end : Time, now : Nat]
  \union [at : {"record", "draw"}, kind : {"compute", "disk"}, from : Nat, to : Int]

BillingTypeOK ==
  /\ minute \in Nat
  /\ inst \in Row /\ inst.stopped <= minute /\ inst.resumed <= minute /\ inst.ended <= minute
  /\ released \in Time /\ released <= minute
  /\ usage \in Seq(Usage)
  /\ pass \in [Collectors -> Collection]
  /\ was \in Seq(Minute) /\ Len(was) = minute

UsageHasMax == HasMax({NoTime} \union {usage[n].to : n \in DOMAIN usage})

\* What the minutes of an interval were.
NeverStopped(from, to) ==
  \A t \in Nat : from <= t /\ t < to => was[t + 1].st # "stopped"
AllStopped(from, to) ==
  \A t \in Nat : from <= t /\ t < to => was[t + 1].st = "stopped"
NeverHeld(from, to) ==
  \A t \in Nat : from <= t /\ t < to => was[t + 1].held = FALSE

\* The instance has come to its end while it was stopped.
EndedStopped == inst.ended # NoTime /\ inst.stopped # NoTime

RowIsTrue ==
  /\ inst.st \in {"pending", "running"} =>
       inst.ended = NoTime /\ inst.stopped = NoTime /\ NeverStopped(inst.resumed, minute)
  /\ inst.st = "stopped" =>
       /\ inst.ended = NoTime /\ inst.stopped # NoTime
       /\ NeverStopped(inst.resumed, inst.stopped) /\ AllStopped(inst.stopped, minute)
  /\ inst.st \in {"terminated", "gone"} =>
       /\ inst.ended # NoTime
       /\ inst.stopped = NoTime => NeverStopped(inst.resumed, minute)

\* A purge ends a hold without a release, but also what was stopped.
ReleaseIsTrue ==
  hold = NoHold /\ inst.st = "stopped" =>
    \A t \in Nat : released <= t /\ inst.stopped <= t /\ t < minute => was[t + 1].held = FALSE

TrueInterval(kind, from, to) ==
  /\ to <= minute
  /\ kind = "disk" => AllStopped(from, to) /\ NeverHeld(from, to)
  /\ kind = "compute" => NeverStopped(from, to) \/ EndedStopped

PassesAreTrue ==
  \A c \in Collectors :
    /\ pass[c].at = "listed" =>
         /\ pass[c].now = minute
         /\ inst.st = "stopped" =>
              inst.stopped = minute \/ (pass[c].end # NoTime /\ pass[c].end <= inst.stopped)
    /\ pass[c].at = "record" => TrueInterval(pass[c].kind, pass[c].from, pass[c].to)

UsageIsTrue ==
  \A n \in DOMAIN usage : TrueInterval(usage[n].kind, usage[n].from, usage[n].to)

BillingInv ==
  BillingTypeOK /\ UsageHasMax /\ RowIsTrue /\ ReleaseIsTrue /\ PassesAreTrue /\ UsageIsTrue

LEMMA UsageTyped ==
  ASSUME BillingTypeOK, NEW n \in DOMAIN usage
  PROVE  /\ usage[n] \in Usage
         /\ usage[n].kind \in {"compute", "disk"} /\ usage[n].from \in Nat /\ usage[n].to \in Int
<1>1. usage \in Seq(Usage)
  BY DEF BillingTypeOK
<1>2. usage[n] \in Usage
  BY <1>1
<1> QED BY <1>2 DEF Usage

\* LastEnd is the end of some record, and no record ends later.
LEMMA LastEndBounds ==
  ASSUME BillingTypeOK, UsageHasMax
  PROVE  LastEnd \in Int /\ \A n \in DOMAIN usage : usage[n].to <= LastEnd
<1> DEFINE Ends == {NoTime} \union {usage[n].to : n \in DOMAIN usage}
<1>1. Ends \subseteq Int
  BY UsageTyped DEF NoTime
<1>2. LastEnd \in Ends /\ \A k \in Ends : k <= LastEnd
  BY MaxBounds DEF UsageHasMax, LastEnd
<1> QED BY <1>1, <1>2

LEMMA BillingInitially == BillingInit => BillingInv
<1> SUFFICES ASSUME BillingInit PROVE BillingInv
  OBVIOUS
<1>1. BillingTypeOK
  <2>1. inst \in Row
    BY DEF BillingInit, Row, States, Time, NoTime
  <2>2. usage \in Seq(Usage) /\ was \in Seq(Minute) /\ Len(was) = 0
    BY DEF BillingInit
  <2>3. pass \in [Collectors -> Collection]
    BY DEF BillingInit, Collection, Resting
  <2> QED BY <2>1, <2>2, <2>3 DEF BillingInit, BillingTypeOK, Time, NoTime
<1>2. UsageHasMax
  BY DEF BillingInit, UsageHasMax, HasMax, NoTime
<1>3. RowIsTrue /\ ReleaseIsTrue /\ PassesAreTrue /\ UsageIsTrue
  BY DEF BillingInit, RowIsTrue, ReleaseIsTrue, PassesAreTrue, UsageIsTrue, NeverStopped,
         Resting, NoTime
<1> QED BY <1>1, <1>2, <1>3 DEF BillingInv

\* Steps of the enforcer and the sweeper that leave the row and the passes
\* alone; a hold that begins or is released is dated.
LEMMA AroundKeeps ==
  ASSUME BillingInv, UNCHANGED <<minute, inst, usage, pass, was>>,
         released' \in Time, released' <= minute,
         (hold' = hold /\ released' = released) \/ hold' # NoHold \/ released' = minute
  PROVE  BillingInv'
<1>1. BillingTypeOK'
  BY DEF BillingInv, BillingTypeOK
<1>2. ReleaseIsTrue'
  BY DEF BillingInv, BillingTypeOK, ReleaseIsTrue
<1>3. UsageHasMax' /\ RowIsTrue' /\ PassesAreTrue' /\ UsageIsTrue'
  BY DEF BillingInv, UsageHasMax, RowIsTrue, PassesAreTrue, UsageIsTrue, TrueInterval,
         NeverStopped, AllStopped, NeverHeld, EndedStopped
<1> QED BY <1>1, <1>2, <1>3 DEF BillingInv

\* A change of the row: its own truth is shown by the caller.  An instance
\* that is stopped now was so before, or has been stopped this minute; what
\* has ended while stopped has ended for good.
LEMMA RowKeeps ==
  ASSUME BillingInv, UNCHANGED <<minute, usage, released, pass, was>>,
         inst' \in Row, inst'.stopped <= minute, inst'.resumed <= minute, inst'.ended <= minute,
         RowIsTrue', EndedStopped => EndedStopped',
         inst'.st = "stopped" => inst'.stopped = minute
  PROVE  BillingInv'
<1>1. BillingTypeOK'
  BY DEF BillingInv, BillingTypeOK
<1>2. ReleaseIsTrue'
  BY DEF BillingInv, BillingTypeOK, ReleaseIsTrue
<1>3. PassesAreTrue' /\ UsageIsTrue'
  BY DEF BillingInv, PassesAreTrue, UsageIsTrue, TrueInterval, NeverStopped, AllStopped, NeverHeld
<1>4. UsageHasMax'
  BY DEF BillingInv, UsageHasMax
<1> QED BY <1>1, <1>2, <1>3, <1>4 DEF BillingInv

LEMMA ObserveKeeps ==
  ASSUME BillingInv, NEW from, NEW to, Observe(from, to),
         \/ from = "pending" /\ to = "running"
         \/ from = "running" /\ to = "terminated"
         \/ from = "stopped" /\ to = "terminated"
         \/ from = "terminated" /\ to = "running" /\ inst.stopped = NoTime
  PROVE  BillingInv'
<1>1. /\ inst \in Row /\ inst.stopped <= minute /\ inst.resumed <= minute /\ inst.ended <= minute
      /\ minute \in Nat
  BY DEF BillingInv, BillingTypeOK
<1>2. /\ inst.st = from /\ inst' = [inst EXCEPT !.st = to, !.ended = IF to = "terminated" THEN minute ELSE NoTime]
      /\ UNCHANGED <<minute, usage, released, pass, was>>
  BY DEF Observe
<1>3. /\ inst' \in Row /\ inst'.st = to /\ inst'.stopped = inst.stopped /\ inst'.resumed = inst.resumed
      /\ inst'.ended = IF to = "terminated" THEN minute ELSE NoTime
  BY <1>1, <1>2 DEF Row, States, Time
<1>4. RowIsTrue'
  BY <1>1, <1>2, <1>3 DEF BillingInv, RowIsTrue, NeverStopped, NoTime
<1>5. EndedStopped => EndedStopped'
  BY <1>1, <1>2, <1>3 DEF BillingInv, RowIsTrue, EndedStopped, NoTime
<1> QED BY <1>1, <1>2, <1>3, <1>4, <1>5, RowKeeps DEF NoTime

LEMMA StartAgainKeeps == ASSUME BillingInv, StartAgain PROVE BillingInv'
<1>1. inst \in Row /\ minute \in Nat /\ inst.st = "stopped"
  BY DEF BillingInv, BillingTypeOK, StartAgain
<1>2. /\ inst' \in Row /\ inst'.st = "pending" /\ inst'.stopped = NoTime /\ inst'.resumed = minute
      /\ inst'.ended = inst.ended
      /\ UNCHANGED <<minute, usage, released, pass, was>>
  BY <1>1 DEF StartAgain, Row, States, Time
<1>3. RowIsTrue' /\ ~EndedStopped /\ inst.ended = NoTime
  BY <1>1, <1>2 DEF BillingInv, RowIsTrue, NeverStopped, EndedStopped
<1> QED BY <1>1, <1>2, <1>3, RowKeeps DEF NoTime

LEMMA HoldInstanceKeeps == ASSUME BillingInv, HoldInstance PROVE BillingInv'
<1>1. inst \in Row /\ minute \in Nat /\ released \in Time /\ released <= minute
  BY DEF BillingInv, BillingTypeOK
<1>2. CASE UNCHANGED inst
  BY <1>1, <1>2, AroundKeeps DEF HoldInstance, OnlyEnforcer
<1>3. CASE /\ inst.st \in {"running", "pending"}
           /\ inst' = [inst EXCEPT !.st = "stopped", !.stopped = minute]
  <2>1. /\ inst' \in Row /\ inst'.st = "stopped" /\ inst'.stopped = minute
        /\ inst'.resumed = inst.resumed /\ inst'.ended = inst.ended
        /\ UNCHANGED <<minute, usage, released, pass, was>>
    BY <1>1, <1>3 DEF HoldInstance, OnlyEnforcer, Row, States, Time
  <2>2. RowIsTrue' /\ ~EndedStopped /\ inst.ended = NoTime
    BY <1>1, <1>3, <2>1 DEF BillingInv, RowIsTrue, NeverStopped, AllStopped, EndedStopped, NoTime
  <2>3. inst.resumed <= minute
    BY DEF BillingInv, BillingTypeOK
  <2> QED BY <1>1, <2>1, <2>2, <2>3, RowKeeps DEF NoTime
<1> QED BY <1>2, <1>3 DEF HoldInstance

LEMMA PurgeHeldKeeps == ASSUME BillingInv, PurgeHeld PROVE BillingInv'
<1>1. inst \in Row /\ minute \in Nat /\ inst.stopped <= minute /\ inst.resumed <= minute
  BY DEF BillingInv, BillingTypeOK
<1>2. CASE inst.st = "stopped"
  <2>1. /\ inst' \in Row /\ inst'.st = "terminated" /\ inst'.stopped = inst.stopped
        /\ inst'.resumed = inst.resumed /\ inst'.ended = minute
        /\ UNCHANGED <<minute, usage, released, pass, was>>
    BY <1>1, <1>2 DEF PurgeHeld, OnlySweeper, Row, States, Time
  <2>2. RowIsTrue' /\ ~EndedStopped
    BY <1>1, <1>2, <2>1 DEF BillingInv, RowIsTrue, NeverStopped, EndedStopped, NoTime
  <2> QED BY <1>1, <2>1, <2>2, RowKeeps
<1>3. CASE inst.st # "stopped"
  <2>1. UNCHANGED <<minute, inst, usage, released, pass, was>>
    BY <1>3 DEF PurgeHeld, OnlySweeper
  <2> QED BY <1>3, <2>1 DEF BillingInv, BillingTypeOK, ReleaseIsTrue, UsageHasMax, RowIsTrue,
       PassesAreTrue, UsageIsTrue, TrueInterval, NeverStopped, AllStopped, NeverHeld, EndedStopped
<1> QED BY <1>2, <1>3

LEMMA ForgetKeeps == ASSUME BillingInv, PurgeFullyBilledTerminated PROVE BillingInv'
<1>1. /\ inst \in Row /\ inst.st = "terminated"
      /\ inst.stopped <= minute /\ inst.resumed <= minute /\ inst.ended <= minute
  BY DEF BillingInv, BillingTypeOK, PurgeFullyBilledTerminated
<1>2. /\ inst' \in Row /\ inst'.st = "gone" /\ inst'.stopped = inst.stopped
      /\ inst'.resumed = inst.resumed /\ inst'.ended = inst.ended
      /\ UNCHANGED <<minute, usage, released, pass, was>>
  BY <1>1 DEF PurgeFullyBilledTerminated, Row, States
<1>3. RowIsTrue' /\ (EndedStopped => EndedStopped')
  BY <1>1, <1>2 DEF BillingInv, RowIsTrue, NeverStopped, EndedStopped
<1> QED BY <1>1, <1>2, <1>3, RowKeeps

\* A step of a collection that writes no record.
LEMMA PassKeeps ==
  ASSUME BillingInv, NEW c \in Collectors, NEW p \in Collection,
         pass' = [pass EXCEPT ![c] = p],
         UNCHANGED <<minute, inst, usage, hold, released, was>>,
         p.at = "listed" =>
           /\ p.now = minute
           /\ inst.st = "stopped" =>
                inst.stopped = minute \/ (p.end # NoTime /\ p.end <= inst.stopped),
         p.at = "record" => TrueInterval(p.kind, p.from, p.to)
  PROVE  BillingInv'
<1>1. pass \in [Collectors -> Collection]
  BY DEF BillingInv, BillingTypeOK
<1>2. pass' \in [Collectors -> Collection] /\ \A d \in Collectors : pass'[d] = IF d = c THEN p ELSE pass[d]
  BY <1>1
<1>3. BillingTypeOK'
  BY <1>2 DEF BillingInv, BillingTypeOK
<1>4. PassesAreTrue'
  BY <1>2 DEF BillingInv, PassesAreTrue, TrueInterval, NeverStopped, AllStopped, NeverHeld, EndedStopped
<1>5. UsageHasMax' /\ RowIsTrue' /\ ReleaseIsTrue' /\ UsageIsTrue'
  BY DEF BillingInv, UsageHasMax, RowIsTrue, ReleaseIsTrue, UsageIsTrue, TrueInterval,
         NeverStopped, AllStopped, NeverHeld, EndedStopped
<1> QED BY <1>3, <1>4, <1>5 DEF BillingInv

LEMMA ListBillableKeeps ==
  ASSUME BillingInv, NEW c \in Collectors, ListBillable(c) PROVE BillingInv'
<1> DEFINE p == pass'[c]
<1>1. inst \in Row /\ minute \in Nat /\ pass \in [Collectors -> Collection]
  BY DEF BillingInv, BillingTypeOK
<1>2. UNCHANGED <<minute, inst, usage, hold, released, was>>
  BY DEF ListBillable, OnlyPass
<1>3. End \in Time /\ (inst.st = "stopped" => End = inst.stopped /\ inst.stopped # NoTime)
  BY <1>1 DEF End, Row, Time, NoTime, BillingInv, RowIsTrue
<1>4. PICK q \in {[at |-> "listed", end |-> End, now |-> minute], [at |-> "disks"]} :
        pass' = [pass EXCEPT ![c] = q]
  BY DEF ListBillable
<1>5. q \in Collection
  BY <1>1, <1>3, <1>4 DEF Collection
<1>6. q.at = "listed" =>
        /\ q.now = minute
        /\ inst.st = "stopped" => q.end # NoTime /\ q.end <= inst.stopped
  BY <1>1, <1>3, <1>4 DEF Row, Time, NoTime
<1>7. q.at # "record"
  BY <1>4
<1> QED BY <1>2, <1>4, <1>5, <1>6, <1>7, PassKeeps

LEMMA ReadLastKeeps ==
  ASSUME BillingInv, NEW c \in Collectors, ReadLast(c) PROVE BillingInv'
<1> DEFINE from == BilledThrough
           to   == IF pass[c].end # NoTime THEN Smaller(pass[c].end, pass[c].now) ELSE pass[c].now
           r    == [at |-> "record", kind |-> "compute", from |-> from, to |-> to]
<1>1. /\ inst \in Row /\ minute \in Nat /\ pass \in [Collectors -> Collection]
      /\ inst.stopped \in Time /\ inst.resumed \in Time /\ inst.st \in States /\ inst.created = 0
  BY DEF BillingInv, BillingTypeOK, Row
<1>2. /\ pass[c].at = "listed" /\ pass[c].now = minute /\ pass[c].end \in Time
      /\ UNCHANGED <<minute, inst, usage, hold, released, was>>
  BY <1>1 DEF ReadLast, OnlyPass, Collection, BillingInv, PassesAreTrue
<1>3. LastEnd \in Int
  BY LastEndBounds DEF BillingInv
<1>4. from \in Nat /\ inst.resumed <= from
  BY <1>1, <1>3 DEF BilledThrough, Larger, Time, NoTime
<1>5. to \in Int /\ to <= minute /\ (pass[c].end # NoTime => to <= pass[c].end)
  BY <1>1, <1>2 DEF Smaller, Time, NoTime
<1>6. CASE to - from < 1
  <2>1. pass' = [pass EXCEPT ![c] = [at |-> "disks"]]
    BY <1>6 DEF ReadLast
  <2>2. [at |-> "disks"] \in Collection
    BY DEF Collection
  <2> QED BY <1>2, <2>1, <2>2, PassKeeps
<1>7. CASE ~ (to - from < 1)
  <2>1. pass' = [pass EXCEPT ![c] = r]
    BY <1>7 DEF ReadLast
  <2>2. r \in Collection
    BY <1>4, <1>5 DEF Collection
  <2>3. NeverStopped(from, to) \/ EndedStopped
    <3>1. CASE inst.st \in {"pending", "running"}
      BY <1>1, <1>4, <1>5, <3>1 DEF BillingInv, RowIsTrue, NeverStopped, Time, NoTime
    <3>2. CASE inst.st = "stopped"
      <4>1. to <= inst.stopped
        BY <1>1, <1>2, <1>5, <3>2 DEF BillingInv, PassesAreTrue, Time, NoTime
      <4>2. NeverStopped(inst.resumed, inst.stopped)
        BY <3>2 DEF BillingInv, RowIsTrue
      <4> QED BY <1>1, <1>4, <1>5, <4>1, <4>2 DEF NeverStopped, Time, NoTime
    <3>3. CASE inst.st \in {"terminated", "gone"}
      BY <1>1, <1>4, <1>5, <3>3 DEF BillingInv, RowIsTrue, NeverStopped, EndedStopped, Time, NoTime
    <3> QED BY <1>1, <3>1, <3>2, <3>3 DEF States
  <2>4. TrueInterval("compute", from, to)
    BY <1>5, <2>3 DEF TrueInterval
  <2> QED BY <1>2, <2>1, <2>2, <2>4, PassKeeps
<1> QED BY <1>6, <1>7

LEMMA ListDisksKeeps ==
  ASSUME BillingInv, NEW c \in Collectors, ListDisks(c) PROVE BillingInv'
<1> DEFINE r == [at |-> "record", kind |-> "disk", from |-> DiskFrom, to |-> minute]
<1>1. /\ inst \in Row /\ minute \in Nat /\ released \in Time
      /\ inst.stopped \in Time /\ inst.created = 0
  BY DEF BillingInv, BillingTypeOK, Row
<1>2. UNCHANGED <<minute, inst, usage, hold, released, was>>
  BY DEF ListDisks, OnlyPass
<1>3. LastEnd \in Int
  BY LastEndBounds DEF BillingInv
<1>4. DiskFrom \in Nat /\ inst.stopped <= DiskFrom /\ released <= DiskFrom
  BY <1>1, <1>3 DEF DiskFrom, Larger, Time, NoTime
<1>5. CASE inst.st = "stopped" /\ hold = NoHold /\ minute - DiskFrom >= 1
  <2>1. pass' = [pass EXCEPT ![c] = r]
    BY <1>5 DEF ListDisks
  <2>2. r \in Collection
    BY <1>1, <1>4 DEF Collection
  <2>3. AllStopped(DiskFrom, minute)
    BY <1>1, <1>4, <1>5 DEF BillingInv, RowIsTrue, AllStopped, Time, NoTime
  <2>4. NeverHeld(DiskFrom, minute)
    BY <1>1, <1>4, <1>5 DEF BillingInv, ReleaseIsTrue, NeverHeld, Time, NoTime
  <2>5. TrueInterval("disk", DiskFrom, minute)
    BY <1>1, <2>3, <2>4 DEF TrueInterval
  <2> QED BY <1>2, <2>1, <2>2, <2>5, PassKeeps
<1>6. CASE ~ (inst.st = "stopped" /\ hold = NoHold /\ minute - DiskFrom >= 1)
  <2>1. pass' = [pass EXCEPT ![c] = [at |-> "done"]]
    BY <1>6 DEF ListDisks
  <2>2. [at |-> "done"] \in Collection
    BY DEF Collection
  <2> QED BY <1>2, <2>1, <2>2, PassKeeps
<1> QED BY <1>5, <1>6

\* One more record keeps the latest end.
LEMMA UsageKeepsMax ==
  ASSUME BillingTypeOK, UsageHasMax, NEW r \in Usage, usage' = Append(usage, r)
  PROVE  /\ UsageHasMax' /\ usage' \in Seq(Usage)
         /\ Len(usage') = Len(usage) + 1 /\ usage'[Len(usage) + 1] = r
         /\ \A n \in DOMAIN usage : usage'[n] = usage[n]
         /\ DOMAIN usage' = DOMAIN usage \union {Len(usage) + 1}
<1> DEFINE Ends == {NoTime} \union {usage[n].to : n \in DOMAIN usage}
<1>1. usage \in Seq(Usage)
  BY DEF BillingTypeOK
<1>2. /\ usage' \in Seq(Usage)
      /\ Len(usage') = Len(usage) + 1 /\ usage'[Len(usage) + 1] = r
      /\ \A n \in DOMAIN usage : usage'[n] = usage[n]
      /\ DOMAIN usage' = DOMAIN usage \union {Len(usage) + 1}
  BY <1>1
<1>3. {NoTime} \union {usage'[n].to : n \in DOMAIN usage'} = Ends \union {r.to}
  BY <1>2
<1>4. Ends \subseteq Int /\ r.to \in Int
  BY UsageTyped DEF Usage, NoTime
<1>5. HasMax(Ends \union {r.to})
  BY <1>4, MaxOfMore DEF UsageHasMax
<1> QED BY <1>2, <1>3, <1>5 DEF UsageHasMax

\* A record is written as the pass has it, which goes on to the credit.
LEMMA RecordUsageKeeps ==
  ASSUME BillingInv, NEW c \in Collectors, RecordUsage(c) PROVE BillingInv'
<1> DEFINE r == [kind |-> pass[c].kind, from |-> pass[c].from, to |-> pass[c].to]
           drawing == [pass[c] EXCEPT !.at = "draw"]
<1>1. /\ pass \in [Collectors -> Collection] /\ pass[c].at = "record"
      /\ UNCHANGED <<minute, inst, hold, released, was>>
  BY DEF BillingInv, BillingTypeOK, RecordUsage
<1>2. pass[c] \in [at : {"record", "draw"}, kind : {"compute", "disk"}, from : Nat, to : Int]
  BY <1>1 DEF Collection
<1>3. CASE UNCHANGED usage /\ pass' = [pass EXCEPT ![c] = AfterRecord(pass[c])]
  <2>1. AfterRecord(pass[c]) \in Collection /\ AfterRecord(pass[c]).at \in {"disks", "done"}
    BY DEF AfterRecord, Collection
  <2> QED BY <1>1, <1>3, <2>1, PassKeeps
<1>4. CASE usage' = Append(usage, r) /\ pass' = [pass EXCEPT ![c].at = "draw"]
  <2>1. r \in Usage /\ drawing \in Collection /\ drawing.at = "draw"
    BY <1>2 DEF Collection, Usage
  <2>2. /\ UsageHasMax' /\ usage' \in Seq(Usage)
        /\ Len(usage') = Len(usage) + 1 /\ usage'[Len(usage) + 1] = r
        /\ \A n \in DOMAIN usage : usage'[n] = usage[n]
        /\ DOMAIN usage' = DOMAIN usage \union {Len(usage) + 1}
    BY <1>4, <2>1, UsageKeepsMax DEF BillingInv
  <2>3. /\ pass' \in [Collectors -> Collection]
        /\ \A d \in Collectors : pass'[d] = IF d = c THEN drawing ELSE pass[d]
    BY <1>1, <1>4, <2>1
  <2>4. BillingTypeOK'
    BY <1>1, <2>2, <2>3 DEF BillingInv, BillingTypeOK
  <2>5. TrueInterval(r.kind, r.from, r.to)
    BY <1>1 DEF BillingInv, PassesAreTrue
  <2>6. \A n \in DOMAIN usage' : TrueInterval(usage'[n].kind, usage'[n].from, usage'[n].to)
    BY <2>2, <2>5 DEF BillingInv, UsageIsTrue
  <2>7. UsageIsTrue'
    BY <1>1, <2>6 DEF UsageIsTrue, TrueInterval, NeverStopped, AllStopped, NeverHeld, EndedStopped
  <2>8. PassesAreTrue'
    BY <1>1, <2>1, <2>3 DEF BillingInv, PassesAreTrue, TrueInterval, NeverStopped, AllStopped,
           NeverHeld, EndedStopped
  <2>9. RowIsTrue' /\ ReleaseIsTrue'
    BY <1>1 DEF BillingInv, RowIsTrue, ReleaseIsTrue, NeverStopped, AllStopped
  <2> QED BY <2>2, <2>4, <2>7, <2>8, <2>9 DEF BillingInv
<1> QED BY <1>3, <1>4 DEF RecordUsage

LEMMA DrawAndEndKeep ==
  ASSUME BillingInv, NEW c \in Collectors, DrawCredit(c) \/ EndPass(c) PROVE BillingInv'
<1>1. PICK p \in {AfterRecord(pass[c]), Resting} : pass' = [pass EXCEPT ![c] = p]
  BY DEF DrawCredit, EndPass
<1>2. UNCHANGED <<minute, inst, usage, hold, released, was>>
  BY DEF DrawCredit, EndPass
<1>3. p \in Collection /\ p.at \in {"idle", "disks", "done"}
  BY <1>1 DEF AfterRecord, Resting, Collection
<1> QED BY <1>1, <1>2, <1>3, PassKeeps

LEMMA AroundStepsKeep ==
  ASSUME BillingInv,
         TopUp \/ ListRunning \/ Assess \/ ListHolds \/ StartHold \/ ReleaseHold \/ LastLook
  PROVE  BillingInv'
<1>1. minute \in Nat /\ released \in Time /\ released <= minute
  BY DEF BillingInv, BillingTypeOK
<1>2. UNCHANGED <<minute, inst, usage, pass, was>>
  BY DEF TopUp, ListRunning, Assess, OnlyEnforcer, ListHolds, StartHold, ReleaseHold, LastLook,
         OnlySweeper
<1>3. [since |-> minute] # NoHold
  BY <1>1 DEF NoHold, NoTime
<1>4. /\ (hold' = hold /\ released' = released) \/ hold' # NoHold \/ released' = minute
      /\ released' \in {released, minute}
  <2>1. CASE StartHold
    BY <1>3, <2>1 DEF StartHold
  <2>2. CASE ReleaseHold
    BY <2>2 DEF ReleaseHold
  <2>3. CASE TopUp \/ ListRunning \/ Assess \/ ListHolds \/ LastLook
    BY <2>3 DEF TopUp, ListRunning, Assess, OnlyEnforcer, ListHolds, LastLook
  <2> QED BY <2>1, <2>2, <2>3
<1>5. released' \in Time /\ released' <= minute
  BY <1>1, <1>4 DEF Time
<1> QED BY <1>2, <1>4, <1>5, AroundKeeps

\* The minute that passes is what the row and the hold have been all along.
LEMMA PassMinuteKeeps == ASSUME BillingInv, PassMinute PROVE BillingInv'
<1> DEFINE m == [st |-> inst.st, held |-> hold # NoHold]
<1>1. /\ minute \in Nat /\ was \in Seq(Minute) /\ Len(was) = minute /\ inst \in Row
      /\ inst.stopped <= minute /\ inst.resumed <= minute /\ inst.ended <= minute
      /\ released \in Time /\ released <= minute /\ pass \in [Collectors -> Collection]
  BY DEF BillingInv, BillingTypeOK
<1>2. /\ minute' = minute + 1 /\ was' = Append(was, m)
      /\ UNCHANGED <<inst, usage, hold, released, pass>>
      /\ \A c \in Collectors : pass[c].at = "idle"
  BY DEF PassMinute
<1>3. m \in Minute
  <2>1. (hold # NoHold) \in BOOLEAN
    BY Zenon
  <2> QED BY <1>1, <2>1 DEF Minute, Row
<1>4. was' \in Seq(Minute) /\ Len(was') = minute + 1
  BY <1>1, <1>2, <1>3
<1>5. \A t \in Nat : t < minute => was'[t + 1] = was[t + 1]
  BY <1>1, <1>2, <1>3
<1>6. was'[minute + 1] = m
  BY <1>1, <1>2, <1>3
<1>7. BillingTypeOK'
  <2>1. inst.stopped \in Time /\ inst.resumed \in Time /\ inst.ended \in Time
    BY <1>1 DEF Row
  <2>2. inst.stopped <= minute' /\ inst.resumed <= minute' /\ inst.ended <= minute' /\ released <= minute'
    BY <1>1, <1>2, <2>1 DEF Time, NoTime
  <2> QED BY <1>1, <1>2, <1>4, <2>2 DEF BillingInv, BillingTypeOK
<1>8. UsageHasMax' /\ PassesAreTrue'
  BY <1>2 DEF BillingInv, UsageHasMax, PassesAreTrue
<1>9. RowIsTrue'
  <2>1. /\ inst.stopped \in Time /\ inst.resumed \in Time /\ inst.st \in States
        /\ was'[minute + 1].st = inst.st
    BY <1>1, <1>6 DEF Row
  <2>2. \A from \in Time : NeverStopped(from, minute) /\ inst.st # "stopped"
                              => NeverStopped(from, minute)'
    <3> SUFFICES ASSUME NEW from \in Time, NeverStopped(from, minute), inst.st # "stopped",
                        NEW t \in Nat, from <= t, t < minute + 1
                 PROVE  was'[t + 1].st # "stopped"
      BY <1>2 DEF NeverStopped
    <3>1. CASE t = minute
      BY <2>1, <3>1
    <3>2. CASE t < minute
      BY <1>5, <3>2 DEF NeverStopped
    <3> QED BY <1>1, <3>1, <3>2
  <2>3. \A from \in Time : AllStopped(from, minute) /\ inst.st = "stopped"
                              => AllStopped(from, minute)'
    BY <1>1, <1>2, <1>5, <2>1 DEF AllStopped, Time, NoTime
  <2>4. \A from \in Time : NeverStopped(from, inst.stopped) => NeverStopped(from, inst.stopped)'
    BY <1>1, <1>2, <1>5, <2>1 DEF NeverStopped, Time, NoTime
  <2> QED BY <1>2, <2>1, <2>2, <2>3, <2>4 DEF BillingInv, RowIsTrue
<1>10. ReleaseIsTrue'
  <2>1. ASSUME hold = NoHold PROVE was'[minute + 1].held = FALSE
    <3>1. (hold # NoHold) = FALSE
      BY <2>1, Zenon
    <3>2. was'[minute + 1] = [st |-> inst.st, held |-> FALSE]
      BY <1>6, <3>1, Zenon
    <3> QED BY <3>2
  <2> SUFFICES ASSUME hold = NoHold, inst.st = "stopped",
                      NEW t \in Nat, released <= t, inst.stopped <= t, t < minute + 1
               PROVE  was'[t + 1].held = FALSE
    BY <1>2 DEF ReleaseIsTrue
  <2>2. CASE t = minute
    BY <2>1, <2>2
  <2>3. CASE t < minute
    <3>1. was[t + 1].held = FALSE
      BY <2>3 DEF BillingInv, ReleaseIsTrue
    <3>2. was'[t + 1] = was[t + 1]
      BY <1>5, <2>3
    <3> QED BY <3>1, <3>2
  <2>4. t = minute \/ t < minute
    BY <1>1
  <2> QED BY <2>2, <2>3, <2>4
<1>11. UsageIsTrue'
  <2> SUFFICES ASSUME NEW n \in DOMAIN usage
               PROVE  TrueInterval(usage[n].kind, usage[n].from, usage[n].to)'
    BY <1>2 DEF UsageIsTrue, TrueInterval, NeverStopped, AllStopped, NeverHeld, EndedStopped
  <2>1. TrueInterval(usage[n].kind, usage[n].from, usage[n].to) /\ usage[n].to \in Int
    BY UsageTyped DEF BillingInv, UsageIsTrue
  <2> QED BY <1>1, <1>2, <1>5, <2>1 DEF TrueInterval, NeverStopped, AllStopped, NeverHeld,
           EndedStopped
<1> QED BY <1>7, <1>8, <1>9, <1>10, <1>11 DEF BillingInv

LEMMA BillingStep == BillingInv /\ [BillingNext]_billingVars => BillingInv'
<1> SUFFICES ASSUME BillingInv, [BillingNext]_billingVars PROVE BillingInv'
  OBVIOUS
<1>1. CASE PodRuns \/ PodEnds \/ DiskGone \/ PodRevives
  BY <1>1, ObserveKeeps DEF PodRuns, PodEnds, DiskGone, PodRevives
<1>2. CASE StartAgain \/ HoldInstance \/ PurgeHeld \/ PurgeFullyBilledTerminated
  BY <1>2, StartAgainKeeps, HoldInstanceKeeps, PurgeHeldKeeps, ForgetKeeps
<1>3. CASE TopUp \/ ListRunning \/ Assess \/ ListHolds \/ StartHold \/ ReleaseHold \/ LastLook
  BY <1>3, AroundStepsKeep
<1>4. CASE \E c \in Collectors : ListBillable(c) \/ PassStep(c)
  BY <1>4, ListBillableKeeps, ReadLastKeeps, ListDisksKeeps, RecordUsageKeeps, DrawAndEndKeep
     DEF PassStep
<1>5. CASE PassMinute
  BY <1>5, PassMinuteKeeps
<1>6. CASE UNCHANGED billingVars
  BY <1>6 DEF billingVars, BillingInv, BillingTypeOK, ReleaseIsTrue, UsageHasMax, RowIsTrue,
       PassesAreTrue, UsageIsTrue, TrueInterval, NeverStopped, AllStopped, NeverHeld, EndedStopped
<1> QED BY <1>1, <1>2, <1>3, <1>4, <1>5, <1>6 DEF BillingNext

LEMMA BillingHolds == BillingSpec => []BillingInv
<1> QED BY BillingInitially, BillingStep, PTL DEF BillingSpec

\* A disk is billed only for minutes it was stopped and not on hold, and no
\* stopped minute is billed as a running one unless the instance came to its
\* end while it was stopped, however many collections are under way at once
\* (stopped_storage.go:20-31, collector.go:276-278).
THEOREM UsedAsBilled == BillingSpec => []BilledAsUsed
<1>1. BillingInv => BilledAsUsed
  <2> SUFFICES ASSUME BillingInv, NEW n \in DOMAIN usage, NEW t \in Minutes(usage[n]), t < Len(was)
               PROVE  IF usage[n].kind = "disk"
                      THEN was[t + 1] = [st |-> "stopped", held |-> FALSE]
                      ELSE was[t + 1].st # "stopped" \/ (inst.ended # NoTime /\ inst.stopped # NoTime)
    BY DEF BilledAsUsed
  <2>1. /\ usage[n].kind \in {"compute", "disk"} /\ usage[n].from \in Nat /\ usage[n].to \in Int
        /\ TrueInterval(usage[n].kind, usage[n].from, usage[n].to)
    BY UsageTyped DEF BillingInv, UsageIsTrue
  <2>2. t \in Nat /\ usage[n].from <= t /\ t < usage[n].to
    BY <2>1 DEF Minutes
  <2>3. CASE usage[n].kind = "disk"
    <3>1. was[t + 1].st = "stopped" /\ was[t + 1].held = FALSE
      BY <2>1, <2>2, <2>3 DEF TrueInterval, AllStopped, NeverHeld
    <3>2. was \in Seq(Minute) /\ t + 1 \in 1 .. Len(was)
      BY <2>2 DEF BillingInv, BillingTypeOK
    <3>3. was[t + 1] \in Minute
      BY <3>2
    <3> QED BY <2>3, <3>1, <3>3 DEF Minute
  <2>4. CASE usage[n].kind = "compute"
    BY <2>1, <2>2, <2>4 DEF TrueInterval, NeverStopped, EndedStopped
  <2> QED BY <2>1, <2>3, <2>4
<1> QED BY <1>1, BillingHolds, PTL

-----------------------------------------------------------------------------
(* No minute twice.  It rests on there being one collection at a time:     *)
(* what a pass has read as the last end is still the last end when it      *)
(* writes its record.  Two passes that read the same last end would both   *)
(* bill from there.                                                        *)

OneAtATime == \A c, d \in Collectors : c = d

RecordsInOrder ==
  /\ \A m, n \in DOMAIN usage : m < n => usage[m].to <= usage[n].from
  /\ \A c \in Collectors : pass[c].at = "record" =>
       \A n \in DOMAIN usage : usage[n].to <= pass[c].from

\* What is read before a record is written is read after the last one.
LEMMA AppendedAfterLast ==
  ASSUME OneAtATime, BillingInv, RecordsInOrder, NEW c \in Collectors, PassStep(c) \/ ListBillable(c)
  PROVE  RecordsInOrder'
<1>1. /\ \A d \in Collectors : d = c
      /\ pass \in [Collectors -> Collection] /\ pass[c] \in Collection
      /\ inst.created = 0
  BY DEF OneAtATime, BillingInv, BillingTypeOK, Row
<1>2. LastEnd \in Int /\ \A n \in DOMAIN usage : usage[n].to <= LastEnd /\ usage[n].to \in Int
  BY LastEndBounds, UsageTyped DEF BillingInv
<1>3. inst.resumed \in Int /\ inst.stopped \in Int /\ released \in Int
  BY DEF BillingInv, BillingTypeOK, Row, Time, NoTime
<1>4. CASE ListBillable(c) \/ DrawCredit(c) \/ EndPass(c)
  <2>1. usage' = usage /\ pass'[c].at # "record"
    BY <1>1, <1>4 DEF ListBillable, DrawCredit, EndPass, OnlyPass, AfterRecord, Resting
  <2> QED BY <1>1, <2>1 DEF RecordsInOrder
<1>5. CASE ReadLast(c)
  <2>1. usage' = usage
    BY <1>5 DEF ReadLast, OnlyPass
  <2>2. pass'[c].at = "record" => pass'[c].from = BilledThrough
    BY <1>1, <1>5 DEF ReadLast
  <2>3. \A n \in DOMAIN usage : usage[n].to <= BilledThrough
    BY <1>1, <1>2, <1>3 DEF BilledThrough, Larger
  <2> QED BY <1>1, <2>1, <2>2, <2>3 DEF RecordsInOrder
<1>6. CASE ListDisks(c)
  <2>1. usage' = usage
    BY <1>6 DEF ListDisks, OnlyPass
  <2>2. pass'[c].at = "record" => pass'[c].from = DiskFrom
    BY <1>1, <1>6 DEF ListDisks
  <2>3. \A n \in DOMAIN usage : usage[n].to <= DiskFrom
    BY <1>1, <1>2, <1>3 DEF DiskFrom, Larger
  <2> QED BY <1>1, <2>1, <2>2, <2>3 DEF RecordsInOrder
<1>7. CASE RecordUsage(c)
  <2> DEFINE r == [kind |-> pass[c].kind, from |-> pass[c].from, to |-> pass[c].to]
  <2>1. pass[c].at = "record" /\ pass'[c].at # "record"
    <3>1. /\ pass[c].at = "record"
          /\ \/ pass' = [pass EXCEPT ![c].at = "draw"]
             \/ pass' = [pass EXCEPT ![c] = AfterRecord(pass[c])]
      BY <1>7 DEF RecordUsage
    <3>2. /\ pass[c] \in [at : {"record", "draw"}, kind : {"compute", "disk"}, from : Nat, to : Int]
          /\ pass'[c] = [pass[c] EXCEPT !.at = "draw"] \/ pass'[c] = AfterRecord(pass[c])
      BY <1>1, <3>1 DEF Collection
    <3> QED BY <3>1, <3>2 DEF AfterRecord
  <2>2. CASE usage' = usage
    BY <1>1, <2>1, <2>2 DEF RecordsInOrder
  <2>3. CASE usage' = Append(usage, r)
    <3>1. r \in Usage
      BY <1>1, <2>1 DEF Collection, Usage
    <3>2. /\ usage'[Len(usage) + 1] = r
          /\ \A n \in DOMAIN usage : usage'[n] = usage[n]
          /\ DOMAIN usage' = DOMAIN usage \union {Len(usage) + 1}
      BY <2>3, <3>1, UsageKeepsMax DEF BillingInv
    <3>3. DOMAIN usage = 1 .. Len(usage) /\ Len(usage) \in Nat
      BY DEF BillingInv, BillingTypeOK
    <3>4. ASSUME NEW m \in DOMAIN usage', NEW n \in DOMAIN usage', m < n
          PROVE  usage'[m].to <= usage'[n].from
      <4>1. m \in DOMAIN usage /\ usage'[m] = usage[m]
        BY <3>2, <3>3, <3>4
      <4>2. CASE n \in DOMAIN usage
        BY <3>2, <3>4, <4>1, <4>2 DEF RecordsInOrder
      <4>3. CASE n = Len(usage) + 1
        BY <2>1, <3>2, <4>1, <4>3 DEF RecordsInOrder
      <4> QED BY <3>2, <4>2, <4>3
    <3> QED BY <1>1, <2>1, <3>4 DEF RecordsInOrder
  <2> QED BY <1>7, <2>2, <2>3 DEF RecordUsage
<1> QED BY <1>4, <1>5, <1>6, <1>7 DEF PassStep

LEMMA RecordsStep ==
  ASSUME OneAtATime
  PROVE  BillingInv /\ RecordsInOrder /\ [BillingNext]_billingVars => RecordsInOrder'
<1> SUFFICES ASSUME BillingInv, RecordsInOrder, [BillingNext]_billingVars PROVE RecordsInOrder'
  OBVIOUS
<1>1. CASE \E c \in Collectors : ListBillable(c) \/ PassStep(c)
  BY <1>1, AppendedAfterLast
<1>2. CASE UNCHANGED <<usage, pass>>
  BY <1>2 DEF RecordsInOrder
<1>3. CASE PodRuns \/ PodEnds \/ DiskGone \/ PodRevives \/ StartAgain \/ TopUp
           \/ ListRunning \/ Assess \/ HoldInstance
  BY <1>2, <1>3 DEF PodRuns, PodEnds, DiskGone, PodRevives, Observe, StartAgain, TopUp, ListRunning,
     Assess, HoldInstance, OnlyEnforcer
<1>4. CASE ListHolds \/ StartHold \/ ReleaseHold \/ LastLook \/ PurgeHeld
           \/ PurgeFullyBilledTerminated \/ PassMinute
  BY <1>2, <1>4 DEF ListHolds, StartHold, ReleaseHold, LastLook, PurgeHeld, OnlySweeper,
     PurgeFullyBilledTerminated, PassMinute
<1>5. CASE UNCHANGED billingVars
  BY <1>2, <1>5 DEF billingVars
<1> QED BY <1>1, <1>3, <1>4, <1>5 DEF BillingNext

\* While there is one collection at a time no minute of an instance is billed
\* twice, whatever statements fail and whatever the enforcer, the sweeps and
\* the owner do between two statements of the pass (collector.go:142-180).
THEOREM BilledAtMostOnce ==
  ASSUME OneAtATime
  PROVE  BillingSpec => []BilledOnce
<1>1. BillingInit => RecordsInOrder
  BY DEF BillingInit, RecordsInOrder, Resting
<1>2. BillingInv /\ RecordsInOrder => BilledOnce
  <2> SUFFICES ASSUME BillingInv, RecordsInOrder PROVE BilledOnce
    OBVIOUS
  <2>1. ASSUME NEW m \in DOMAIN usage, NEW n \in DOMAIN usage, m < n
        PROVE  Minutes(usage[m]) \cap Minutes(usage[n]) = {}
    <3>1. /\ usage[m].from \in Int /\ usage[m].to \in Int
          /\ usage[n].from \in Int /\ usage[n].to \in Int
      BY UsageTyped DEF BillingInv
    <3>2. usage[m].to <= usage[n].from
      BY <2>1 DEF RecordsInOrder
    <3> QED BY <3>1, <3>2 DEF Minutes
  <2>2. DOMAIN usage = 1 .. Len(usage) /\ Len(usage) \in Nat
    BY DEF BillingInv, BillingTypeOK
  <2>3. ASSUME NEW m \in DOMAIN usage, NEW n \in DOMAIN usage, m # n PROVE m < n \/ n < m
    BY <2>2, <2>3
  <2> QED BY <2>1, <2>3 DEF BilledOnce
<1>3. BillingInv /\ RecordsInOrder /\ [BillingNext]_billingVars => RecordsInOrder'
  BY RecordsStep
<1> QED BY <1>1, <1>2, <1>3, BillingHolds, PTL DEF BillingSpec

-----------------------------------------------------------------------------
(* Nothing is forgotten unbilled.  A minute is owed when the instance ran   *)
(* at its end and at the end of the next; all owed minutes before the time  *)
(* the instance is billed through are in some record.  A stop leaves that   *)
(* time behind by more than a minute only until the enforcer's own          *)
(* collection has ended, and the enforcer's tick ends after it, within the  *)
(* minute; so a start, which bills from then on, skips nothing owed.        *)

Ran(t) == was[t + 1].st = "running"

Owed(t) ==
  \/ t + 1 < minute /\ Ran(t) /\ Ran(t + 1)
  \/ t + 1 = minute /\ Ran(t) /\ inst.st = "running"

Billed(t) == \E n \in DOMAIN usage : t \in Minutes(usage[n])

Covered(u) == \A t \in Nat : t < u /\ Owed(t) => Billed(t)

Settles == enf.at \in {"settle", "settling"}

\* A stop is billed up to its last minute before the clock goes on.
StopIsSettled ==
  inst.st = "stopped" =>
    /\ Settles => inst.stopped = minute
    /\ ~Settles => inst.stopped <= BilledThrough + 1
    /\ enf.at = "idle" => inst.stopped < minute

Writes(p) == p.at = "record" /\ p.kind = "compute"

\* What a collection that began after the stop has seen of it, or done.
Sees(p) ==
  IF p.at = "listed" THEN p.end = inst.stopped
  ELSE IF Writes(p) THEN inst.stopped <= p.to
  ELSE inst.stopped <= BilledThrough + 1

SettlerSees ==
  \A c \in Collectors :
    c = Settler /\ enf.at = "settling" /\ inst.st = "stopped" => Sees(pass[c])

RecordsCovered == \A c \in Collectors : pass[c].at = "record" => Covered(pass[c].from)

StartsAnew == inst.st = "pending" /\ minute > 0 => ~Ran(minute - 1)

GoneIsBilled == inst.st = "gone" => inst.ended <= BilledThrough + 1

NothingSkipped ==
  /\ Covered(BilledThrough)
  /\ StopIsSettled /\ SettlerSees /\ RecordsCovered /\ StartsAnew /\ GoneIsBilled

ForgetInv == faults \in Nat /\ (faults = 0 => NothingSkipped)

\* LastEnd is the latest of the ends, in both states of a step.
LEMMA LastEndIs ==
  ASSUME BillingTypeOK, UsageHasMax
  PROVE  /\ LastEnd \in Int /\ \A n \in DOMAIN usage : usage[n].to <= LastEnd
         /\ LastEnd = NoTime \/ \E n \in DOMAIN usage : LastEnd = usage[n].to
<1> DEFINE Ends == {NoTime} \union {usage[n].to : n \in DOMAIN usage}
<1>1. LastEnd \in Ends
  BY MaxBounds DEF UsageHasMax, LastEnd
<1> QED BY <1>1, LastEndBounds

LEMMA ThroughBounds ==
  ASSUME BillingInv
  PROVE  /\ LastEnd \in Int /\ BilledThrough \in Nat /\ BilledThrough <= minute
         /\ LastEnd <= BilledThrough /\ inst.resumed <= BilledThrough
         /\ \/ BilledThrough = 0 \/ BilledThrough = inst.resumed
            \/ \E n \in DOMAIN usage : BilledThrough = usage[n].to
<1>1. /\ LastEnd \in Int
      /\ LastEnd = NoTime \/ \E n \in DOMAIN usage : LastEnd = usage[n].to
  BY LastEndIs DEF BillingInv
<1>2. \A n \in DOMAIN usage : usage[n].to <= minute
  BY DEF BillingInv, UsageIsTrue, TrueInterval
<1>3. minute \in Nat /\ inst.created = 0 /\ inst.resumed \in Int /\ inst.resumed <= minute
  BY DEF BillingInv, BillingTypeOK, Row, Time, NoTime
<1> QED BY <1>1, <1>2, <1>3 DEF BilledThrough, Larger, NoTime

LEMMA ThroughKept ==
  ASSUME UNCHANGED usage
  PROVE  LastEnd' = LastEnd /\ (UNCHANGED inst => BilledThrough' = BilledThrough)
<1>1. ({NoTime} \union {usage[n].to : n \in DOMAIN usage})' = {NoTime} \union {usage[n].to : n \in DOMAIN usage}
  OBVIOUS
<1>2. LastEnd' = LastEnd
  BY <1>1 DEF LastEnd
<1> QED BY <1>2 DEF BilledThrough

\* After a stop nothing is owed but what was before it.
LEMMA OwedBeforeStop ==
  ASSUME BillingInv, inst.st = "stopped", NEW t \in Nat, Owed(t)
  PROVE  t + 1 < inst.stopped
<1>1. minute \in Nat /\ inst.stopped \in Nat /\ AllStopped(inst.stopped, minute)
  BY DEF BillingInv, BillingTypeOK, RowIsTrue, Row, Time, NoTime
<1>2. t + 1 \in Nat /\ t + 1 < minute /\ was[(t + 1) + 1].st = "running"
  BY DEF Owed, Ran
<1> QED BY <1>1, <1>2 DEF AllStopped

\* A step of a collection that writes nothing and of the enforcer.
LEMMA SkipsNothingKept ==
  ASSUME BillingInv, NothingSkipped, UNCHANGED <<minute, inst, usage, was>>,
         StopIsSettled', SettlerSees',
         \A c \in Collectors : pass'[c].at = "record" =>
           Covered(pass'[c].from) \/ (pass[c].at = "record" /\ pass'[c].from = pass[c].from)
  PROVE  NothingSkipped'
<1>1. BilledThrough' = BilledThrough
  BY ThroughKept
<1>2. \A t \in Nat : (Owed(t)' <=> Owed(t)) /\ (Billed(t)' <=> Billed(t))
  BY DEF Owed, Ran, Billed
<1>3. Covered(BilledThrough)'
  BY <1>1, <1>2 DEF NothingSkipped, Covered
<1>4. RecordsCovered'
  <2> SUFFICES ASSUME NEW c \in Collectors, pass'[c].at = "record"
               PROVE  \A t \in Nat : t < pass'[c].from /\ Owed(t)' => Billed(t)'
    BY DEF RecordsCovered, Covered
  <2>1. Covered(pass'[c].from)
    BY DEF NothingSkipped, RecordsCovered
  <2> QED BY <1>2, <2>1 DEF Covered
<1>5. StartsAnew' /\ GoneIsBilled'
  BY <1>1 DEF NothingSkipped, StartsAnew, GoneIsBilled, Ran
<1> QED BY <1>3, <1>4, <1>5 DEF NothingSkipped

LEMMA CollectionMoves ==
  ASSUME BillingInv, NothingSkipped, UNCHANGED <<minute, inst, usage, was>>,
         NEW c \in Collectors, NEW p, pass' = [pass EXCEPT ![c] = p],
         p.at = "record" => Covered(p.from),
         c = Settler /\ enf'.at = "settling" /\ inst.st = "stopped" => Sees(p),
         \/ enf' = enf
         \/ c = Settler /\ enf.at = "settle" /\ enf'.at = "settling"
         \/ /\ c = Settler /\ enf.at = "settling" /\ enf'.at = "done"
            /\ inst.st = "stopped" => inst.stopped <= BilledThrough + 1
  PROVE  NothingSkipped'
<1>1. BilledThrough' = BilledThrough
  BY ThroughKept
<1>2. \A d \in Collectors : pass'[d] = IF d = c THEN p ELSE pass[d]
  BY DEF BillingInv, BillingTypeOK
<1>3. StopIsSettled'
  BY <1>1 DEF NothingSkipped, StopIsSettled, Settles
<1>4. SettlerSees'
  <2> SUFFICES ASSUME NEW d \in Collectors, d = Settler, enf'.at = "settling", inst.st = "stopped"
               PROVE  Sees(pass'[d])
    BY <1>1 DEF SettlerSees, Sees, Writes
  <2>1. CASE d = c
    BY <1>2, <2>1
  <2>2. CASE d # c
    BY <1>2, <2>2 DEF NothingSkipped, SettlerSees
  <2> QED BY <2>1, <2>2
<1>5. \A d \in Collectors : pass'[d].at = "record" =>
        Covered(pass'[d].from) \/ (pass[d].at = "record" /\ pass'[d].from = pass[d].from)
  BY <1>2
<1> QED BY <1>3, <1>4, <1>5, SkipsNothingKept

LEMMA ListBillableSkipsNothing ==
  ASSUME BillingInv, NothingSkipped, NEW c \in Collectors, ListBillable(c)
  PROVE  NothingSkipped'
<1>1. UNCHANGED <<minute, inst, usage, was>>
  BY DEF ListBillable, OnlyPass
<1>2. inst.st = "stopped" => End = inst.stopped /\ End # NoTime
  BY DEF BillingInv, RowIsTrue, End
<1>3. inst.stopped \in Int /\ BilledThrough \in Int
  BY ThroughBounds DEF BillingInv, BillingTypeOK, Row, Time, NoTime
<1>4. PICK p : /\ pass' = [pass EXCEPT ![c] = p]
               /\ \/ p = [at |-> "listed", end |-> End, now |-> minute]
                  \/ p = [at |-> "disks"] /\ ~(inst.st # "gone" /\ End # NoTime /\ End > BilledThrough + 1)
  BY DEF ListBillable
<1>5. p.at # "record" /\ (inst.st = "stopped" => Sees(p))
  BY <1>2, <1>3, <1>4 DEF Sees, Writes
<1>6. enf' = enf \/ (c = Settler /\ enf.at = "settle" /\ enf'.at = "settling")
  BY DEF ListBillable
<1> QED BY <1>1, <1>4, <1>5, <1>6, CollectionMoves

LEMMA ReadLastSkipsNothing ==
  ASSUME BillingInv, NothingSkipped, NEW c \in Collectors, ReadLast(c)
  PROVE  NothingSkipped'
<1> DEFINE to == IF pass[c].end # NoTime THEN Smaller(pass[c].end, pass[c].now) ELSE pass[c].now
           through == BilledThrough
<1>1. UNCHANGED <<minute, inst, usage, was, enf>> /\ pass[c].at = "listed" /\ pass[c].now = minute
  BY DEF ReadLast, OnlyPass, BillingInv, PassesAreTrue
<1>2. /\ inst.stopped \in Int /\ through \in Int /\ minute \in Int /\ inst.stopped <= minute
      /\ inst.st = "stopped" => inst.stopped # NoTime
  BY ThroughBounds DEF BillingInv, BillingTypeOK, Row, Time, NoTime, RowIsTrue
<1>3. c = Settler /\ enf.at = "settling" /\ inst.st = "stopped" => to = inst.stopped
  BY <1>1, <1>2 DEF NothingSkipped, SettlerSees, Sees, Smaller
<1>4. PICK p : /\ pass' = [pass EXCEPT ![c] = p]
               /\ p = IF to - through < 1 THEN [at |-> "disks"]
                      ELSE [at |-> "record", kind |-> "compute", from |-> through, to |-> to]
  BY DEF ReadLast
<1>5. CASE p = [at |-> "disks"] /\ to - through < 1
  <2>1. p.at # "record" /\ (c = Settler /\ enf'.at = "settling" /\ inst.st = "stopped" => Sees(p))
    BY <1>1, <1>2, <1>3, <1>5 DEF Sees, Writes
  <2> QED BY <1>1, <1>4, <2>1, CollectionMoves
<1>6. CASE p = [at |-> "record", kind |-> "compute", from |-> through, to |-> to]
  <2>1. c = Settler /\ enf'.at = "settling" /\ inst.st = "stopped" => Sees(p)
    BY <1>1, <1>2, <1>3, <1>6 DEF Sees, Writes
  <2>2. Covered(p.from)
    BY <1>6 DEF NothingSkipped
  <2> QED BY <1>1, <1>4, <2>1, <2>2, CollectionMoves
<1> QED BY <1>4, <1>5, <1>6

LEMMA ListDisksSkipsNothing ==
  ASSUME BillingInv, NothingSkipped, NEW c \in Collectors, ListDisks(c)
  PROVE  NothingSkipped'
<1> DEFINE due == inst.st = "stopped" /\ hold = NoHold /\ minute - DiskFrom >= 1
<1>1. UNCHANGED <<minute, inst, usage, was, enf>> /\ pass[c].at = "disks"
  BY DEF ListDisks, OnlyPass
<1>2. PICK p : /\ pass' = [pass EXCEPT ![c] = p]
               /\ p = IF due THEN [at |-> "record", kind |-> "disk", from |-> DiskFrom, to |-> minute]
                      ELSE [at |-> "done"]
  BY DEF ListDisks
<1>3. c = Settler /\ enf'.at = "settling" /\ inst.st = "stopped" => Sees(p)
  BY <1>1, <1>2 DEF NothingSkipped, SettlerSees, Sees, Writes
<1>4. ASSUME due PROVE Covered(DiskFrom)
  <2>1. /\ inst.stopped \in Int /\ minute \in Int /\ released \in Int /\ LastEnd \in Int
        /\ inst.created = 0 /\ BilledThrough \in Int
    BY ThroughBounds DEF BillingInv, BillingTypeOK, Row, Time, NoTime
  <2>2. inst.stopped < minute
    BY <1>4, <2>1 DEF DiskFrom, Larger
  <2>3. inst.stopped <= BilledThrough + 1
    BY <1>4, <2>1, <2>2 DEF NothingSkipped, StopIsSettled
  <2> SUFFICES ASSUME NEW t \in Nat, Owed(t) PROVE Billed(t)
    BY DEF Covered
  <2>4. t < BilledThrough
    BY <1>4, <2>1, <2>3, OwedBeforeStop
  <2> QED BY <2>4 DEF NothingSkipped, Covered
<1>5. p.at = "record" => Covered(p.from)
  BY <1>2, <1>4
<1> QED BY <1>1, <1>2, <1>3, <1>5, CollectionMoves

LEMMA DrawAndEndSkipNothing ==
  ASSUME BillingInv, NothingSkipped, NEW c \in Collectors, DrawCredit(c) \/ EndPass(c)
  PROVE  NothingSkipped'
<1>1. UNCHANGED <<minute, inst, usage, was>> /\ pass[c].at \in {"draw", "done"}
  BY DEF DrawCredit, EndPass
<1>2. PICK p : pass' = [pass EXCEPT ![c] = p] /\ (p = AfterRecord(pass[c]) \/ p = Resting)
  BY DEF DrawCredit, EndPass
<1>3. p.at \in {"disks", "done", "idle"}
  BY <1>2 DEF AfterRecord, Resting
<1>4. c = Settler /\ enf.at = "settling" /\ inst.st = "stopped" => inst.stopped <= BilledThrough + 1
  BY <1>1 DEF NothingSkipped, SettlerSees, Sees, Writes
<1>5. enf' = enf \/ (c = Settler /\ enf.at = "settling" /\ enf'.at = "done")
  BY DEF DrawCredit, EndPass
<1>6. c = Settler /\ enf'.at = "settling" /\ inst.st = "stopped" => Sees(p)
  BY <1>3, <1>4, <1>5 DEF Sees, Writes
<1> QED BY <1>1, <1>2, <1>3, <1>4, <1>5, <1>6, CollectionMoves

\* A record covers what it is of, and starts where all was covered.
LEMMA RecordSkipsNothing ==
  ASSUME BillingInv, NothingSkipped, NEW c \in Collectors, RecordUsage(c),
         faults \in Nat, faults' = faults
  PROVE  NothingSkipped'
<1> DEFINE r == [kind |-> pass[c].kind, from |-> pass[c].from, to |-> pass[c].to]
           drawing == [pass[c] EXCEPT !.at = "draw"]
<1>1. /\ UNCHANGED <<minute, inst, was, enf>> /\ pass[c].at = "record"
      /\ usage' = Append(usage, r) /\ pass' = [pass EXCEPT ![c].at = "draw"]
  BY DEF RecordUsage, Failing
<1>2. pass \in [Collectors -> Collection]
  BY DEF BillingInv, BillingTypeOK
<1>3. pass[c] \in [at : {"record", "draw"}, kind : {"compute", "disk"}, from : Nat, to : Int]
  BY <1>1, <1>2 DEF Collection
<1>4. r \in Usage /\ r.from = pass[c].from /\ r.to = pass[c].to /\ drawing.at = "draw"
  BY <1>3 DEF Usage
<1>5. \A d \in Collectors : pass'[d] = IF d = c THEN drawing ELSE pass[d]
  BY <1>1, <1>2
<1>6. /\ Len(usage) \in Nat /\ DOMAIN usage = 1 .. Len(usage)
      /\ DOMAIN usage' = DOMAIN usage \union {Len(usage) + 1}
      /\ \A n \in DOMAIN usage : usage'[n] = usage[n]
      /\ usage'[Len(usage) + 1] = r
  <2>1. usage \in Seq(Usage)
    BY DEF BillingInv, BillingTypeOK
  <2> QED BY <1>1, <1>4, <2>1, UsageKeepsMax DEF BillingInv
<1>7. /\ \A t \in Nat : Billed(t) => Billed(t)'
      /\ \A t \in Nat : r.from <= t /\ t < r.to => Billed(t)'
  <2>1. ASSUME NEW t \in Nat, Billed(t) PROVE Billed(t)'
    <3>1. PICK n \in DOMAIN usage : t \in usage[n].from .. (usage[n].to - 1)
      BY <2>1 DEF Billed, Minutes
    <3> QED BY <1>6, <3>1 DEF Billed, Minutes
  <2>2. ASSUME NEW t \in Nat, r.from <= t, t < r.to PROVE Billed(t)'
    <3>1. t \in r.from .. (r.to - 1)
      BY <1>3, <1>4, <2>2
    <3> QED BY <1>6, <3>1 DEF Billed, Minutes
  <2> QED BY <2>1, <2>2
<1>8. \A t \in Nat : Owed(t)' <=> Owed(t)
  BY <1>1 DEF Owed, Ran
<1>9. /\ BilledThrough \in Int /\ BilledThrough' \in Int /\ BilledThrough <= BilledThrough'
      /\ r.to <= BilledThrough' /\ r.to \in Int
      /\ BilledThrough' = BilledThrough \/ BilledThrough' = r.to
  <2> DEFINE Ends == {NoTime} \union {usage'[n].to : n \in DOMAIN usage'}
  <2>1. /\ BilledThrough \in Nat /\ LastEnd \in Int /\ LastEnd <= BilledThrough
        /\ \A n \in DOMAIN usage : usage[n].to <= LastEnd
        /\ LastEnd = NoTime \/ \E n \in DOMAIN usage : LastEnd = usage[n].to
    BY ThroughBounds, LastEndIs DEF BillingInv
  <2>2. LastEnd' \in Ends /\ \A k \in Ends : k <= LastEnd'
    <3>1. LastEnd' = Max(Ends)
      BY DEF LastEnd
    <3>2. HasMax(Ends)
      BY <1>1, <1>4, UsageKeepsMax DEF BillingInv, UsageHasMax
    <3> QED BY <3>1, <3>2, MaxBounds
  <2>3. r.to \in Int /\ \A n \in DOMAIN usage : usage[n].to \in Int
    BY <1>3, <1>4, UsageTyped DEF BillingInv
  <2>4. /\ LastEnd' \in Int
        /\ \A n \in DOMAIN usage' : usage'[n].to <= LastEnd'
        /\ LastEnd' = NoTime \/ \E n \in DOMAIN usage' : LastEnd' = usage'[n].to
    BY <1>6, <2>2, <2>3 DEF NoTime
  <2>5. r.to <= LastEnd' /\ (LastEnd' = NoTime \/ LastEnd' = r.to \/ LastEnd' <= LastEnd)
    <3>1. r.to <= LastEnd'
      BY <1>6, <2>4
    <3>2. ASSUME NEW n \in DOMAIN usage', LastEnd' = usage'[n].to
          PROVE  LastEnd' = r.to \/ LastEnd' <= LastEnd
      BY <1>6, <2>1, <3>2
    <3> QED BY <2>4, <3>1, <3>2
  <2>6. LastEnd <= LastEnd' /\ LastEnd' \in Int
    BY <1>6, <2>1, <2>2, <2>3, <2>4 DEF NoTime
  <2>7. inst.resumed \in Int /\ inst.created = 0 /\ inst' = inst /\ r.to \in Int
    BY <1>1, <1>3, <1>4 DEF BillingInv, BillingTypeOK, Row, Time, NoTime
  <2> QED BY <2>1, <2>5, <2>6, <2>7 DEF BilledThrough, Larger, NoTime
<1>10. Covered(BilledThrough)'
  <2> SUFFICES ASSUME NEW t \in Nat, t < BilledThrough', Owed(t) PROVE Billed(t)'
    BY <1>8 DEF Covered
  <2>1. CASE t < BilledThrough
    BY <1>7, <2>1 DEF NothingSkipped, Covered
  <2>2. CASE t < r.to /\ t < r.from
    BY <1>1, <1>4, <1>7, <2>2 DEF NothingSkipped, RecordsCovered, Covered
  <2>3. CASE t < r.to /\ r.from <= t
    BY <1>7, <2>3
  <2> QED BY <1>3, <1>4, <1>9, <2>1, <2>2, <2>3
<1>11. inst.stopped \in Int /\ inst.ended \in Int
  BY DEF BillingInv, BillingTypeOK, Row, Time, NoTime
<1>12. StopIsSettled' /\ GoneIsBilled'
  BY <1>1, <1>9, <1>11 DEF NothingSkipped, StopIsSettled, Settles, GoneIsBilled
<1>13. SettlerSees'
  <2> SUFFICES ASSUME NEW d \in Collectors, d = Settler, enf.at = "settling", inst.st = "stopped"
               PROVE  Sees(pass[d])'
    BY <1>1 DEF SettlerSees
  <2>1. Sees(pass[d])
    BY DEF NothingSkipped, SettlerSees
  <2>2. CASE d = c
    <3>1. inst.stopped <= BilledThrough' + 1
      BY <1>1, <1>3, <1>4, <1>9, <1>11, <2>1, <2>2 DEF Sees, Writes
    <3> QED BY <1>1, <1>4, <1>5, <2>2, <3>1 DEF Sees, Writes
  <2>3. CASE d # c
    BY <1>1, <1>5, <1>9, <1>11, <2>1, <2>3 DEF Sees, Writes
  <2> QED BY <2>2, <2>3
<1>14. RecordsCovered'
  <2> SUFFICES ASSUME NEW d \in Collectors, pass'[d].at = "record"
               PROVE  \A t \in Nat : t < pass'[d].from /\ Owed(t)' => Billed(t)'
    BY DEF RecordsCovered, Covered
  <2>1. pass'[d] = pass[d]
    BY <1>4, <1>5
  <2>2. Covered(pass[d].from)
    BY <2>1 DEF NothingSkipped, RecordsCovered
  <2> QED BY <1>7, <1>8, <2>1, <2>2 DEF Covered
<1>15. StartsAnew'
  BY <1>1 DEF NothingSkipped, StartsAnew, Ran
<1> QED BY <1>10, <1>12, <1>13, <1>14, <1>15 DEF NothingSkipped

\* Steps that change the row: nothing more becomes owed, and a stop is the
\* enforcer's, which settles it.
LEMMA RowSkipsNothing ==
  ASSUME BillingInv, NothingSkipped, UNCHANGED <<minute, usage, was, pass>>,
         inst'.st = "running" => inst.st = "pending",
         inst'.st = "stopped" => enf'.at = "settle" /\ inst'.stopped = minute,
         inst'.st = "pending" /\ minute > 0 => ~Ran(minute - 1),
         Covered(BilledThrough'),
         inst'.st = "gone" => inst'.ended <= BilledThrough' + 1
  PROVE  NothingSkipped'
<1>1. minute \in Nat
  BY DEF BillingInv, BillingTypeOK
<1>2. ASSUME NEW t \in Nat PROVE (Owed(t)' => Owed(t)) /\ (Billed(t)' <=> Billed(t))
  <2>1. Billed(t)' <=> Billed(t)
    BY DEF Billed
  <2>2. CASE t + 1 = minute
    <3>1. t = minute - 1 /\ minute > 0
      BY <1>1, <2>2
    <3>2. inst.st = "pending" => ~Ran(t)
      BY <3>1 DEF NothingSkipped, StartsAnew
    <3> QED BY <1>1, <2>1, <2>2, <3>2 DEF Owed, Ran
  <2>3. CASE t + 1 # minute
    BY <2>1, <2>3 DEF Owed, Ran
  <2> QED BY <2>2, <2>3
<1>3. Covered(BilledThrough)'
  BY <1>2 DEF Covered
<1>4. RecordsCovered'
  BY <1>2 DEF NothingSkipped, RecordsCovered, Covered
<1>5. StopIsSettled' /\ SettlerSees'
  BY DEF StopIsSettled, Settles, SettlerSees
<1>6. StartsAnew' /\ GoneIsBilled'
  BY DEF StartsAnew, GoneIsBilled, Ran
<1> QED BY <1>3, <1>4, <1>5, <1>6 DEF NothingSkipped

LEMMA RowStepsSkipNothing ==
  ASSUME BillingInv, NothingSkipped, faults \in Nat, faults' = faults,
         PodRuns \/ PodEnds \/ DiskGone \/ PodRevives \/ StartAgain
           \/ HoldInstance \/ PurgeHeld \/ PurgeFullyBilledTerminated
  PROVE  NothingSkipped'
<1>1. /\ inst \in Row /\ minute \in Nat /\ LastEnd \in Int /\ BilledThrough \in Nat
      /\ BilledThrough <= minute /\ LastEnd <= BilledThrough
      /\ inst.stopped \in Int /\ inst.resumed \in Int /\ inst.ended \in Int /\ inst.created = 0
  BY ThroughBounds DEF BillingInv, BillingTypeOK, Row, Time, NoTime
<1>2. Covered(BilledThrough)
  BY DEF NothingSkipped
<1>3. UNCHANGED usage => LastEnd' = LastEnd
  BY ThroughKept
<1>4. CASE PodRuns \/ PodEnds \/ DiskGone
  <2>1. /\ UNCHANGED <<minute, usage, was, pass>> /\ inst'.created = inst.created
        /\ inst'.resumed = inst.resumed /\ inst'.st \in {"running", "terminated"}
        /\ inst'.st = "running" => inst.st = "pending"
    BY <1>1, <1>4 DEF PodRuns, PodEnds, DiskGone, Observe, Row
  <2>2. BilledThrough' = BilledThrough
    BY <1>3, <2>1 DEF BilledThrough
  <2>3. Covered(BilledThrough')
    BY <1>2, <2>2
  <2> QED BY <2>1, <2>3, RowSkipsNothing
<1>5. CASE PodRevives
  BY <1>5 DEF PodRevives
<1>6. CASE StartAgain
  <2>1. /\ UNCHANGED <<minute, usage, was, pass>> /\ inst'.created = inst.created
        /\ inst'.resumed = minute /\ inst'.st = "pending"
        /\ inst.st = "stopped" /\ enf.at = "idle"
    BY <1>1, <1>6 DEF StartAgain, Row
  <2>2. inst.stopped < minute /\ inst.stopped <= BilledThrough + 1
    BY <2>1 DEF NothingSkipped, StopIsSettled, Settles
  <2>3. AllStopped(inst.stopped, minute) /\ inst.stopped # NoTime
    BY <2>1 DEF BillingInv, RowIsTrue
  <2>4. was[(minute - 1) + 1].st = "stopped"
    <3>1. minute - 1 \in Nat /\ inst.stopped <= minute - 1 /\ minute - 1 < minute
      BY <1>1, <2>2, <2>3 DEF Row, Time, NoTime
    <3> QED BY <2>3, <3>1 DEF AllStopped
  <2>5. Covered(BilledThrough')
    <3> SUFFICES ASSUME NEW t \in Nat, Owed(t) PROVE Billed(t)
      BY DEF Covered
    <3>1. t < BilledThrough
      BY <1>1, <2>1, <2>2, OwedBeforeStop
    <3> QED BY <1>2, <3>1 DEF Covered
  <2>6. ~Ran(minute - 1)
    BY <2>4 DEF Ran
  <2> QED BY <2>1, <2>5, <2>6, RowSkipsNothing
<1>7. CASE \/ HoldInstance /\ inst.st \notin {"running", "pending"}
           \/ PurgeHeld /\ inst.st # "stopped"
  <2>1. /\ UNCHANGED <<minute, inst, usage, was, pass>>
        /\ enf' = enf \/ (enf.at = "hold" /\ enf'.at = "done")
    BY <1>7 DEF HoldInstance, PurgeHeld, OnlyEnforcer, OnlySweeper
  <2>2. BilledThrough' = BilledThrough
    BY <2>1, ThroughKept
  <2>3. StopIsSettled' /\ SettlerSees'
    BY <2>1, <2>2 DEF NothingSkipped, StopIsSettled, Settles, SettlerSees, Sees, Writes
  <2> QED BY <2>1, <2>3, SkipsNothingKept
<1>8. CASE HoldInstance /\ inst.st \in {"running", "pending"}
  <2>1. /\ UNCHANGED <<minute, usage, was, pass>> /\ inst'.created = inst.created
        /\ inst'.resumed = inst.resumed /\ inst'.st = "stopped" /\ inst'.stopped = minute
        /\ enf'.at = "settle"
    <3>1. PICK row : row = [inst EXCEPT !.st = "stopped", !.stopped = minute]
      OBVIOUS
    <3>2. /\ row.created = inst.created /\ row.resumed = inst.resumed
          /\ row.st = "stopped" /\ row.stopped = minute
      BY <1>1, <3>1 DEF Row
    <3>3. inst' = row /\ enf' = [at |-> "settle"]
      BY <1>8, <3>1 DEF HoldInstance
    <3> QED BY <1>8, <3>2, <3>3 DEF HoldInstance, OnlyEnforcer
  <2>2. BilledThrough' = BilledThrough
    BY <1>3, <2>1 DEF BilledThrough
  <2>3. Covered(BilledThrough')
    BY <1>2, <2>2
  <2> QED BY <2>1, <2>3, RowSkipsNothing
<1>9. CASE PurgeHeld /\ inst.st = "stopped"
  <2>1. /\ UNCHANGED <<minute, usage, was, pass>> /\ inst'.created = inst.created
        /\ inst'.resumed = inst.resumed /\ inst'.st = "terminated"
    BY <1>1, <1>9 DEF PurgeHeld, OnlySweeper, Row
  <2>2. BilledThrough' = BilledThrough
    BY <1>3, <2>1 DEF BilledThrough
  <2>3. Covered(BilledThrough')
    BY <1>2, <2>2
  <2> QED BY <2>1, <2>3, RowSkipsNothing
<1>10. CASE PurgeFullyBilledTerminated
  <2>1. /\ UNCHANGED <<minute, usage, was, pass>> /\ inst'.created = inst.created
        /\ inst'.resumed = inst.resumed /\ inst'.st = "gone" /\ inst'.ended = inst.ended
        /\ inst.ended <= Larger(LastEnd, inst.created) + 1
    BY <1>1, <1>10 DEF PurgeFullyBilledTerminated, FullyBilled, Row
  <2>2. BilledThrough' = BilledThrough
    BY <1>3, <2>1 DEF BilledThrough
  <2>3. Covered(BilledThrough') /\ inst'.ended <= BilledThrough' + 1
    BY <1>1, <1>2, <2>1, <2>2 DEF Larger
  <2> QED BY <2>1, <2>3, RowSkipsNothing
<1> QED BY <1>4, <1>5, <1>6, <1>7, <1>8, <1>9, <1>10

LEMMA ClockSkipsNothing ==
  ASSUME BillingInv, NothingSkipped, PassMinute
  PROVE  NothingSkipped'
<1> DEFINE now == [st |-> inst.st, held |-> hold # NoHold]
<1>1. /\ UNCHANGED <<inst, usage, pass>> /\ minute' = minute + 1 /\ was' = Append(was, now)
      /\ enf.at = "done" /\ enf'.at = "idle" /\ \A c \in Collectors : pass[c].at = "idle"
  BY DEF PassMinute, Resting
<1>2. /\ minute \in Nat /\ was \in Seq(Minute) /\ Len(was) = minute
      /\ BilledThrough \in Nat /\ BilledThrough <= minute /\ inst.stopped \in Int
      /\ inst.stopped <= minute
  BY ThroughBounds DEF BillingInv, BillingTypeOK, Row, Time, NoTime
<1>3. BilledThrough' = BilledThrough
  BY <1>1, ThroughKept
<1>4. /\ \A t \in Nat : t < minute => was'[t + 1] = was[t + 1]
      /\ was'[minute + 1].st = inst.st
  BY <1>1, <1>2
<1>5. Covered(BilledThrough)'
  <2> SUFFICES ASSUME NEW t \in Nat, t < BilledThrough, Owed(t)' PROVE Billed(t)'
    BY <1>3 DEF Covered
  <2>1. t < minute /\ (Ran(t)' <=> Ran(t))
    BY <1>2, <1>4 DEF Ran
  <2>2. Owed(t)
    <3>1. t + 1 < minute + 1 /\ Ran(t)' /\ Ran(t + 1)'
      BY <1>1, <1>2, <2>1 DEF Owed
    <3>2. CASE t + 1 < minute
      <4>1. Ran(t + 1)' <=> Ran(t + 1)
        BY <1>2, <1>4, <3>2 DEF Ran
      <4> QED BY <2>1, <3>1, <3>2, <4>1 DEF Owed
    <3>3. CASE t + 1 = minute
      <4>1. inst.st = "running"
        BY <1>4, <3>1, <3>3 DEF Ran
      <4> QED BY <2>1, <3>1, <3>3, <4>1 DEF Owed
    <3> QED BY <1>2, <3>1, <3>2, <3>3
  <2>3. Billed(t)
    BY <2>2 DEF NothingSkipped, Covered
  <2> QED BY <1>1, <2>3 DEF Billed
<1>6. StopIsSettled' /\ SettlerSees' /\ RecordsCovered'
  BY <1>1, <1>2, <1>3 DEF NothingSkipped, StopIsSettled, Settles, SettlerSees, RecordsCovered
<1>7. StartsAnew'
  <2>1. was'[(minute' - 1) + 1].st = inst.st
    BY <1>1, <1>2, <1>4
  <2> QED BY <1>1, <2>1 DEF StartsAnew, Ran
<1>8. GoneIsBilled'
  BY <1>1, <1>3 DEF NothingSkipped, GoneIsBilled
<1> QED BY <1>5, <1>6, <1>7, <1>8 DEF NothingSkipped

LEMMA AroundSkipsNothing ==
  ASSUME BillingInv, NothingSkipped,
         TopUp \/ ListRunning \/ Assess \/ ListHolds \/ StartHold \/ ReleaseHold \/ LastLook
           \/ UNCHANGED billingVars
  PROVE  NothingSkipped'
<1>1. UNCHANGED <<minute, inst, usage, was, pass>>
  BY DEF TopUp, ListRunning, Assess, OnlyEnforcer, ListHolds, StartHold, ReleaseHold, LastLook,
     OnlySweeper, billingVars
<1>2. \/ enf' = enf
      \/ enf.at \in {"idle", "listed"} /\ enf'.at \in {"listed", "hold", "done"}
  BY DEF TopUp, ListRunning, Assess, ListHolds, StartHold, ReleaseHold, LastLook,
     OnlySweeper, billingVars
<1>3. BilledThrough' = BilledThrough
  BY <1>1, ThroughKept
<1>4. StopIsSettled' /\ SettlerSees'
  BY <1>1, <1>2, <1>3 DEF NothingSkipped, StopIsSettled, Settles, SettlerSees, Sees, Writes
<1> QED BY <1>1, <1>4, SkipsNothingKept

\* Only a fault changes the count of faults.
LEMMA FaultsGrow ==
  ASSUME faults \in Nat, [BillingNext]_billingVars
  PROVE  faults' = faults \/ faults' = faults + 1
BY DEF BillingNext, PodRuns, PodEnds, DiskGone, PodRevives, StartAgain, TopUp, ListBillable,
   PassStep, ReadLast, ListDisks, RecordUsage, DrawCredit, EndPass, Fine, Failing,
   ListRunning, Assess, HoldInstance, ListHolds, StartHold, ReleaseHold, LastLook, PurgeHeld,
   OnlySweeper, PurgeFullyBilledTerminated, PassMinute, billingVars

LEMMA ForgetStep == BillingInv /\ ForgetInv /\ [BillingNext]_billingVars => ForgetInv'
<1> SUFFICES ASSUME BillingInv, ForgetInv, [BillingNext]_billingVars PROVE ForgetInv'
  OBVIOUS
<1>1. faults \in Nat /\ (faults' = faults \/ faults' = faults + 1)
  BY FaultsGrow DEF ForgetInv
<1>2. ASSUME faults' = 0 PROVE NothingSkipped'
  <2>1. faults = 0 /\ faults' = faults /\ NothingSkipped
    BY <1>1, <1>2 DEF ForgetInv
  <2>3. ASSUME NEW c \in Collectors, ListBillable(c) \/ PassStep(c) PROVE NothingSkipped'
    BY <1>1, <2>1, <2>3, ListBillableSkipsNothing, ReadLastSkipsNothing,
       ListDisksSkipsNothing, RecordSkipsNothing, DrawAndEndSkipNothing DEF PassStep
  <2>4. CASE PodRuns \/ PodEnds \/ DiskGone \/ PodRevives \/ StartAgain
           \/ HoldInstance \/ PurgeHeld \/ PurgeFullyBilledTerminated
    BY <1>1, <2>1, <2>4, RowStepsSkipNothing
  <2>5. CASE TopUp \/ ListRunning \/ Assess \/ ListHolds \/ StartHold \/ ReleaseHold \/ LastLook
           \/ UNCHANGED billingVars
    BY <2>1, <2>5, AroundSkipsNothing
  <2>6. CASE PassMinute
    BY <2>1, <2>6, ClockSkipsNothing
  <2> QED BY <2>3, <2>4, <2>5, <2>6 DEF BillingNext
<1> QED BY <1>1, <1>2 DEF ForgetInv

\* Unless a statement failed or a pod was lost for a while, a row is only
\* forgotten when every minute the instance ran is billed, but for the last
\* one before each stop, whatever the enforcer, the sweeps and the owner do and
\* however many collections are under way (store.go PurgeFullyBilledTerminated,
\* collector.go:164-167).
THEOREM NothingForgottenUnbilled == BillingSpec => []ForgottenIsBilled
<1>1. BillingInit => ForgetInv
  <2> SUFFICES ASSUME BillingInit PROVE NothingSkipped /\ faults = 0
    BY DEF ForgetInv
  <2>1. BilledThrough \in Nat /\ BilledThrough <= 0
    BY BillingInitially, ThroughBounds DEF BillingInit
  <2> QED BY <2>1 DEF BillingInit, NothingSkipped, Covered, StopIsSettled, SettlerSees,
           RecordsCovered, StartsAnew, GoneIsBilled, Resting
<1>2. BillingInv /\ ForgetInv => ForgottenIsBilled
  <2> SUFFICES ASSUME BillingInv, ForgetInv, inst.st = "gone", faults = 0,
                      NEW t \in 0 .. inst.ended - 2,
                      was[t + 1].st = "running", was[t + 2].st = "running"
               PROVE  Billed(t)
    BY DEF ForgottenIsBilled, Billed
  <2>1. /\ minute \in Nat /\ inst.ended \in Int /\ inst.ended <= minute /\ BilledThrough \in Nat
        /\ Covered(BilledThrough) /\ inst.ended <= BilledThrough + 1
    BY ThroughBounds DEF BillingInv, BillingTypeOK, Row, Time, NoTime, ForgetInv, NothingSkipped,
       GoneIsBilled
  <2>2. t \in Nat /\ t + 1 < minute /\ t < BilledThrough /\ (t + 1) + 1 = t + 2
    BY <2>1
  <2>3. Owed(t)
    BY <2>2 DEF Owed, Ran
  <2> QED BY <2>1, <2>2, <2>3 DEF Covered
<1> QED BY <1>1, <1>2, BillingHolds, ForgetStep, PTL DEF BillingSpec

-----------------------------------------------------------------------------
(* The catalog of an object store.  A put whose row was once live is past    *)
(* its commit and never commits again, so the bytes a clean-up takes are     *)
(* of a row that is dead for good; and one transaction at a time holds a row *)
(* it ends, so no row leaves the counters twice.                             *)

ReqRow ==
  [at : {"new", "asked", "acquire", "look", "find", "drop", "page", "write", "read", "clean",
         "blocked", "commit", "named", "ended"},
   home : Buckets \cup {0}, bucket : Buckets \cup {0}, key : Nat,
   row : StoreRequests \cup {NoRow}, slot : BOOLEAN]

ObjectRow == [live : BOOLEAN, bucket : Buckets \cup {0}, key : Nat]

\* What the catalog offers in a bucket.
LiveIn(b) == {o \in StoreRequests : object[o].live /\ object[o].bucket = b}

StorageTypeOK ==
  /\ count \in [Buckets -> Int]
  /\ bytes \in [Buckets -> Int]
  /\ object \in [StoreRequests -> ObjectRow]
  /\ req \in [StoreRequests -> ReqRow]
  /\ \A b \in Buckets : IsFiniteSet(LiveIn(b))

\* A put that is past its commit, or gave up.
PastCommit(o) == OpOf[o] = "put" /\ req[o].at \in {"clean", "ended"}

\* About to take the bytes of a row.
Cleans(r) == req[r].at = "clean" \/ (req[r].at = "acquire" /\ OpOf[r] \notin {"put", "get"})

\* What a request relies on.
Relies(r) ==
  /\ req[r].at = "asked" => OpOf[r] # "create"
  /\ req[r].at = "look" => OpOf[r] = "get"
  /\ req[r].at \in {"page", "named"} => OpOf[r] = "purge"
  /\ req[r].at \notin {"new", "asked", "ended"} => req[r].bucket \in Buckets
  /\ OpOf[r] = "put" /\ req[r].at \in {"find", "blocked", "commit"} => r \in blobs
  /\ req[r].at \in {"blocked", "commit"} /\ req[r].row # NoRow =>
       PastCommit(req[r].row) /\ object[req[r].row].bucket = req[r].bucket
  /\ req[r].at = "commit" /\ req[r].row # NoRow => object[req[r].row].live
  /\ req[r].at = "commit" /\ OpOf[r] # "put" => req[r].row # NoRow
  /\ req[r].at = "blocked" => req[r].row # NoRow
  /\ Cleans(r) /\ req[r].row # NoRow => PastCommit(req[r].row) /\ ~object[req[r].row].live
  /\ object[r].live => PastCommit(r)

\* No step takes bytes but those of a row that is dead for good.
BytesKept ==
  \A o \in StoreRequests : o \in blobs /\ o \notin blobs' => PastCommit(o) /\ ~object[o].live

LockedOnce ==
  \A r, q \in StoreRequests :
    /\ req[r].at = "commit" /\ req[q].at = "commit"
    /\ req[r].row = req[q].row /\ req[r].row # NoRow
    => r = q

Counted ==
  \A b \in Buckets : count[b] = Cardinality(LiveIn(b)) /\ bytes[b] = SetSum(Size, LiveIn(b))

CatalogInv ==
  /\ StorageTypeOK
  /\ \A r \in StoreRequests : Relies(r)
  /\ LockedOnce
  /\ Counted
  /\ LiveObjectHasBytes

\* A request that goes on and leaves the catalog as it is must only rely on
\* what holds.
LEMMA RequestGoesOn ==
  ASSUME CatalogInv, UNCHANGED <<count, bytes, object>>, BytesKept,
         NEW r \in StoreRequests, NEW row \in ReqRow, req' = [req EXCEPT ![r] = row],
         Relies(r)', PastCommit(r) => row.at \in {"clean", "ended"},
         row.at = "commit" /\ row.row # NoRow =>
           \A q \in StoreRequests \ {r} : req[q].at = "commit" => req[q].row # row.row
  PROVE  CatalogInv'
<1>1. /\ req' \in [StoreRequests -> ReqRow]
      /\ \A q \in StoreRequests : req'[q] = IF q = r THEN row ELSE req[q]
  BY DEF CatalogInv, StorageTypeOK
<1>2. StorageTypeOK'
  BY <1>1 DEF CatalogInv, StorageTypeOK, LiveIn
<1>3. \A o \in StoreRequests : PastCommit(o) => PastCommit(o)'
  BY <1>1 DEF PastCommit
<1>4. ASSUME NEW q \in StoreRequests PROVE Relies(q)'
  <2>1. CASE q = r
    BY <2>1
  <2>2. CASE q # r
    <3>1. req'[q] = req[q] /\ Relies(q) /\ req[q].row \in StoreRequests \cup {NoRow}
      BY <1>1, <2>2 DEF CatalogInv, StorageTypeOK, ReqRow
    <3>2. Cleans(q)' <=> Cleans(q)
      BY <3>1 DEF Cleans
    <3> QED BY <1>3, <3>1, <3>2 DEF Relies, BytesKept, PastCommit
  <2> QED BY <2>1, <2>2
<1>5. LockedOnce'
  BY <1>1 DEF CatalogInv, LockedOnce
<1>6. Counted' /\ LiveObjectHasBytes'
  <2>1. \A b \in Buckets : LiveIn(b)' = LiveIn(b)
    BY DEF LiveIn
  <2> QED BY <2>1 DEF CatalogInv, Counted, LiveObjectHasBytes, BytesKept
<1> QED BY <1>2, <1>4, <1>5, <1>6 DEF CatalogInv

\* Ending a request needs nothing.
LEMMA RequestEnds ==
  ASSUME CatalogInv, UNCHANGED <<count, bytes, object>>, BytesKept,
         NEW r \in StoreRequests, Finishes(r)
  PROVE  CatalogInv'
<1>1. PICK row : row = [NewReq EXCEPT !.at = "ended"]
  OBVIOUS
<1>2. row \in ReqRow /\ row.at = "ended"
  BY <1>1 DEF NewReq, ReqRow
<1>3. req' = [req EXCEPT ![r] = row]
  BY <1>1 DEF Finishes
<1>4. req'[r] = row
  BY <1>3 DEF CatalogInv, StorageTypeOK
<1>5. object[r].live => OpOf[r] = "put"
  BY DEF CatalogInv, Relies, PastCommit
<1>6. Relies(r)'
  BY <1>2, <1>4, <1>5 DEF Relies, Cleans, PastCommit
<1> QED BY <1>2, <1>3, <1>6, RequestGoesOn

\* A purge that is done with an object turns to the next.
LEMMA NextPage ==
  ASSUME CatalogInv, UNCHANGED <<count, bytes, object>>, BytesKept,
         NEW r \in StoreRequests, OpOf[r] = "purge", req[r].bucket \in Buckets,
         req' = [req EXCEPT ![r].at = "page", ![r].row = NoRow, ![r].slot = FALSE]
  PROVE  CatalogInv'
<1>1. req \in [StoreRequests -> ReqRow] /\ req[r] \in ReqRow /\ Relies(r)
  BY DEF CatalogInv, StorageTypeOK
<1>2. PICK row : row = [req[r] EXCEPT !.at = "page", !.row = NoRow, !.slot = FALSE]
  OBVIOUS
<1>3. row \in ReqRow /\ row.at = "page" /\ row.bucket = req[r].bucket
  BY <1>1, <1>2 DEF ReqRow
<1>4. req' = [req EXCEPT ![r] = row] /\ req'[r] = row
  BY <1>1, <1>2
<1>5. ~PastCommit(r) /\ ~object[r].live
  BY <1>1 DEF Relies, PastCommit
<1>6. Relies(r)'
  BY <1>3, <1>4, <1>5 DEF Relies, Cleans
<1> QED BY <1>3, <1>4, <1>5, <1>6, RequestGoesOn

\* A row that is live, or was, stays past its commit.
LEMMA LiveIsPast ==
  ASSUME CatalogInv, NEW b, NEW k, NEW o \in LiveRows(b, k)
  PROVE  o \in StoreRequests /\ object[o].live /\ object[o].bucket = b /\ PastCommit(o)
BY DEF LiveRows, CatalogInv, Relies

\* The statement has found the row it changes, or none.
LEMMA FoundKeeps ==
  ASSUME CatalogInv, NEW r \in StoreRequests, NEW rows, Found(r, rows),
         req[r].at \in {"find", "blocked"},
         \A o \in rows : /\ o \in StoreRequests /\ object[o].live
                         /\ object[o].bucket = req[r].bucket /\ PastCommit(o),
         UNCHANGED <<count, bytes, object>>, BytesKept
  PROVE  CatalogInv'
<1>1. req \in [StoreRequests -> ReqRow] /\ req[r] \in ReqRow /\ Relies(r)
  BY DEF CatalogInv, StorageTypeOK
<1>2. CASE rows = {} /\ OpOf[r] # "put"
  <2>1. AfterDelete(r)
    BY <1>2 DEF Found
  <2>2. CASE OpOf[r] # "purge"
    BY <2>1, <2>2, RequestEnds DEF AfterDelete
  <2>3. CASE OpOf[r] = "purge"
    BY <1>1, <2>1, <2>3, NextPage DEF AfterDelete, Relies
  <2> QED BY <2>2, <2>3
<1>3. CASE rows = {} /\ OpOf[r] = "put"
  <2>1. PICK row : row = [req[r] EXCEPT !.at = "commit", !.row = NoRow]
    OBVIOUS
  <2>2. row \in ReqRow /\ row.at = "commit" /\ row.row = NoRow /\ row.bucket = req[r].bucket
    BY <1>1, <2>1 DEF ReqRow
  <2>3. req' = [req EXCEPT ![r] = row]
    BY <1>1, <1>3, <2>1 DEF Found
  <2>4. req'[r] = row
    BY <1>1, <2>3
  <2>5. ~PastCommit(r) /\ ~object[r].live /\ r \in blobs'
    BY <1>1, <1>3 DEF Relies, PastCommit, BytesKept
  <2>6. Relies(r)'
    BY <1>1, <1>3, <2>2, <2>4, <2>5 DEF Relies, Cleans
  <2> QED BY <2>2, <2>3, <2>5, <2>6, RequestGoesOn
<1>4. CASE rows # {}
  <2>1. PICK o \in rows :
          req' = [req EXCEPT ![r].at = IF o \in Locked THEN "blocked" ELSE "commit", ![r].row = o]
    BY <1>4 DEF Found
  <2>2. o \in StoreRequests /\ o # NoRow
    BY StorageAssumption DEF NoRow
  <2>3. PICK at \in {"blocked", "commit"} : at = IF o \in Locked THEN "blocked" ELSE "commit"
    OBVIOUS
  <2>4. PICK row : row = [req[r] EXCEPT !.at = at, !.row = o]
    OBVIOUS
  <2>5. row \in ReqRow /\ row.at = at /\ row.row = o /\ row.bucket = req[r].bucket
    BY <1>1, <2>2, <2>4 DEF ReqRow
  <2>6. req' = [req EXCEPT ![r] = row]
    BY <1>1, <2>1, <2>3, <2>4
  <2>7. \A q \in StoreRequests : req'[q] = IF q = r THEN row ELSE req[q]
    BY <1>1, <2>6
  <2>8. ~PastCommit(r) /\ ~object[r].live /\ (OpOf[r] = "put" => r \in blobs')
    BY <1>1 DEF Relies, PastCommit, BytesKept
  <2>9. PastCommit(o)' /\ object'[o].bucket = row.bucket /\ object'[o].live
    BY <2>2, <2>5, <2>7, <2>8 DEF PastCommit
  <2>10. Relies(r)'
    BY <1>1, <2>2, <2>3, <2>5, <2>7, <2>8, <2>9 DEF Relies, Cleans
  <2>11. at = "commit" => \A q \in StoreRequests : req[q].at = "commit" => req[q].row # o
    BY <2>2, <2>3 DEF Locked, ReqIs
  <2> QED BY <2>5, <2>6, <2>8, <2>10, <2>11, RequestGoesOn
<1> QED BY <1>2, <1>3, <1>4

\* A request that is not past its commit goes to a step that relies on little.
LEMMA PlainMove ==
  ASSUME CatalogInv, UNCHANGED <<count, bytes, object>>, BytesKept,
         NEW r \in StoreRequests, NEW row \in ReqRow, req' = [req EXCEPT ![r] = row],
         ~PastCommit(r),
         row.at \in {"asked", "acquire", "look", "find", "drop", "page", "write", "read", "named"},
         row.at = "asked" => OpOf[r] # "create",
         row.at # "asked" => row.bucket \in Buckets,
         row.at = "look" => OpOf[r] = "get",
         row.at \in {"page", "named"} => OpOf[r] = "purge",
         row.at = "find" /\ OpOf[r] = "put" => r \in blobs',
         row.at = "acquire" => OpOf[r] \in {"put", "get"}
  PROVE  CatalogInv'
<1>1. req'[r] = row
  BY DEF CatalogInv, StorageTypeOK
<1>2. ~object[r].live
  BY DEF CatalogInv, Relies
<1>3. Relies(r)'
  BY <1>1, <1>2 DEF Relies, Cleans
<1> QED BY <1>3, RequestGoesOn

LEMMA ArriveKeeps ==
  ASSUME CatalogInv, NEW r \in StoreRequests, NEW k \in Keys, Arrive(r, k)
  PROVE  CatalogInv'
<1>1. req \in [StoreRequests -> ReqRow] /\ req[r] \in ReqRow /\ req[r].at = "new"
  BY DEF CatalogInv, StorageTypeOK, Arrive, ReqIs
<1>2. PICK key \in Nat : key = IF OpOf[r] = "purge" THEN 0 ELSE k
  BY StorageAssumption
<1>3. PICK row : row = [req[r] EXCEPT !.at = "asked", !.key = key]
  OBVIOUS
<1>4. row \in ReqRow /\ row.at = "asked"
  BY <1>1, <1>3 DEF ReqRow
<1>5. req' = [req EXCEPT ![r] = row] /\ UNCHANGED <<count, bytes, object>> /\ BytesKept
  BY <1>1, <1>2, <1>3 DEF Arrive, CatalogUnchanged, BytesKept
<1>6. OpOf[r] # "create" /\ ~PastCommit(r)
  BY <1>1 DEF Arrive, PastCommit
<1> QED BY <1>4, <1>5, <1>6, PlainMove

LEMMA ResolveKeeps ==
  ASSUME CatalogInv, NEW r \in StoreRequests, Resolve(r) PROVE CatalogInv'
<1>1. /\ req \in [StoreRequests -> ReqRow] /\ req[r] \in ReqRow /\ req[r].at = "asked"
      /\ Relies(r) /\ UNCHANGED <<count, bytes, object>> /\ BytesKept
  BY DEF CatalogInv, StorageTypeOK, Resolve, ReqIs, CatalogUnchanged, BytesKept
<1>2. CASE LiveBuckets = {}
  BY <1>1, <1>2, RequestEnds DEF Resolve
<1>3. CASE LiveBuckets # {}
  <2>1. PICK b \in LiveBuckets :
          req' = [req EXCEPT ![r].at = FirstStep[OpOf[r]], ![r].bucket = b, ![r].home = b]
    BY <1>3 DEF Resolve
  <2>2. b \in Buckets
    BY DEF LiveBuckets
  <2>3. OpOf[r] \in {"put", "get", "delete", "drop", "purge"}
    BY <1>1, StorageAssumption DEF Relies
  <2>4. /\ OpOf[r] = "put" => FirstStep[OpOf[r]] = "acquire"
        /\ OpOf[r] = "get" => FirstStep[OpOf[r]] = "look"
        /\ OpOf[r] = "delete" => FirstStep[OpOf[r]] = "find"
        /\ OpOf[r] = "drop" => FirstStep[OpOf[r]] = "drop"
        /\ OpOf[r] = "purge" => FirstStep[OpOf[r]] = "page"
    BY <2>3 DEF FirstStep
  <2>5. PICK at : at = FirstStep[OpOf[r]]
    OBVIOUS
  <2>6. /\ at \in {"acquire", "look", "find", "drop", "page"}
        /\ at = "acquire" => OpOf[r] = "put"
        /\ at = "find" => OpOf[r] = "delete"
        /\ at = "look" => OpOf[r] = "get"
        /\ at = "page" => OpOf[r] = "purge"
    BY <2>3, <2>4, <2>5
  <2>7. PICK row : row = [req[r] EXCEPT !.at = at, !.bucket = b, !.home = b]
    OBVIOUS
  <2>8. row \in ReqRow /\ row.at = at /\ row.bucket = b
    BY <1>1, <2>2, <2>6, <2>7 DEF ReqRow
  <2>9. req' = [req EXCEPT ![r] = row]
    BY <1>1, <2>1, <2>5, <2>7
  <2>10. ~PastCommit(r)
    BY <1>1 DEF PastCommit
  <2> QED BY <1>1, <2>2, <2>6, <2>8, <2>9, <2>10, PlainMove
<1> QED BY <1>2, <1>3

LEMMA AcquireKeeps ==
  ASSUME CatalogInv, NEW r \in StoreRequests, Acquire(r) PROVE CatalogInv'
<1>1. /\ req \in [StoreRequests -> ReqRow] /\ req[r] \in ReqRow /\ req[r].at = "acquire"
      /\ Relies(r) /\ UNCHANGED <<count, bytes, object>> /\ BytesKept
  BY DEF CatalogInv, StorageTypeOK, Acquire, ReqIs, CatalogUnchanged, BytesKept
<1>2. PICK at : at = CASE OpOf[r] = "put" -> "write" [] OpOf[r] = "get" -> "read"
                       [] OTHER -> "clean"
  OBVIOUS
<1>3. /\ at \in {"write", "read", "clean"}
      /\ at = "clean" <=> OpOf[r] \notin {"put", "get"}
  BY <1>2
<1>4. PICK row : row = [req[r] EXCEPT !.slot = TRUE, !.at = at]
  OBVIOUS
<1>5. /\ row \in ReqRow /\ row.at = at
      /\ row.bucket = req[r].bucket /\ row.row = req[r].row
  BY <1>1, <1>3, <1>4 DEF ReqRow
<1>6. req' = [req EXCEPT ![r] = row]
  BY <1>1, <1>2, <1>4 DEF Acquire
<1>7. ~PastCommit(r) /\ ~object[r].live /\ req[r].bucket \in Buckets
  BY <1>1 DEF PastCommit, Relies
<1>8. CASE at # "clean"
  BY <1>1, <1>3, <1>5, <1>6, <1>7, <1>8, PlainMove
<1>9. CASE at = "clean"
  <2>1. \A q \in StoreRequests : req'[q] = IF q = r THEN row ELSE req[q]
    BY <1>1, <1>6
  <2>2. req[r].row # NoRow => PastCommit(req[r].row) /\ ~object[req[r].row].live
    BY <1>1, <1>3, <1>9 DEF Relies, Cleans
  <2>3. req[r].row \in StoreRequests \cup {NoRow}
    BY <1>1 DEF ReqRow
  <2>4. ASSUME NEW o \in StoreRequests, o = req[r].row PROVE PastCommit(o)'
    <3>1. PastCommit(o) /\ o # r
      BY <1>7, <2>2, <2>4, StorageAssumption DEF NoRow
    <3> QED BY <2>1, <3>1 DEF PastCommit
  <2>5. Relies(r)'
    BY <1>1, <1>5, <1>7, <1>9, <2>1, <2>2, <2>3, <2>4 DEF Relies, Cleans
  <2> QED BY <1>1, <1>5, <1>6, <1>7, <1>9, <2>5, RequestGoesOn
<1> QED BY <1>8, <1>9

LEMMA LookUpKeeps ==
  ASSUME CatalogInv, NEW r \in StoreRequests, LookUp(r) PROVE CatalogInv'
<1>1. /\ req \in [StoreRequests -> ReqRow] /\ req[r] \in ReqRow /\ req[r].at = "look"
      /\ Relies(r) /\ UNCHANGED <<count, bytes, object>> /\ BytesKept
  BY DEF CatalogInv, StorageTypeOK, LookUp, ReqIs, CatalogUnchanged, BytesKept
<1>2. CASE LiveRows(req[r].bucket, req[r].key) = {}
  BY <1>1, <1>2, RequestEnds DEF LookUp
<1>3. CASE LiveRows(req[r].bucket, req[r].key) # {}
  <2>1. PICK o \in LiveRows(req[r].bucket, req[r].key) :
          req' = [req EXCEPT ![r].at = "acquire", ![r].row = o]
    BY <1>3 DEF LookUp
  <2>2. o \in StoreRequests
    BY DEF LiveRows
  <2>3. PICK row : row = [req[r] EXCEPT !.at = "acquire", !.row = o]
    OBVIOUS
  <2>4. row \in ReqRow /\ row.at = "acquire" /\ row.bucket = req[r].bucket
    BY <1>1, <2>2, <2>3 DEF ReqRow
  <2>5. req' = [req EXCEPT ![r] = row]
    BY <1>1, <2>1, <2>3
  <2>6. ~PastCommit(r) /\ req[r].bucket \in Buckets /\ OpOf[r] = "get"
    BY <1>1 DEF PastCommit, Relies
  <2> QED BY <1>1, <2>4, <2>5, <2>6, PlainMove
<1> QED BY <1>2, <1>3

LEMMA PageKeeps ==
  ASSUME CatalogInv, NEW r \in StoreRequests, Page(r) PROVE CatalogInv'
<1>1. /\ req \in [StoreRequests -> ReqRow] /\ req[r] \in ReqRow /\ req[r].at = "page"
      /\ Relies(r) /\ UNCHANGED <<count, bytes, object>> /\ BytesKept
      /\ object \in [StoreRequests -> ObjectRow]
  BY DEF CatalogInv, StorageTypeOK, Page, ReqIs, CatalogUnchanged, BytesKept
<1>2. PICK keys : keys = {object[o].key : o \in {x \in StoreRequests :
         object[x].live /\ object[x].bucket = req[r].home /\ object[x].key > req[r].key}}
  OBVIOUS
<1>3. keys \in SUBSET Nat
  BY <1>1, <1>2 DEF ObjectRow
<1>4. ~PastCommit(r) /\ req[r].bucket \in Buckets /\ OpOf[r] = "purge"
  BY <1>1 DEF PastCommit, Relies
<1>5. CASE keys = {}
  <2>1. PICK row : row = [req[r] EXCEPT !.at = "drop"]
    OBVIOUS
  <2>2. row \in ReqRow /\ row.at = "drop" /\ row.bucket = req[r].bucket
    BY <1>1, <2>1 DEF ReqRow
  <2>3. req' = [req EXCEPT ![r] = row]
    BY <1>1, <1>2, <1>5, <2>1 DEF Page, Goes
  <2> QED BY <1>1, <1>4, <2>2, <2>3, PlainMove
<1>6. CASE keys # {}
  <2>1. PICK k \in Nat : k = Min(keys)
    BY <1>3, <1>6, LeastIn
  <2>2. PICK row : row = [req[r] EXCEPT !.at = "named", !.key = k]
    OBVIOUS
  <2>3. row \in ReqRow /\ row.at = "named" /\ row.bucket = req[r].bucket
    BY <1>1, <2>2 DEF ReqRow
  <2>4. req' = [req EXCEPT ![r] = row]
    BY <1>1, <1>2, <1>6, <2>1, <2>2 DEF Page
  <2> QED BY <1>1, <1>4, <2>3, <2>4, PlainMove
<1> QED BY <1>5, <1>6

LEMMA ResolveAgainKeeps ==
  ASSUME CatalogInv, NEW r \in StoreRequests, ResolveAgain(r) PROVE CatalogInv'
<1>1. /\ req \in [StoreRequests -> ReqRow] /\ req[r] \in ReqRow /\ req[r].at = "named"
      /\ Relies(r) /\ UNCHANGED <<count, bytes, object>> /\ BytesKept
  BY DEF CatalogInv, StorageTypeOK, ResolveAgain, ReqIs, CatalogUnchanged, BytesKept
<1>2. CASE LiveBuckets = {}
  BY <1>1, <1>2, RequestEnds DEF ResolveAgain
<1>3. CASE LiveBuckets # {}
  <2>1. PICK b \in LiveBuckets : req' = [req EXCEPT ![r].at = "find", ![r].bucket = b]
    BY <1>3 DEF ResolveAgain
  <2>2. b \in Buckets
    BY DEF LiveBuckets
  <2>3. PICK row : row = [req[r] EXCEPT !.at = "find", !.bucket = b]
    OBVIOUS
  <2>4. row \in ReqRow /\ row.at = "find" /\ row.bucket = b
    BY <1>1, <2>2, <2>3 DEF ReqRow
  <2>5. req' = [req EXCEPT ![r] = row]
    BY <1>1, <2>1, <2>3
  <2>6. ~PastCommit(r) /\ OpOf[r] = "purge"
    BY <1>1 DEF PastCommit, Relies
  <2> QED BY <1>1, <2>2, <2>4, <2>5, <2>6, PlainMove
<1> QED BY <1>2, <1>3

LEMMA SelectKeeps ==
  ASSUME CatalogInv, NEW r \in StoreRequests, SelectForUpdate(r) PROVE CatalogInv'
<1>1. /\ req[r].at = "find" /\ Found(r, LiveRows(req[r].bucket, req[r].key))
      /\ UNCHANGED <<count, bytes, object>> /\ BytesKept
  BY DEF SelectForUpdate, ReqIs, CatalogUnchanged, BytesKept
<1>2. \A o \in LiveRows(req[r].bucket, req[r].key) :
        o \in StoreRequests /\ object[o].live /\ object[o].bucket = req[r].bucket /\ PastCommit(o)
  BY LiveIsPast
<1> QED BY <1>1, <1>2, FoundKeeps

LEMMA UnblockedKeeps ==
  ASSUME CatalogInv, NEW r \in StoreRequests, Unblocked(r) PROVE CatalogInv'
<1>1. PICK rows : rows = {o \in {req[r].row} : object[o].live}
  OBVIOUS
<1>2. /\ req[r].at = "blocked" /\ Found(r, rows)
      /\ UNCHANGED <<count, bytes, object>> /\ BytesKept
  BY <1>1 DEF Unblocked, ReqIs, CatalogUnchanged, BytesKept
<1>3. Relies(r) /\ req[r] \in ReqRow
  BY DEF CatalogInv, StorageTypeOK
<1>4. \A o \in rows :
        o \in StoreRequests /\ object[o].live /\ object[o].bucket = req[r].bucket /\ PastCommit(o)
  BY <1>1, <1>2, <1>3 DEF Relies, ReqRow
<1> QED BY <1>2, <1>4, FoundKeeps

LEMMA WriteKeeps ==
  ASSUME CatalogInv, NEW r \in StoreRequests, WriteBlob(r) PROVE CatalogInv'
<1>1. /\ req \in [StoreRequests -> ReqRow] /\ req[r] \in ReqRow /\ req[r].at = "write"
      /\ Relies(r) /\ UNCHANGED <<count, bytes, object>> /\ BytesKept
  BY DEF CatalogInv, StorageTypeOK, WriteBlob, ReqIs, CatalogUnchanged, BytesKept
<1>2. CASE Finishes(r)
  BY <1>1, <1>2, RequestEnds
<1>3. CASE blobs' = blobs \cup {r} /\ Goes(r, "find")
  <2>1. PICK row : row = [req[r] EXCEPT !.at = "find"]
    OBVIOUS
  <2>2. row \in ReqRow /\ row.at = "find" /\ row.bucket = req[r].bucket
    BY <1>1, <2>1 DEF ReqRow
  <2>3. req' = [req EXCEPT ![r] = row]
    BY <1>1, <1>3, <2>1 DEF Goes
  <2>4. ~PastCommit(r) /\ req[r].bucket \in Buckets /\ r \in blobs'
    BY <1>1, <1>3 DEF PastCommit, Relies
  <2> QED BY <1>1, <2>2, <2>3, <2>4, PlainMove
<1> QED BY <1>2, <1>3 DEF WriteBlob

LEMMA CleanUpKeeps ==
  ASSUME CatalogInv, NEW r \in StoreRequests, CleanUp(r) PROVE CatalogInv'
<1>1. /\ req[r] \in ReqRow /\ req[r].at = "clean"
      /\ Relies(r) /\ UNCHANGED <<count, bytes, object>> /\ AfterDelete(r)
  BY DEF CatalogInv, StorageTypeOK, CleanUp, ReqIs, CatalogUnchanged
<1>2. BytesKept
  <2>1. ASSUME NEW o \in StoreRequests, o \in blobs, o \notin blobs'
        PROVE  PastCommit(o) /\ ~object[o].live
    <3>1. o = req[r].row
      BY <2>1 DEF CleanUp, Superseded
    <3> QED BY <1>1, <3>1, StorageAssumption DEF Relies, Cleans, NoRow
  <2> QED BY <2>1 DEF BytesKept
<1>3. CASE OpOf[r] # "purge"
  BY <1>1, <1>2, <1>3, RequestEnds DEF AfterDelete
<1>4. CASE OpOf[r] = "purge"
  <2>1. req[r].bucket \in Buckets
    BY <1>1 DEF Relies
  <2>2. req' = [req EXCEPT ![r].at = "page", ![r].row = NoRow, ![r].slot = FALSE]
    BY <1>1, <1>4 DEF AfterDelete
  <2> QED BY <1>1, <1>2, <1>4, <2>1, <2>2, NextPage
<1> QED BY <1>3, <1>4

\* A commit ends the old row and touches no other but its own.
OldRowEnds(r, old) ==
  /\ object' \in [StoreRequests -> ObjectRow]
  /\ \A o \in StoreRequests \ {r} :
       IF o = old THEN ~object'[o].live /\ object'[o].bucket = object[o].bucket
       ELSE object'[o] = object[o]

\* The other requests go on relying on what they did when one commits.
LEMMA CommitKeeps ==
  ASSUME CatalogInv, UNCHANGED blobs, NEW r \in StoreRequests, req[r].at = "commit",
         NEW row \in ReqRow, req' = [req EXCEPT ![r] = row],
         NEW old, old = req[r].row, row.row \in {old, NoRow},
         row.at \in {"clean", "acquire", "ended"}, row.at # "ended" => row.bucket \in Buckets,
         OldRowEnds(r, old), object'[r].live => OpOf[r] = "put" /\ row.at # "acquire"
  PROVE  (\A q \in StoreRequests : Relies(q)') /\ LockedOnce' /\ LiveObjectHasBytes'
<1>1. /\ req \in [StoreRequests -> ReqRow] /\ req[r] \in ReqRow /\ Relies(r)
      /\ \A q \in StoreRequests : req'[q] = IF q = r THEN row ELSE req[q]
  BY DEF CatalogInv, StorageTypeOK
<1>2. ~PastCommit(r) /\ ~object[r].live
  BY <1>1 DEF PastCommit, Relies
<1>3. ASSUME NEW o \in StoreRequests, PastCommit(o) PROVE o # r /\ PastCommit(o)'
  BY <1>1, <1>2, <1>3 DEF PastCommit
<1>4. ASSUME old # NoRow
      PROVE  old \in StoreRequests /\ old # r /\ PastCommit(old) /\ ~object'[old].live
  BY <1>1, <1>2, <1>4 DEF Relies, ReqRow, OldRowEnds
<1>5. Relies(r)'
  <2>1. object'[r].live => PastCommit(r)'
    BY <1>1 DEF PastCommit
  <2>2. req'[r] = row
    BY <1>1
  <2>3. row.row # NoRow => row.row = old /\ old # NoRow
    OBVIOUS
  <2>4. row.row # NoRow => PastCommit(row.row)' /\ ~object'[row.row].live
    BY <1>3, <1>4, <2>3
  <2> QED BY <2>1, <2>2, <2>4 DEF Relies, Cleans, PastCommit
<1>6. ASSUME NEW q \in StoreRequests, q # r PROVE Relies(q)'
  <2>1. req'[q] = req[q] /\ Relies(q) /\ req[q].row \in StoreRequests \cup {NoRow}
    BY <1>1, <1>6 DEF CatalogInv, StorageTypeOK, ReqRow
  <2>2. Cleans(q)' <=> Cleans(q)
    BY <2>1 DEF Cleans
  <2>3. object'[q].live => object[q].live
    BY <1>6 DEF OldRowEnds
  <2>4. object'[q].live => PastCommit(q)'
    BY <1>3, <2>1, <2>3 DEF Relies
  <2>5. ASSUME NEW p \in StoreRequests, PastCommit(p)
        PROVE  /\ PastCommit(p)' /\ object'[p].bucket = object[p].bucket
               /\ object'[p].live => object[p].live
               /\ p # old /\ object[p].live => object'[p].live
    BY <1>2, <1>3, <2>5 DEF OldRowEnds
  <2>6. ASSUME req[q].at = "commit", req[q].row # NoRow PROVE req[q].row # old
    BY <1>6, <2>6 DEF CatalogInv, LockedOnce
  <2> QED BY <2>1, <2>2, <2>4, <2>5, <2>6 DEF Relies
<1>7. LockedOnce'
  BY <1>1 DEF CatalogInv, LockedOnce
<1>8. LiveObjectHasBytes'
  BY <1>1 DEF CatalogInv, LiveObjectHasBytes, Relies, OldRowEnds
<1> QED BY <1>5, <1>6, <1>7, <1>8

LEMMA CommitDeleteKeeps ==
  ASSUME CatalogInv, NEW r \in StoreRequests, CommitDelete(r) PROVE CatalogInv'
<1>1. /\ StorageTypeOK /\ req[r] \in ReqRow /\ req[r].at = "commit" /\ Relies(r)
      /\ OpOf[r] \in {"delete", "purge"} /\ UNCHANGED blobs /\ Goes(r, "acquire")
      /\ req \in [StoreRequests -> ReqRow] /\ object \in [StoreRequests -> ObjectRow]
  BY DEF CatalogInv, StorageTypeOK, CommitDelete, ReqIs
<1>2. PICK b, old : b = req[r].bucket /\ old = req[r].row
  OBVIOUS
<1>3. /\ b \in Buckets /\ old \in StoreRequests /\ old # NoRow /\ old # r
      /\ object[old].live /\ object[old].bucket = b
  BY <1>1, <1>2 DEF Relies, ReqRow, PastCommit
<1>4. /\ object' = [object EXCEPT ![old].live = FALSE]
      /\ count' = [count EXCEPT ![b] = @ - 1]
      /\ bytes' = [bytes EXCEPT ![b] = @ - Size[old]]
  BY <1>2 DEF CommitDelete
<1>5. /\ object' \in [StoreRequests -> ObjectRow]
      /\ \A o \in StoreRequests :
           IF o = old THEN ~object'[o].live /\ object'[o].bucket = object[o].bucket
           ELSE object'[o] = object[o]
  BY <1>1, <1>3, <1>4 DEF ObjectRow
<1>6. PICK row : row = [req[r] EXCEPT !.at = "acquire"]
  OBVIOUS
<1>7. /\ row \in ReqRow /\ row.at = "acquire" /\ row.bucket = b /\ row.row = old
      /\ req' = [req EXCEPT ![r] = row]
  BY <1>1, <1>2, <1>6 DEF ReqRow, Goes
<1>8. ~object'[r].live
  BY <1>1, <1>3, <1>5 DEF Relies, PastCommit
<1>9. (\A q \in StoreRequests : Relies(q)') /\ LockedOnce' /\ LiveObjectHasBytes'
  <2>1. OldRowEnds(r, old)
    BY <1>5 DEF OldRowEnds
  <2>2. /\ row.row \in {old, NoRow} /\ row.at \in {"clean", "acquire", "ended"}
        /\ row.at # "ended" => row.bucket \in Buckets
    BY <1>3, <1>7
  <2> QED BY <1>1, <1>2, <1>7, <1>8, <2>1, <2>2, CommitKeeps
<1>10. /\ \A c \in Buckets \ {b} : LiveIn(c)' = LiveIn(c)
       /\ LiveIn(b)' = LiveIn(b) \ {old} /\ old \in LiveIn(b)
  BY <1>3, <1>5 DEF LiveIn
<1>11. IsFiniteSet(LiveIn(b)) /\ IsFiniteSet(LiveIn(b) \ {old})
  BY <1>1, <1>3, FS_RemoveElement DEF StorageTypeOK
<1>12. StorageTypeOK'
  <2>1. \A c \in Buckets : IsFiniteSet(LiveIn(c)')
    BY <1>1, <1>10, <1>11 DEF StorageTypeOK
  <2>2. req' \in [StoreRequests -> ReqRow]
    BY <1>1, <1>7
  <2>3. Size[old] \in Int
    BY <1>3, StorageAssumption
  <2>4. count' \in [Buckets -> Int] /\ bytes' \in [Buckets -> Int]
    BY <1>1, <1>3, <1>4, <2>3 DEF StorageTypeOK
  <2> QED BY <1>5, <2>1, <2>2, <2>4 DEF StorageTypeOK
<1>13. Counted'
  <2>1. ASSUME NEW c \in Buckets
        PROVE  count'[c] = Cardinality(LiveIn(c)') /\ bytes'[c] = SetSum(Size, LiveIn(c)')
    <3>1. CASE c # b
      BY <1>1, <1>3, <1>4, <1>10, <3>1 DEF CatalogInv, Counted, StorageTypeOK
    <3>2. CASE c = b
      <4>1. count'[b] = count[b] - 1 /\ bytes'[b] = bytes[b] - Size[old]
        BY <1>1, <1>3, <1>4 DEF StorageTypeOK
      <4>2. count[b] = Cardinality(LiveIn(b)) /\ bytes[b] = SetSum(Size, LiveIn(b))
        BY <1>3 DEF CatalogInv, Counted
      <4>3. Cardinality(LiveIn(b) \ {old}) = Cardinality(LiveIn(b)) - 1
        BY <1>10, <1>11, FS_RemoveElement
      <4>4. \A x \in LiveIn(b) : Size[x] \in Int
        BY StorageAssumption DEF LiveIn
      <4>5. /\ SetSum(Size, LiveIn(b)) = Size[old] + SetSum(Size, LiveIn(b) \ {old})
            /\ SetSum(Size, LiveIn(b) \ {old}) \in Int /\ Size[old] \in Int
        BY <1>10, <1>11, <4>4, SetSumRemove, SetSumType
      <4>6. count'[b] = Cardinality(LiveIn(b) \ {old})
        BY <4>1, <4>2, <4>3
      <4>7. bytes'[b] = SetSum(Size, LiveIn(b) \ {old})
        <5>1. PICK x, y : x = SetSum(Size, LiveIn(b) \ {old}) /\ y = Size[old]
          OBVIOUS
        <5>2. bytes'[b] = (y + x) - y /\ x \in Int /\ y \in Int
          BY <4>1, <4>2, <4>5, <5>1
        <5>3. (y + x) - y = x
          BY <5>2
        <5> QED BY <5>1, <5>2, <5>3
      <4> QED BY <1>10, <3>2, <4>6, <4>7
    <3> QED BY <3>1, <3>2
  <2> QED BY <2>1 DEF Counted
<1> QED BY <1>9, <1>12, <1>13 DEF CatalogInv

LEMMA CommitPutKeeps ==
  ASSUME CatalogInv, NEW r \in StoreRequests, CommitPut(r) PROVE CatalogInv'
<1>1. /\ StorageTypeOK /\ req[r] \in ReqRow /\ req[r].at = "commit" /\ Relies(r)
      /\ OpOf[r] = "put" /\ UNCHANGED blobs
      /\ req \in [StoreRequests -> ReqRow] /\ object \in [StoreRequests -> ObjectRow]
  BY DEF CatalogInv, StorageTypeOK, CommitPut, ReqIs
<1>2. PICK b, old : b = req[r].bucket /\ old = req[r].row
  OBVIOUS
<1>3. /\ b \in Buckets /\ ~PastCommit(r) /\ ~object[r].live
      /\ old \in StoreRequests \cup {NoRow} /\ old # r
      /\ old # NoRow => object[old].live /\ object[old].bucket = b
  BY <1>1, <1>2, StorageAssumption DEF Relies, ReqRow, PastCommit, NoRow
<1>4. /\ object' = [o \in StoreRequests |->
                      IF o = r THEN [live |-> TRUE, bucket |-> b, key |-> req[r].key]
                      ELSE IF o = old THEN [object[o] EXCEPT !.live = FALSE] ELSE object[o]]
      /\ count' = [count EXCEPT ![b] = @ + IF old = NoRow THEN 1 ELSE 0]
      /\ bytes' = [bytes EXCEPT ![b] = @ + Size[r] - SizeOfOld(r)]
      /\ IF old = NoRow THEN Finishes(r) ELSE Goes(r, "clean")
  BY <1>2 DEF CommitPut
<1>5. /\ object'[r] = [live |-> TRUE, bucket |-> b, key |-> req[r].key]
      /\ \A o \in StoreRequests \ {r} :
           IF o = old THEN object'[o] = [object[o] EXCEPT !.live = FALSE]
           ELSE object'[o] = object[o]
  BY <1>4
<1>6. /\ object'[r].live /\ object'[r].bucket = b /\ object'[r] \in ObjectRow
      /\ \A o \in StoreRequests \ {r} :
           IF o = old THEN ~object'[o].live /\ object'[o].bucket = object[o].bucket
           ELSE object'[o] = object[o]
      /\ \A o \in StoreRequests \ {r} : object'[o] \in ObjectRow
  <2>1. req[r].key \in Nat /\ \A o \in StoreRequests : object[o] \in ObjectRow
    BY <1>1 DEF ReqRow
  <2>2. object'[r].live /\ object'[r].bucket = b /\ object'[r] \in ObjectRow
    BY <1>3, <1>5, <2>1 DEF ObjectRow
  <2>3. ASSUME NEW o \in StoreRequests \ {r}, o = old
        PROVE  /\ ~object'[o].live /\ object'[o].bucket = object[o].bucket
               /\ object'[o] \in ObjectRow
    BY <1>5, <2>1, <2>3 DEF ObjectRow
  <2>4. ASSUME NEW o \in StoreRequests \ {r}, o # old PROVE object'[o] = object[o]
    BY <1>5, <2>4
  <2> QED BY <2>1, <2>2, <2>3, <2>4
<1>7. object' \in [StoreRequests -> ObjectRow]
  BY <1>4, <1>6
<1>8. PICK row \in ReqRow :
        /\ req' = [req EXCEPT ![r] = row] /\ row.at \in {"clean", "ended"}
        /\ row.at = "clean" => row.bucket = b
        /\ row.row \in {old, NoRow}
  <2>1. CASE old = NoRow
    <3>1. PICK row : row = [NewReq EXCEPT !.at = "ended"]
      OBVIOUS
    <3>2. row \in ReqRow /\ row.at = "ended" /\ row.row = NoRow
      BY <3>1 DEF NewReq, ReqRow
    <3>3. req' = [req EXCEPT ![r] = row]
      BY <1>4, <2>1, <3>1 DEF Finishes
    <3> QED BY <3>2, <3>3
  <2>2. CASE old # NoRow
    <3>1. PICK row : row = [req[r] EXCEPT !.at = "clean"]
      OBVIOUS
    <3>2. row \in ReqRow /\ row.at = "clean" /\ row.bucket = b /\ row.row = old
      BY <1>1, <1>2, <3>1 DEF ReqRow
    <3>3. req' = [req EXCEPT ![r] = row]
      BY <1>1, <1>4, <2>2, <3>1 DEF Goes
    <3> QED BY <3>2, <3>3
  <2> QED BY <2>1, <2>2
<1>9. (\A q \in StoreRequests : Relies(q)') /\ LockedOnce' /\ LiveObjectHasBytes'
  <2>1. /\ row.at \in {"clean", "acquire", "ended"} /\ row.at # "acquire"
        /\ row.at # "ended" => row.bucket \in Buckets
    BY <1>3, <1>8
  <2>2. OldRowEnds(r, old)
    BY <1>6, <1>7 DEF OldRowEnds
  <2> QED BY <1>1, <1>2, <1>8, <2>1, <2>2, CommitKeeps
<1>10. PICK S : S = LiveIn(b) \ {old}
  OBVIOUS
<1>11. /\ \A c \in Buckets \ {b} : LiveIn(c)' = LiveIn(c)
       /\ LiveIn(b)' = S \cup {r} /\ r \notin S
       /\ old # NoRow => old \in LiveIn(b)
       /\ old = NoRow => S = LiveIn(b)
  BY <1>3, <1>6, <1>10, StorageAssumption DEF LiveIn, NoRow
<1>12. IsFiniteSet(LiveIn(b)) /\ IsFiniteSet(S) /\ IsFiniteSet(S \cup {r})
  BY <1>1, <1>3, <1>10, FS_RemoveElement, FS_AddElement DEF StorageTypeOK
<1>13. PICK n, m : n = (IF old = NoRow THEN 1 ELSE 0) /\ m = SizeOfOld(r)
  OBVIOUS
<1>14. /\ n \in Int /\ m \in Int /\ Size[r] \in Int
       /\ old = NoRow => n = 1 /\ m = 0
       /\ old # NoRow => n = 0 /\ m = Size[old]
  BY <1>2, <1>3, <1>13, StorageAssumption DEF SizeOfOld
<1>15. /\ count' \in [Buckets -> Int] /\ bytes' \in [Buckets -> Int]
       /\ count'[b] = count[b] + n /\ bytes'[b] = bytes[b] + Size[r] - m
       /\ \A c \in Buckets \ {b} : count'[c] = count[c] /\ bytes'[c] = bytes[c]
  BY <1>1, <1>3, <1>4, <1>13, <1>14 DEF StorageTypeOK
<1>16. StorageTypeOK'
  BY <1>1, <1>7, <1>8, <1>11, <1>12, <1>15 DEF StorageTypeOK
<1>17. Counted'
  <2>1. /\ count[b] = Cardinality(LiveIn(b)) /\ bytes[b] = SetSum(Size, LiveIn(b))
        /\ count[b] \in Int /\ bytes[b] \in Int
    BY <1>1, <1>3 DEF CatalogInv, Counted, StorageTypeOK
  <2>2. \A x \in LiveIn(b) : Size[x] \in Int
    BY StorageAssumption DEF LiveIn
  <2>3. \A x \in S : Size[x] \in Int
    BY <1>10, <2>2
  <2>4. /\ Cardinality(S) = count[b] + n - 1 /\ Cardinality(S) \in Int
        /\ SetSum(Size, S) = bytes[b] - m /\ SetSum(Size, S) \in Int
    <3>1. Cardinality(S) \in Int /\ SetSum(Size, S) \in Int
      BY <1>12, <2>3, FS_CardinalityType, SetSumType
    <3>2. CASE old = NoRow
      BY <1>11, <1>14, <2>1, <3>1, <3>2
    <3>3. CASE old # NoRow
      <4>1. old \in LiveIn(b)
        BY <1>11, <3>3
      <4>2. Cardinality(S) = Cardinality(LiveIn(b)) - 1
        BY <1>10, <1>12, <4>1, FS_RemoveElement
      <4>3. SetSum(Size, LiveIn(b)) = Size[old] + SetSum(Size, S)
        BY <1>10, <1>12, <2>2, <4>1, SetSumRemove
      <4> QED BY <1>14, <2>1, <3>1, <3>3, <4>2, <4>3
    <3> QED BY <3>2, <3>3
  <2>5. Cardinality(S \cup {r}) = Cardinality(S) + 1
    BY <1>11, <1>12, FS_AddElement
  <2>6. SetSum(Size, S \cup {r}) = SetSum(Size, S) + Size[r]
    BY <1>11, <1>12, <1>14, <2>3, SetSumAdd
  <2>7. count'[b] = Cardinality(S \cup {r}) /\ bytes'[b] = SetSum(Size, S \cup {r})
    BY <1>14, <1>15, <2>1, <2>4, <2>5, <2>6
  <2>8. ASSUME NEW c \in Buckets
        PROVE  count'[c] = Cardinality(LiveIn(c)') /\ bytes'[c] = SetSum(Size, LiveIn(c)')
    <3>1. CASE c # b
      BY <1>11, <1>15, <3>1 DEF CatalogInv, Counted
    <3>2. CASE c = b
      BY <1>11, <2>7, <3>2
    <3> QED BY <3>1, <3>2
  <2> QED BY <2>8 DEF Counted
<1> QED BY <1>9, <1>16, <1>17 DEF CatalogInv

LEMMA StorageStepKeeps ==
  ASSUME CatalogInv, NEW r \in StoreRequests, StorageStep(r) PROVE CatalogInv'
<1>1. CASE DeleteBucket(r)
  BY <1>1, RequestEnds DEF DeleteBucket, BytesKept
<1>2. CASE ReadBlob(r)
  BY <1>2, RequestEnds DEF ReadBlob, CatalogUnchanged, BytesKept
<1>3. CASE RollBack(r)
  BY <1>3, RequestEnds DEF RollBack, CatalogUnchanged, BytesKept
<1> QED BY <1>1, <1>2, <1>3, ResolveKeeps, AcquireKeeps, WriteKeeps, LookUpKeeps, SelectKeeps,
           UnblockedKeeps, CommitPutKeeps, CommitDeleteKeeps, CleanUpKeeps, PageKeeps,
           ResolveAgainKeeps DEF StorageStep

LEMMA CatalogStep == CatalogInv /\ [StorageNext]_storageVars => CatalogInv'
<1>1. ASSUME CatalogInv, NEW r \in StoreRequests, CreateBucket(r) PROVE CatalogInv'
  BY <1>1, RequestEnds DEF CreateBucket, BytesKept
<1>2. ASSUME CatalogInv, UNCHANGED storageVars PROVE CatalogInv'
  <2>1. UNCHANGED <<bucket, count, bytes, object, blobs, req>>
    BY <1>2 DEF storageVars
  <2>2. StorageTypeOK' /\ LockedOnce' /\ Counted' /\ LiveObjectHasBytes'
    BY <1>2, <2>1 DEF CatalogInv, StorageTypeOK, LiveIn, LockedOnce, Counted, LiveObjectHasBytes
  <2>3. \A q \in StoreRequests : Relies(q)'
    BY <1>2, <2>1 DEF CatalogInv, Relies, PastCommit, Cleans
  <2> QED BY <2>2, <2>3 DEF CatalogInv
<1> QED BY <1>1, <1>2, StorageStepKeeps, ArriveKeeps DEF StorageNext

LEMMA CatalogStart == StorageInit => CatalogInv
<1> SUFFICES ASSUME StorageInit PROVE CatalogInv
  OBVIOUS
<1>1. NewReq \in ReqRow /\ NewReq.at = "new" /\ NewReq.key = 0
  BY DEF NewReq, ReqRow
<1>2. \A b \in Buckets : LiveIn(b) = {}
  BY DEF LiveIn, StorageInit
<1>3. StorageTypeOK
  <2>1. \A b \in Buckets : IsFiniteSet(LiveIn(b))
    BY <1>2, FS_EmptySet
  <2>2. PICK row : row = [live |-> FALSE, bucket |-> 0, key |-> 0]
    OBVIOUS
  <2>3. row \in ObjectRow
    BY <2>2 DEF ObjectRow
  <2>4. object \in [StoreRequests -> ObjectRow]
    BY <1>1, <2>2, <2>3 DEF StorageInit
  <2> QED BY <1>1, <2>1, <2>4 DEF StorageInit, StorageTypeOK
<1>4. \A r \in StoreRequests : Relies(r)
  BY <1>1 DEF StorageInit, Relies, Cleans
<1>5. LockedOnce
  BY <1>1 DEF StorageInit, LockedOnce
<1>6. Counted
  BY <1>2, FS_EmptySet, SetSumEmpty DEF StorageInit, Counted
<1>7. LiveObjectHasBytes
  BY DEF StorageInit, LiveObjectHasBytes
<1> QED BY <1>3, <1>4, <1>5, <1>6, <1>7 DEF CatalogInv

\* However puts, overwrites, deletes and purges of one account meet, and
\* whatever of the backend's writes and deletes fails, the counters that are
\* billed are the live objects and their bytes, and the backend holds the
\* bytes of every object that the catalog offers.
THEOREM CatalogHolds == StorageSpec => []CatalogTrue
<1>1. StorageInit => CatalogInv
  BY CatalogStart
<1>2. CatalogInv /\ [StorageNext]_storageVars => CatalogInv'
  BY CatalogStep
<1>3. CatalogInv => CatalogTrue
  <2> SUFFICES ASSUME CatalogInv PROVE CatalogTrue
    OBVIOUS
  <2>1. \A b \in Buckets : SetSum(Size, LiveIn(b)) = MapThenSumSet(LAMBDA o : Size[o], LiveIn(b))
    BY DEF SetSum, MapThenSumSet, MapThenFoldSet
  <2>2. CountersExact
    BY <2>1 DEF CountersExact, CatalogInv, Counted, LiveIn
  <2> QED BY <2>2 DEF CatalogTrue, CatalogInv
<1> QED BY <1>1, <1>2, <1>3, PTL DEF StorageSpec

-----------------------------------------------------------------------------
(* The registry of a project.                                              *)

CredentialRows == [title : Titles, robot : Nat, revoked : Nat, undone : BOOLEAN]
Robots         == [id : Nat, title : Titles]
Pods           == [state : {"running", "terminated", "failed"}, by : Callers, title : Titles,
                   robot : Nat]
Stations       == {"away", "read", "look up", "project", "robot", "secret", "store", "drop robot",
                   "drop project", "find", "revoke robot", "revoke secret", "mark", "config",
                   "launch", "wait", "clean up"}
\* Where a caller has a title of the project in hand.
Titled         == {"read", "look up", "project", "robot", "secret", "store", "drop robot",
                   "drop project", "config", "launch", "wait", "clean up"}

RegistryTypeOK ==
  /\ title \in Titles
  /\ projects \in SUBSET Titles
  /\ robots \in SUBSET Robots /\ IsFiniteSet(robots)
  /\ minted \in Nat
  /\ secret \in [Titles -> Nat]
  /\ credentials \in Seq(CredentialRows)
  /\ caller \in [Callers -> [at : Stations, builds : BOOLEAN, title : Titles \union {0}, row : Nat,
                             robot : Nat, ok : BOOLEAN]]
  /\ \A c \in Callers : caller[c].at \in Titled => caller[c].title \in Titles
  /\ kaniko \in Pods \union {NoPod}
  /\ images \in [Titles -> Callers \union {"nobody"}]
  /\ begun \in Nat /\ mishaps \in Nat /\ spills \in Nat

\* A caller that has made the Harbor project of its title, one that has the
\* robot in hand, and one that revokes.
Owns(c)    == caller[c].at \in {"robot", "secret", "store", "drop robot", "drop project"}
Has(c)     == caller[c].at \in {"secret", "store", "drop robot"}
Revokes(c) == caller[c].at \in {"revoke robot", "revoke secret", "mark"}

\* Each project has at most one robot, and each row a project of its own.
Apart ==
  /\ \A r \in robots : r.id \in 1 .. minted /\ r.title \in projects
  /\ \A r, q \in robots : r.id = q.id \/ r.title = q.title => r = q
  /\ \A i \in DOMAIN credentials : credentials[i].robot \in 1 .. minted
  /\ \A i, j \in DOMAIN credentials :
        \/ credentials[i].robot = credentials[j].robot
        \/ credentials[i].title = credentials[j].title
        => i = j

\* A project that is being set up is its caller's alone.
Owned ==
  /\ \A c \in Callers : Owns(c) => caller[c].title \in projects
  /\ \A c, k \in Callers : Owns(c) /\ Owns(k) /\ caller[c].title = caller[k].title => c = k
  /\ \A c \in Callers : Owns(c) =>
        \A i \in InForce : credentials[i].title = caller[c].title => credentials[i].undone
  /\ \A c \in Callers : caller[c].at = "robot" => \A r \in robots : r.title # caller[c].title

\* What it has made so far is there.
Made ==
  /\ \A c \in Callers : Has(c) =>
        /\ caller[c].robot \in 1 .. minted
        /\ \A r \in robots : r.id = caller[c].robot => r.title = caller[c].title
  /\ \A c \in Callers : caller[c].at \in {"secret", "store"} =>
        /\ [id |-> caller[c].robot, title |-> caller[c].title] \in robots
        /\ \A i \in DOMAIN credentials : credentials[i].robot # caller[c].robot
  /\ \A c \in Callers : caller[c].at = "drop robot" =>
        \A i \in DOMAIN credentials :
           credentials[i].robot = caller[c].robot => credentials[i].undone
  /\ \A c \in Callers : caller[c].at = "store" /\ Direct =>
        \/ \E i \in DOMAIN credentials : credentials[i].title = caller[c].title
        \/ secret[caller[c].title] = caller[c].robot

\* A row is marked before anything of it is taken down.
Marked ==
  \A c \in Callers :
     /\ Revokes(c) => caller[c].row \in DOMAIN credentials
     /\ caller[c].at \in {"revoke secret", "mark"} => credentials[caller[c].row].undone

\* Robots that nobody will see to, also those whose row is still in use.
Loose == {r \in robots :
  /\ ~Attended(r)
  /\ \A i \in DOMAIN credentials :
        credentials[i].robot = r.id => credentials[i].revoked = i \/ credentials[i].undone}

LooseExcused == Cardinality(Loose) <= spills

\* The pod is that of the one caller that waits for it, or was lost.
PodKept ==
  /\ \A c \in Callers : caller[c].at \in {"wait", "clean up"} =>
        kaniko # NoPod /\ kaniko.by = c /\ kaniko.title = caller[c].title
  /\ \A c \in Callers : caller[c].ok => caller[c].at = "clean up" /\ kaniko.state = "terminated"
  /\ kaniko.state = "terminated" => images[kaniko.title] = kaniko.by
  /\ kaniko # NoPod => spills > 0 \/ caller[kaniko.by].at \in {"wait", "clean up"}

RegistryInv ==
  RegistryTypeOK /\ Apart /\ Owned /\ Made /\ Marked /\ RowsWork /\ LooseExcused /\ PodKept

Ticket == [at : Stations, builds : BOOLEAN, title : Titles \union {0}, row : Nat, robot : Nat,
           ok : BOOLEAN]

\* A caller goes from one station to the next.
Moves(c, k) ==
  /\ caller'[c] = k
  /\ \A j \in Callers : j # c => caller'[j] = caller[j]

LEMMA AwayWell == Away \in Ticket /\ Away.at = "away"
BY DEF Away, Ticket, Stations

LEMMA TicketOf ==
  ASSUME RegistryTypeOK, NEW c \in Callers
  PROVE  caller[c] \in Ticket
BY DEF RegistryTypeOK, Ticket

LEMMA MovesTo ==
  ASSUME RegistryTypeOK, NEW c \in Callers, NEW k, caller' = [caller EXCEPT ![c] = k]
  PROVE  Moves(c, k)
BY DEF RegistryTypeOK, Moves

LEMMA MovesTyped ==
  ASSUME RegistryTypeOK, NEW c \in Callers, NEW k \in Ticket, caller' = [caller EXCEPT ![c] = k],
         k.at \in Titled => k.title \in Titles
  PROVE  /\ caller' \in [Callers -> Ticket]
         /\ \A j \in Callers : caller'[j].at \in Titled => caller'[j].title \in Titles
<1>1. caller' \in [Callers -> Ticket]
  BY DEF RegistryTypeOK, Ticket
<1>2. Moves(c, k)
  BY MovesTo
<1> QED BY <1>1, <1>2 DEF Moves, RegistryTypeOK

LEMMA GoesTo ==
  ASSUME RegistryTypeOK, NEW c \in Callers, NEW at \in Stations, GoTo(c, at)
  PROVE  LET k == [caller[c] EXCEPT !.at = at]
         IN  /\ caller' = [caller EXCEPT ![c] = k] /\ Moves(c, k)
             /\ k \in Ticket /\ k.at = at /\ k.builds = caller[c].builds
             /\ k.title = caller[c].title /\ k.row = caller[c].row /\ k.robot = caller[c].robot
             /\ k.ok = caller[c].ok
<1> DEFINE k == [caller[c] EXCEPT !.at = at]
<1>1. caller' = [caller EXCEPT ![c] = k]
  BY DEF GoTo
<1>2. k \in Ticket /\ k.at = at /\ k.builds = caller[c].builds
      /\ k.title = caller[c].title /\ k.row = caller[c].row /\ k.robot = caller[c].robot
      /\ k.ok = caller[c].ok
  BY TicketOf DEF Ticket
<1> HIDE DEF k
<1>3. Moves(c, k)
  BY <1>1, MovesTo
<1> QED BY <1>1, <1>2, <1>3 DEF k

LEMMA LeavesTo ==
  ASSUME RegistryTypeOK, NEW c \in Callers, Leave(c)
  PROVE  caller' = [caller EXCEPT ![c] = Away] /\ Moves(c, Away)
BY MovesTo DEF Leave

LEMMA ProvidedTo ==
  ASSUME RegistryTypeOK, NEW c \in Callers, NEW t \in Titles, Provided(c, t)
  PROVE  \E k \in Ticket : /\ caller' = [caller EXCEPT ![c] = k] /\ Moves(c, k)
                           /\ k.at \in {"config", "away"} /\ k.title \in {t, 0} /\ ~k.ok
                           /\ k.at = "config" => k.title = t
<1> DEFINE k == IF caller[c].builds
                THEN [Away EXCEPT !.at = "config", !.builds = TRUE, !.title = t] ELSE Away
<1>1. caller' = [caller EXCEPT ![c] = k]
  BY DEF Provided
<1>2. k \in Ticket /\ k.at \in {"config", "away"} /\ k.title \in {t, 0} /\ ~k.ok
      /\ (k.at = "config" => k.title = t)
  BY DEF Away, Ticket, Stations
<1> HIDE DEF k
<1> QED BY <1>1, <1>2, MovesTo

Others(c) == \A j \in Callers : j # c => caller'[j] = caller[j]

\* Where the calls of a caller that leave the registry as it is take it.
Quiet(c) == /\ UNCHANGED <<projects, robots, minted, secret, credentials>>
            /\ spills' \in Nat /\ spills' >= spills
            /\ ~Owns(c)
            /\ caller'[c].at \notin {"robot", "secret", "store", "drop robot", "drop project",
                                     "revoke secret", "mark"}
            /\ caller'[c].at = "revoke robot" => caller'[c].row \in DOMAIN credentials
            /\ Others(c)

CallerTypeOK ==
  /\ caller \in [Callers -> Ticket]
  /\ \A c \in Callers : caller[c].at \in Titled => caller[c].title \in Titles

LEMMA ToStation ==
  ASSUME RegistryTypeOK, NEW c \in Callers, NEW at \in Stations, GoTo(c, at),
         at \in Titled => caller[c].title \in Titles
  PROVE  CallerTypeOK' /\ caller'[c].at = at /\ Others(c)
<1> DEFINE k == [caller[c] EXCEPT !.at = at]
<1>1. /\ caller' = [caller EXCEPT ![c] = k] /\ Moves(c, k)
      /\ k \in Ticket /\ k.at = at /\ k.title = caller[c].title
  BY GoesTo
<1> HIDE DEF k
<1>2. k.at \in Titled => k.title \in Titles
  BY <1>1
<1> QED BY <1>1, <1>2, MovesTyped DEF CallerTypeOK, Moves, Others

LEMMA ToAway ==
  ASSUME RegistryTypeOK, NEW c \in Callers, Leave(c)
  PROVE  CallerTypeOK' /\ caller'[c] = Away /\ Others(c)
BY LeavesTo, MovesTyped, AwayWell DEF CallerTypeOK, Moves, Others, Away, Titled

LEMMA QuietReading ==
  ASSUME RegistryTypeOK, NEW c \in Callers,
         \/ Provision(c) \/ GetRegistryCredentials(c) \/ GetProject(c) \/ Revoke(c) \/ FindRow(c)
         \/ DockerConfigJSONForBuild(c)
  PROVE  CallerTypeOK' /\ Quiet(c) /\ caller'[c].at \notin {"wait", "clean up"}
<1>n. spills \in Nat
  BY DEF RegistryTypeOK
<1>s. Well \/ Begins \/ Mishap => spills' = spills
  BY DEF Well, Begins, Mishap
<1>t. caller[c] \in Ticket /\ (caller[c].at \in Titled => caller[c].title \in Titles)
  BY TicketOf DEF RegistryTypeOK
<1>1. CASE Provision(c)
  <2>1. PICK b \in BOOLEAN :
          caller' = [caller EXCEPT ![c].at = "read", ![c].builds = b, ![c].title = title]
    BY <1>1 DEF Provision
  <2> DEFINE k == [caller[c] EXCEPT !.at = "read", !.builds = b, !.title = title]
  <2>2. caller' = [caller EXCEPT ![c] = k]
    BY <2>1
  <2>3. k \in Ticket /\ k.at = "read" /\ k.title \in Titles
    BY <1>t DEF Ticket, Stations, RegistryTypeOK
  <2> HIDE DEF k
  <2>4. Moves(c, k) /\ CallerTypeOK'
    BY <2>2, <2>3, MovesTo, MovesTyped DEF CallerTypeOK
  <2>5. ~Owns(c)
    <3>1. caller[c] = Away
      BY <1>1 DEF Provision
    <3> QED BY <3>1, AwayWell DEF Owns
  <2>6. UNCHANGED <<projects, robots, minted, secret, credentials>> /\ spills' = spills
    BY <1>1, <1>s DEF Provision, Harbor
  <2>7. Others(c) /\ caller'[c].at = "read"
    BY <2>3, <2>4 DEF Moves, Others
  <2> QED BY <1>n, <2>4, <2>5, <2>6, <2>7 DEF Quiet
<1>2. CASE GetRegistryCredentials(c)
  <2>1. caller[c].at = "read" /\ caller[c].title \in Titles
    BY <1>2, <1>t DEF GetRegistryCredentials, Titled
  <2>2. ASSUME GoTo(c, "project")
        PROVE  CallerTypeOK' /\ Others(c) /\ caller'[c].at = "project"
    BY <2>1, <2>2, ToStation DEF Stations
  <2>3. ASSUME NEW i \in InForce, caller' = [caller EXCEPT ![c].at = "look up", ![c].row = i]
        PROVE  CallerTypeOK' /\ Others(c) /\ caller'[c].at = "look up"
    <3> DEFINE k == [caller[c] EXCEPT !.at = "look up", !.row = i]
    <3>1. caller' = [caller EXCEPT ![c] = k]
      BY <2>3
    <3>2. i \in Nat
      BY DEF InForce, RegistryTypeOK
    <3>3. k \in Ticket /\ k.at = "look up" /\ k.title = caller[c].title
      BY <1>t, <3>2 DEF Ticket, Stations
    <3> HIDE DEF k
    <3> QED BY <2>1, <3>1, <3>3, MovesTo, MovesTyped DEF CallerTypeOK, Moves, Others
  <2>4. /\ CallerTypeOK' /\ Others(c) /\ caller'[c].at \in {"project", "look up"}
    BY <1>2, <2>2, <2>3 DEF GetRegistryCredentials
  <2>5. spills' = spills
    BY <1>2, <1>s DEF GetRegistryCredentials
  <2>8. UNCHANGED <<projects, robots, minted, secret, credentials>>
    BY <1>2 DEF GetRegistryCredentials, Harbor
  <2>9. ~Owns(c)
    BY <2>1 DEF Owns
  <2>10. spills' \in Nat /\ spills' >= spills
    BY <1>n, <2>5
  <2> QED BY <2>4, <2>8, <2>9, <2>10 DEF Quiet
<1>3. CASE GetProject(c)
  <2>1. caller[c].at = "look up" /\ caller[c].title \in Titles
    BY <1>3, <1>t DEF GetProject, Titled
  <2>2. ASSUME GoTo(c, "project")
        PROVE  CallerTypeOK' /\ Others(c) /\ caller'[c].at = "project"
    BY <2>1, <2>2, ToStation DEF Stations
  <2>3. ASSUME NEW t \in Titles, Provided(c, t)
        PROVE  CallerTypeOK' /\ Others(c) /\ caller'[c].at \in {"config", "away"}
    <3>1. PICK k \in Ticket : /\ caller' = [caller EXCEPT ![c] = k] /\ Moves(c, k)
                              /\ k.at \in {"config", "away"}
                              /\ k.at = "config" => k.title = t
      BY <2>3, ProvidedTo
    <3>2. k.at \in Titled => k.title \in Titles
      BY <3>1 DEF Titled
    <3> QED BY <3>1, <3>2, MovesTyped DEF CallerTypeOK, Moves, Others
  <2>4. /\ CallerTypeOK' /\ Others(c)
        /\ caller'[c].at \in {"project", "config", "away"}
    <3>1. projects \subseteq Titles
      BY DEF RegistryTypeOK
    <3> QED BY <1>3, <2>2, <2>3, <3>1 DEF GetProject
  <2>5. spills' = spills
    BY <1>3, <1>s DEF GetProject
  <2>8. UNCHANGED <<projects, robots, minted, secret, credentials>>
    BY <1>3 DEF GetProject, Harbor
  <2>9. ~Owns(c)
    BY <2>1 DEF Owns
  <2>10. spills' \in Nat /\ spills' >= spills
    BY <1>n, <2>5
  <2> QED BY <2>4, <2>8, <2>9, <2>10 DEF Quiet
<1>4. CASE Revoke(c)
  <2>1. GoTo(c, "find") /\ caller[c].at = "away"
    BY <1>4 DEF Revoke, Away
  <2>2. CallerTypeOK' /\ Others(c) /\ caller'[c].at = "find"
    BY <2>1, ToStation DEF Stations, Titled
  <2>3. UNCHANGED <<projects, robots, minted, secret, credentials>> /\ spills' = spills
    BY <1>4, <1>s DEF Revoke, Harbor
  <2>4. ~Owns(c)
    BY <2>1 DEF Owns
  <2>5. spills' \in Nat /\ spills' >= spills
    BY <1>n, <2>3
  <2> QED BY <2>2, <2>3, <2>4, <2>5 DEF Quiet
<1>5. CASE FindRow(c)
  <2>1. caller[c].at = "find"
    BY <1>5 DEF FindRow
  <2>2. ASSUME Leave(c) PROVE CallerTypeOK' /\ Others(c) /\ caller'[c].at = "away"
    BY <2>2, ToAway, AwayWell
  <2>3. ASSUME NEW i \in InForce, caller' = [caller EXCEPT ![c].at = "revoke robot", ![c].row = i]
        PROVE  /\ CallerTypeOK' /\ Others(c) /\ caller'[c].at = "revoke robot"
               /\ caller'[c].row \in DOMAIN credentials
    <3> DEFINE k == [caller[c] EXCEPT !.at = "revoke robot", !.row = i]
    <3>1. caller' = [caller EXCEPT ![c] = k]
      BY <2>3
    <3>2. i \in DOMAIN credentials /\ i \in Nat
      BY DEF InForce, RegistryTypeOK
    <3>3. k \in Ticket /\ k.at = "revoke robot" /\ k.row = i
      BY <1>t, <3>2 DEF Ticket, Stations
    <3> HIDE DEF k
    <3> QED BY <3>1, <3>2, <3>3, MovesTo, MovesTyped DEF CallerTypeOK, Moves, Others, Titled
  <2>4. /\ CallerTypeOK' /\ Others(c) /\ caller'[c].at \in {"revoke robot", "away"}
        /\ caller'[c].at = "revoke robot" => caller'[c].row \in DOMAIN credentials
    BY <1>5, <2>2, <2>3 DEF FindRow
  <2>5. spills' = spills
    BY <1>5, <1>s DEF FindRow
  <2>8. UNCHANGED <<projects, robots, minted, secret, credentials>>
    BY <1>5 DEF FindRow, Harbor
  <2>9. ~Owns(c)
    BY <2>1 DEF Owns
  <2>10. spills' \in Nat /\ spills' >= spills
    BY <1>n, <2>5
  <2> QED BY <2>4, <2>8, <2>9, <2>10 DEF Quiet
<1>6. CASE DockerConfigJSONForBuild(c)
  <2>1. caller[c].at = "config" /\ caller[c].title \in Titles
    BY <1>6, <1>t DEF DockerConfigJSONForBuild, Titled
  <2>2. ASSUME Leave(c) PROVE CallerTypeOK' /\ Others(c) /\ caller'[c].at = "away"
    BY <2>2, ToAway, AwayWell
  <2>3. ASSUME NEW i \in InForce,
               caller' = [caller EXCEPT ![c].at = "launch", ![c].robot = credentials[i].robot]
        PROVE  CallerTypeOK' /\ Others(c) /\ caller'[c].at = "launch"
    <3> DEFINE k == [caller[c] EXCEPT !.at = "launch", !.robot = credentials[i].robot]
    <3>1. caller' = [caller EXCEPT ![c] = k]
      BY <2>3
    <3>2. credentials[i].robot \in Nat
      <4>1. credentials[i] \in CredentialRows
        BY DEF InForce, RegistryTypeOK
      <4> QED BY <4>1 DEF CredentialRows
    <3>3. k \in Ticket /\ k.at = "launch" /\ k.title = caller[c].title
      BY <1>t, <3>2 DEF Ticket, Stations
    <3> HIDE DEF k
    <3> QED BY <2>1, <3>1, <3>3, MovesTo, MovesTyped DEF CallerTypeOK, Moves, Others, Titled
  <2>4. /\ CallerTypeOK' /\ Others(c) /\ caller'[c].at \in {"launch", "away"}
    BY <1>6, <2>2, <2>3 DEF DockerConfigJSONForBuild
  <2>5. spills' = spills
    BY <1>6, <1>s DEF DockerConfigJSONForBuild
  <2>8. UNCHANGED <<projects, robots, minted, secret, credentials>>
    BY <1>6 DEF DockerConfigJSONForBuild, Harbor
  <2>9. ~Owns(c)
    BY <2>1 DEF Owns
  <2>10. spills' \in Nat /\ spills' >= spills
    BY <1>n, <2>5
  <2> QED BY <2>4, <2>8, <2>9, <2>10 DEF Quiet
<1> QED BY <1>1, <1>2, <1>3, <1>4, <1>5, <1>6

LEMMA QuietBuilding ==
  ASSUME RegistryTypeOK, NEW c \in Callers,
         CreateInstance(c) \/ WaitForCompletion(c) \/ DeleteInstance(c)
  PROVE  CallerTypeOK' /\ Quiet(c)
<1>n. spills \in Nat
  BY DEF RegistryTypeOK
<1>s. (Well \/ Mishap => spills' = spills) /\ (Spill => spills' = spills + 1)
  BY DEF Well, Spill, Mishap
<1>t. caller[c] \in Ticket /\ (caller[c].at \in Titled => caller[c].title \in Titles)
  BY TicketOf DEF RegistryTypeOK
<1>1. caller[c].at \in {"launch", "wait", "clean up"} /\ caller[c].title \in Titles
  BY <1>t DEF CreateInstance, WaitForCompletion, DeleteInstance, Titled
<1>2. ASSUME Leave(c) PROVE CallerTypeOK' /\ Others(c) /\ caller'[c].at = "away"
  BY <1>2, ToAway, AwayWell
<1>3. ASSUME NEW at \in {"wait", "clean up"}, GoTo(c, at)
      PROVE  CallerTypeOK' /\ Others(c) /\ caller'[c].at = at
  BY <1>1, <1>3, ToStation DEF Stations
<1>4. ASSUME NEW ok \in BOOLEAN,
             caller' = [caller EXCEPT ![c].at = "clean up", ![c].ok = ok]
      PROVE  CallerTypeOK' /\ Others(c) /\ caller'[c].at = "clean up"
  <2> DEFINE k == [caller[c] EXCEPT !.at = "clean up", !.ok = ok]
  <2>1. caller' = [caller EXCEPT ![c] = k]
    BY <1>4
  <2>2. k \in Ticket /\ k.at = "clean up" /\ k.title = caller[c].title
    BY <1>t DEF Ticket, Stations
  <2> HIDE DEF k
  <2> QED BY <1>1, <2>1, <2>2, MovesTo, MovesTyped DEF CallerTypeOK, Moves, Others
<1>5. CallerTypeOK' /\ Others(c) /\ caller'[c].at \in {"wait", "clean up", "away"}
  <2>1. CASE CreateInstance(c)
    BY <1>2, <1>3, <2>1 DEF CreateInstance
  <2>2. CASE WaitForCompletion(c)
    BY <1>3, <1>4, <2>2 DEF WaitForCompletion
  <2>3. CASE DeleteInstance(c)
    BY <1>2, <2>3 DEF DeleteInstance
  <2> QED BY <2>1, <2>2, <2>3
<1>6. UNCHANGED <<projects, robots, minted, secret, credentials>>
  BY DEF CreateInstance, WaitForCompletion, DeleteInstance, Harbor
<1>7. ~Owns(c)
  BY <1>1 DEF Owns
<1>8. spills' \in Nat /\ spills' >= spills
  <2>1. spills' \in {spills, spills + 1}
    BY <1>s DEF CreateInstance, WaitForCompletion, DeleteInstance
  <2> QED BY <1>n, <2>1
<1> QED BY <1>5, <1>6, <1>7, <1>8 DEF Quiet

LEMMA WentTo ==
  ASSUME RegistryTypeOK, NEW c \in Callers, NEW at \in Stations, GoTo(c, at)
  PROVE  /\ caller'[c].at = at /\ caller'[c].title = caller[c].title
         /\ caller'[c].row = caller[c].row /\ caller'[c].robot = caller[c].robot
         /\ caller'[c].ok = caller[c].ok
         /\ Others(c)
<1> DEFINE k == [caller[c] EXCEPT !.at = at]
<1>1. /\ Moves(c, k) /\ k.at = at /\ k.title = caller[c].title /\ k.row = caller[c].row
      /\ k.robot = caller[c].robot /\ k.ok = caller[c].ok
  BY GoesTo
<1> HIDE DEF k
<1> QED BY <1>1 DEF Moves, Others

LEMMA WentAway ==
  ASSUME RegistryTypeOK, NEW c \in Callers, Leave(c)
  PROVE  caller'[c].at = "away" /\ ~caller'[c].ok /\ Others(c)
BY LeavesTo, AwayWell DEF Moves, Others, Away

LEMMA LooseShrinks ==
  ASSUME RegistryTypeOK, LooseExcused, Loose' \subseteq Loose, spills' \in Nat, spills' >= spills
  PROVE  LooseExcused'
<1>1. IsFiniteSet(Loose)
  BY FS_Subset DEF Loose, RegistryTypeOK
<1>2. Cardinality(Loose') <= Cardinality(Loose) /\ Cardinality(Loose') \in Nat /\ Cardinality(Loose) \in Nat
  BY <1>1, FS_Subset, FS_CardinalityType
<1>3. spills \in Nat
  BY DEF RegistryTypeOK
<1> QED BY <1>2, <1>3 DEF LooseExcused

LEMMA LooseKept ==
  ASSUME RegistryTypeOK, LooseExcused, Loose' \subseteq Loose, spills' = spills
  PROVE  LooseExcused'
<1>1. spills \in Nat
  BY DEF RegistryTypeOK
<1>2. spills' \in Nat /\ spills' >= spills
  BY <1>1
<1> QED BY <1>2, LooseShrinks

LEMMA LooseByOne ==
  ASSUME RegistryTypeOK, LooseExcused, NEW x, Loose' \subseteq Loose \union {x},
         spills' = spills + 1
  PROVE  LooseExcused'
<1>1. IsFiniteSet(Loose)
  BY FS_Subset DEF Loose, RegistryTypeOK
<1>2. /\ IsFiniteSet(Loose \union {x})
      /\ Cardinality(Loose \union {x}) <= Cardinality(Loose) + 1
      /\ Cardinality(Loose) \in Nat
  BY <1>1, FS_AddElement, FS_CardinalityType
<1>3. Cardinality(Loose') <= Cardinality(Loose \union {x}) /\ Cardinality(Loose') \in Nat
      /\ Cardinality(Loose \union {x}) \in Nat
  BY <1>2, FS_Subset, FS_CardinalityType
<1>4. spills \in Nat
  BY DEF RegistryTypeOK
<1> QED BY <1>2, <1>3, <1>4 DEF LooseExcused

RegistryCore == Apart /\ Owned /\ Made /\ Marked /\ RowsWork /\ LooseExcused

\* What a caller that has a robot relies on.
MadeOf(c) ==
  /\ Has(c) => /\ caller[c].robot \in 1 .. minted
               /\ \A r \in robots : r.id = caller[c].robot => r.title = caller[c].title
  /\ caller[c].at \in {"secret", "store"} =>
        /\ [id |-> caller[c].robot, title |-> caller[c].title] \in robots
        /\ \A i \in DOMAIN credentials : credentials[i].robot # caller[c].robot
  /\ caller[c].at = "drop robot" =>
        \A i \in DOMAIN credentials :
           credentials[i].robot = caller[c].robot => credentials[i].undone
  /\ caller[c].at = "store" /\ Direct =>
        \/ \E i \in DOMAIN credentials : credentials[i].title = caller[c].title
        \/ secret[caller[c].title] = caller[c].robot

LEMMA MadeIsOfEach == Made <=> \A c \in Callers : MadeOf(c)
BY DEF Made, MadeOf

LEMMA MadeOfUntouched ==
  ASSUME Made, NEW c \in Callers, caller'[c] = caller[c],
         UNCHANGED <<robots, minted, secret, credentials>>
  PROVE  MadeOf(c)'
<1>1. MadeOf(c)
  BY MadeIsOfEach
<1> QED BY <1>1 DEF MadeOf, Has

LEMMA MadeAfter == ASSUME \A c \in Callers : MadeOf(c)' PROVE Made'
BY DEF Made, MadeOf

LEMMA MadeOfNone == ASSUME NEW c \in Callers, ~Has(c)' PROVE MadeOf(c)'
BY DEF MadeOf, Has

LEMMA QuietStays ==
  ASSUME RegistryTypeOK, RegistryCore, NEW c \in Callers, Quiet(c)
  PROVE  RegistryCore'
<1>1. /\ UNCHANGED <<projects, robots, minted, secret, credentials>>
      /\ \A j \in Callers : j # c => caller'[j] = caller[j]
      /\ caller'[c].at \notin {"robot", "secret", "store", "drop robot", "drop project",
                               "revoke secret", "mark"}
      /\ caller'[c].at = "revoke robot" => caller'[c].row \in DOMAIN credentials
  BY DEF Quiet, Others
<1>2. InForce' = InForce
  BY <1>1 DEF InForce
<1>3. ~Owns(c)' /\ \A j \in Callers : Owns(j)' => j # c /\ Owns(j)
  BY <1>1 DEF Owns
<1>4. Apart'
  BY <1>1 DEF Apart, RegistryCore
<1>5. Owned'
  <2>1. \A j \in Callers : Owns(j)' => caller'[j] = caller[j] /\ Owns(j)
    BY <1>1, <1>3
  <2>2. \A j \in Callers : caller'[j].at = "robot" => caller'[j] = caller[j]
    BY <1>1
  <2>3. \A j \in Callers : Owns(j)' => caller'[j].title \in projects'
    BY <1>1, <2>1 DEF Owned, RegistryCore
  <2>4. \A j, k \in Callers : Owns(j)' /\ Owns(k)' /\ caller'[j].title = caller'[k].title => j = k
    BY <2>1 DEF Owned, RegistryCore
  <2>5. \A j \in Callers : Owns(j)' =>
           \A i \in InForce : credentials[i].title = caller'[j].title => credentials[i].undone
    BY <2>1 DEF Owned, RegistryCore
  <2>6. \A j \in Callers : caller'[j].at = "robot" => \A r \in robots : r.title # caller'[j].title
    BY <2>2 DEF Owned, RegistryCore
  <2> QED BY <1>1, <1>2, <2>3, <2>4, <2>5, <2>6 DEF Owned
<1>6. Made'
  <2>1. \A j \in Callers : Has(j)' => caller'[j] = caller[j]
    BY <1>1 DEF Has
  <2>2. \A j \in Callers : MadeOf(j)'
    BY <1>1, <2>1, MadeOfUntouched, MadeOfNone DEF RegistryCore
  <2> QED BY <2>2, MadeAfter
<1>7. Marked'
  BY <1>1 DEF Marked, Revokes, RegistryCore
<1>8. RowsWork'
  BY <1>1, <1>2 DEF RowsWork, RegistryCore
<1>9. LooseExcused'
  <2>1. \A r : Attended(r) => Attended(r)'
    BY <1>1 DEF Attended, Quiet, Owns
  <2>2. Loose' \subseteq Loose
    BY <1>1, <2>1 DEF Loose
  <2> QED BY <2>2, LooseShrinks DEF Quiet, RegistryCore
<1> QED BY <1>4, <1>5, <1>6, <1>7, <1>8, <1>9 DEF RegistryCore

\* A Harbor project more, that no row or caller has had.
LEMMA CreateProjectStays ==
  ASSUME RegistryTypeOK, RegistryCore, NEW c \in Callers, CreateProject(c)
  PROVE  RegistryCore'
<1> DEFINE t == caller[c].title
<1>1. caller[c].at = "project" /\ UNCHANGED <<robots, minted, secret, credentials>>
      /\ projects' \in {projects, projects \union {t}}
  BY DEF CreateProject
<1>2. spills' = spills /\ spills \in Nat
  BY DEF CreateProject, Well, Mishap, RegistryTypeOK
<1>3. InForce' = InForce
  BY <1>1 DEF InForce
<1>4. \/ caller'[c].at = "away" /\ Others(c)
      \/ /\ caller'[c].at = "robot" /\ caller'[c].title = t /\ Others(c)
         /\ t \notin projects /\ projects' = projects \union {t}
  BY WentTo, WentAway DEF CreateProject, Stations
<1>5. \A j \in Callers : j # c => caller'[j] = caller[j]
  BY <1>4 DEF Others
<1>6. caller'[c].at \in {"away", "robot"}
  BY <1>4
<1> HIDE DEF t
<1>7. Apart'
  BY <1>1 DEF Apart, RegistryCore
<1>8. Owned'
  <2>1. \A j \in Callers : Owns(j)' => caller'[j].title \in projects'
    BY <1>1, <1>4, <1>5 DEF Owned, Owns, RegistryCore
  <2>2. ASSUME NEW j \in Callers, NEW k \in Callers, Owns(j)', Owns(k)',
               caller'[j].title = caller'[k].title
        PROVE  j = k
    <3>1. \A i \in Callers : i # c /\ Owns(i)' => Owns(i) /\ caller'[i].title \in projects
                                                  /\ caller'[i].title = caller[i].title
      BY <1>5 DEF Owned, Owns, RegistryCore
    <3>2. Owns(c)' => caller'[c].title \notin projects
      BY <1>4 DEF Owns
    <3> QED BY <2>2, <3>1, <3>2 DEF Owned, RegistryCore
  <2>3. ASSUME NEW j \in Callers, Owns(j)', NEW i \in InForce,
               credentials[i].title = caller'[j].title
        PROVE  credentials[i].undone
    <3>1. CASE j # c
      BY <1>5, <2>3, <3>1 DEF Owned, Owns, RegistryCore
    <3>2. CASE j = c
      <4>1. credentials[i].title \notin projects
        BY <1>4, <2>3, <3>2 DEF Owns
      <4> QED BY <4>1 DEF RowsWork, RegistryCore
    <3> QED BY <3>1, <3>2
  <2>4. \A j \in Callers : caller'[j].at = "robot" => \A r \in robots : r.title # caller'[j].title
    BY <1>4, <1>5 DEF Owned, Apart, RegistryCore
  <2> QED BY <1>1, <1>3, <2>1, <2>2, <2>3, <2>4 DEF Owned
<1>9. Made'
  <2>1. \A j \in Callers : Has(j)' => caller'[j] = caller[j]
    BY <1>5, <1>6 DEF Has
  <2>2. \A j \in Callers : MadeOf(j)'
    BY <1>1, <2>1, MadeOfUntouched, MadeOfNone DEF RegistryCore
  <2> QED BY <2>2, MadeAfter
<1>10. Marked'
  BY <1>1, <1>5, <1>6 DEF Marked, Revokes, RegistryCore
<1>11. RowsWork'
  BY <1>1, <1>3 DEF RowsWork, RegistryCore
<1>12. LooseExcused'
  <2>1. \A r : Attended(r) => Attended(r)'
    BY <1>1, <1>5 DEF Attended
  <2>2. Loose' \subseteq Loose
    BY <1>1, <2>1 DEF Loose
  <2> QED BY <1>2, <2>2, LooseShrinks DEF RegistryCore
<1> QED BY <1>7, <1>8, <1>9, <1>10, <1>11, <1>12 DEF RegistryCore

\* A robot more, with a number and a title of its own.
LEMMA CreateRobotStays ==
  ASSUME RegistryTypeOK, RegistryCore, NEW c \in Callers, CreateRobotAccount(c)
  PROVE  RegistryCore'
<1> DEFINE t == caller[c].title
           n == minted + 1
           new == [id |-> n, title |-> t]
<1>0. minted \in Nat
  BY DEF RegistryTypeOK
<1>1. /\ caller[c].at = "robot" /\ UNCHANGED <<projects, secret, credentials>>
      /\ \/ robots' = robots /\ minted' = minted
         \/ robots' = robots \union {new} /\ minted' = n
  BY DEF CreateRobotAccount
<1>2. spills' = spills /\ spills \in Nat
  BY DEF CreateRobotAccount, Well, Mishap, RegistryTypeOK
<1>3. InForce' = InForce
  BY <1>1 DEF InForce
<1>4. \/ caller'[c].at = "drop project" /\ caller'[c].title = t /\ Others(c)
      \/ /\ caller'[c].at \in {"secret", "store"} /\ (caller'[c].at = "store" => ~Direct)
         /\ caller'[c].title = t /\ caller'[c].robot = n /\ Others(c)
         /\ robots' = robots \union {new} /\ minted' = n
  <2>1. CASE GoTo(c, "drop project")
    BY <2>1, WentTo DEF Stations
  <2>2. CASE /\ caller' = [caller EXCEPT ![c].at = IF Direct THEN "secret" ELSE "store",
                                         ![c].robot = minted']
             /\ minted' = n /\ robots' = robots \union {new}
    <3> DEFINE k == [caller[c] EXCEPT !.at = IF Direct THEN "secret" ELSE "store", !.robot = minted']
    <3>1. caller' = [caller EXCEPT ![c] = k]
      BY <2>2
    <3>2. /\ k.at \in {"secret", "store"} /\ (k.at = "store" => ~Direct)
          /\ k.title = t /\ k.robot = n
      BY <2>2, TicketOf DEF Ticket
    <3> HIDE DEF k
    <3>3. Moves(c, k)
      BY <3>1, MovesTo
    <3> QED BY <2>2, <3>2, <3>3 DEF Moves, Others
  <2> QED BY <2>1, <2>2 DEF CreateRobotAccount
<1>5. \A j \in Callers : j # c => caller'[j] = caller[j]
  BY <1>4 DEF Others
<1>6. /\ t \in projects /\ \A r \in robots : r.title # t
      /\ \A r \in robots : r.id \in 1 .. minted
      /\ \A i \in DOMAIN credentials : credentials[i].robot \in 1 .. minted
      /\ \A j \in Callers : Owns(j) /\ j # c => caller[j].title # t
      /\ Owns(c)
  BY <1>1 DEF Owned, Owns, Apart, RegistryCore
<1>7. new.id = n /\ new.title = t /\ n \notin 1 .. minted /\ n \in 1 .. n
      /\ \A x \in 1 .. minted : x \in 1 .. n
  BY <1>0
<1>8. caller'[c].at \in {"secret", "store", "drop project"} /\ caller'[c].title = t
  BY <1>4
<1> HIDE DEF t, n, new
<1>9. Apart'
  BY <1>1, <1>6, <1>7 DEF Apart, RegistryCore
<1>10. \A j \in Callers : Owns(j)' => Owns(j) /\ caller'[j].title = caller[j].title
  BY <1>5, <1>6, <1>8 DEF t, Owns
<1>11. Owned'
  <2>1. \A j \in Callers : caller'[j].at = "robot" =>
           j # c /\ caller[j].at = "robot" /\ caller'[j].title = caller[j].title
    BY <1>5, <1>8
  <2>2. \A j \in Callers : caller'[j].at = "robot" => \A r \in robots' : r.title # caller'[j].title
    BY <1>1, <1>6, <1>7, <2>1 DEF Owned, Owns, RegistryCore
  <2> QED BY <1>1, <1>3, <1>10, <2>2 DEF Owned, RegistryCore
<1>12. Made'
  <2>1. ASSUME NEW j \in Callers, j # c, Has(j)' PROVE MadeOf(j)'
    <3>1. MadeOf(j) /\ Has(j) /\ caller'[j] = caller[j]
      BY <1>5, <2>1, MadeIsOfEach DEF Has, RegistryCore
    <3>2. caller[j].robot \in 1 .. minted' /\ caller[j].robot # n
      BY <1>1, <1>7, <3>1 DEF MadeOf
    <3>3. \A r \in robots' : r.id = caller[j].robot => r.title = caller[j].title
      BY <1>1, <1>7, <3>1, <3>2 DEF MadeOf
    <3>4. robots \subseteq robots'
      BY <1>1
    <3> QED BY <1>1, <3>1, <3>2, <3>3, <3>4 DEF MadeOf
  <2>2. Has(c)' => MadeOf(c)'
    <3> SUFFICES ASSUME Has(c)' PROVE MadeOf(c)'
      OBVIOUS
    <3>1. /\ caller'[c].at \in {"secret", "store"} /\ (caller'[c].at = "store" => ~Direct)
          /\ caller'[c].title = t /\ caller'[c].robot = n
          /\ robots' = robots \union {new} /\ minted' = n
      BY <1>4 DEF Has
    <3>2. \A r \in robots' : r.id = n => r.title = t
      BY <1>6, <1>7, <3>1
    <3>3. [id |-> n, title |-> t] \in robots'
      BY <3>1 DEF new
    <3>4. n \in 1 .. minted' /\ \A i \in DOMAIN credentials : credentials[i].robot # n
      BY <1>6, <1>7, <3>1
    <3> QED BY <1>1, <3>1, <3>2, <3>3, <3>4 DEF MadeOf
  <2>3. \A j \in Callers : MadeOf(j)'
    BY <2>1, <2>2, MadeOfNone
  <2> QED BY <2>3, MadeAfter
<1>13. Marked'
  BY <1>1, <1>5, <1>8 DEF Marked, Revokes, RegistryCore
<1>14. RowsWork'
  BY <1>1, <1>3 DEF RowsWork, RegistryCore
<1>15. LooseExcused'
  <2>1. \A r : Attended(r) => Attended(r)'
    BY <1>1, <1>5 DEF Attended
  <2>2. ASSUME NEW x, x = new PROVE Attended(x)'
    <3>1. CASE caller'[c].at = "drop project"
      BY <1>7, <1>8, <2>2, <3>1 DEF Attended
    <3>2. CASE caller'[c].at \in {"secret", "store"} /\ caller'[c].robot = n
      BY <1>7, <2>2, <3>2 DEF Attended
    <3> QED BY <1>4, <3>1, <3>2
  <2>3. Loose' \subseteq Loose
    <3>1. ASSUME NEW r \in Loose' PROVE r \in robots /\ ~Attended(r)
      BY <1>1, <2>1, <2>2 DEF Loose
    <3> QED BY <1>1, <3>1 DEF Loose
  <2> QED BY <1>2, <2>3, LooseShrinks DEF RegistryCore
<1> QED BY <1>9, <1>11, <1>12, <1>13, <1>14, <1>15 DEF RegistryCore

\* What it takes to see that the robots in hand of others are as they were.
LEMMA OthersApart ==
  ASSUME RegistryCore, NEW c \in Callers, Owns(c), NEW j \in Callers, j # c
  PROVE  /\ Owns(j) => caller[j].title # caller[c].title
         /\ Has(j) => MadeOf(j) /\ Owns(j)
         /\ Has(c) => MadeOf(c)
BY MadeIsOfEach DEF Owned, Owns, Has, RegistryCore

LEMMA OwnedStays ==
  ASSUME Owned, projects' = projects, robots' \subseteq robots, InForce' \subseteq InForce,
         \A i \in InForce : /\ credentials'[i].title = credentials[i].title
                            /\ credentials[i].undone => credentials'[i].undone,
         \A c \in Callers : Owns(c)' => Owns(c) /\ caller'[c].title = caller[c].title,
         \A c \in Callers : caller'[c].at = "robot" => caller[c].at = "robot"
  PROVE  Owned'
<1>1. \A j \in Callers : Owns(j)' => caller'[j].title \in projects'
  BY DEF Owned
<1>2. \A j, k \in Callers : Owns(j)' /\ Owns(k)' /\ caller'[j].title = caller'[k].title => j = k
  BY DEF Owned
<1>3. \A j \in Callers : Owns(j)' =>
         \A i \in InForce' : credentials'[i].title = caller'[j].title => credentials'[i].undone
  BY DEF Owned
<1>4. \A j \in Callers : caller'[j].at = "robot" => \A r \in robots' : r.title # caller'[j].title
  <2> SUFFICES ASSUME NEW j \in Callers, caller'[j].at = "robot", NEW r \in robots'
               PROVE  r.title # caller'[j].title
    OBVIOUS
  <2>1. caller[j].at = "robot" /\ Owns(j)' /\ r \in robots
    BY DEF Owns
  <2>2. caller'[j].title = caller[j].title
    BY <2>1
  <2> QED BY <2>1, <2>2 DEF Owned
<1> QED BY <1>1, <1>2, <1>3, <1>4 DEF Owned

\* A step back: what was made is now to be undone.
LEMMA RetreatStays ==
  ASSUME RegistryTypeOK, RegistryCore, NEW c \in Callers, caller[c].at \in {"secret", "store"},
         GoTo(c, "drop robot"), UNCHANGED <<projects, robots, minted, secret, credentials>>,
         spills' = spills
  PROVE  RegistryCore'
<1>1. /\ caller'[c].at = "drop robot" /\ caller'[c].title = caller[c].title
      /\ caller'[c].robot = caller[c].robot
      /\ \A j \in Callers : j # c => caller'[j] = caller[j]
  BY WentTo DEF Stations, Others
<1>2. InForce' = InForce
  BY DEF InForce
<1>3. Apart'
  BY DEF Apart, RegistryCore
<1>4. Owned'
  <2>1. \A j \in Callers : Owns(j)' => Owns(j) /\ caller'[j].title = caller[j].title
    BY <1>1 DEF Owns
  <2>2. \A j \in Callers : caller'[j].at = "robot" => caller[j].at = "robot"
    BY <1>1
  <2> QED BY <1>2, <2>1, <2>2, OwnedStays DEF RegistryCore
<1>5. Made'
  <2>1. \A j \in Callers : j # c => MadeOf(j)'
    BY <1>1, MadeOfUntouched DEF RegistryCore
  <2>2. MadeOf(c)
    BY MadeIsOfEach DEF RegistryCore
  <2>3. MadeOf(c)'
    BY <1>1, <2>2 DEF MadeOf, Has
  <2> QED BY <2>1, <2>3, MadeAfter
<1>6. Marked'
  BY <1>1 DEF Marked, Revokes, RegistryCore
<1>7. RowsWork'
  BY <1>2 DEF RowsWork, RegistryCore
<1>8. LooseExcused'
  <2>1. \A r : Attended(r) => Attended(r)'
    BY <1>1 DEF Attended
  <2>2. Loose' \subseteq Loose
    BY <2>1 DEF Loose
  <2> QED BY <2>2, LooseKept DEF RegistryCore
<1> QED BY <1>3, <1>4, <1>5, <1>6, <1>7, <1>8 DEF RegistryCore

LEMMA CreateSecretStays ==
  ASSUME RegistryTypeOK, RegistryCore, NEW c \in Callers, CreateImagePullSecret(c)
  PROVE  RegistryCore'
<1> DEFINE t == caller[c].title
<1>1. /\ caller[c].at = "secret" /\ UNCHANGED <<projects, robots, minted, credentials>>
      /\ spills' = spills
  BY DEF CreateImagePullSecret, Harbor, Well, Mishap
<1>2. CASE UNCHANGED secret /\ GoTo(c, "drop robot")
  BY <1>1, <1>2, RetreatStays
<1>3. CASE secret[t] = 0 /\ secret' = [secret EXCEPT ![t] = caller[c].robot] /\ GoTo(c, "store")
  <2>1. /\ caller'[c].at = "store" /\ caller'[c].title = t /\ caller'[c].robot = caller[c].robot
        /\ \A j \in Callers : j # c => caller'[j] = caller[j]
    BY <1>3, WentTo DEF Stations, Others
  <2>2. InForce' = InForce /\ spills \in Nat
    BY <1>1 DEF InForce, RegistryTypeOK
  <2>3. t \in Titles /\ Owns(c) /\ Has(c)
    BY <1>1 DEF RegistryTypeOK, Titled, Owns, Has
  <2>4. secret'[t] = caller[c].robot /\ \A x \in Titles : x # t => secret'[x] = secret[x]
    BY <1>3, <2>3 DEF RegistryTypeOK
  <2> HIDE DEF t
  <2>5. Apart'
    BY <1>1 DEF Apart, RegistryCore
  <2>6. Owned'
    <3>1. \A j \in Callers : Owns(j)' => Owns(j) /\ caller'[j].title = caller[j].title
      BY <1>1, <2>1 DEF Owns, t
    <3>2. \A j \in Callers : caller'[j].at = "robot" => caller[j].at = "robot"
      BY <2>1
    <3> QED BY <1>1, <2>2, <3>1, <3>2, OwnedStays DEF RegistryCore
  <2>7. Made'
    <3>1. ASSUME NEW j \in Callers, j # c, Has(j)' PROVE MadeOf(j)'
      <4>1. caller'[j] = caller[j] /\ Has(j)
        BY <2>1, <3>1 DEF Has
      <4>2. MadeOf(j) /\ caller[j].title # t
        BY <2>3, <3>1, <4>1, OthersApart DEF t
      <4>3. caller[j].title \in Titles
        BY <4>1 DEF Has, Titled, RegistryTypeOK
      <4> QED BY <1>1, <2>4, <4>1, <4>2, <4>3 DEF MadeOf, Has
    <3>2. MadeOf(c)
      BY MadeIsOfEach DEF RegistryCore
    <3>3. MadeOf(c)'
      BY <1>1, <2>1, <2>3, <2>4, <3>2 DEF MadeOf, Has, t
    <3> QED BY <3>1, <3>3, MadeOfNone, MadeAfter
  <2>8. Marked'
    BY <1>1, <2>1 DEF Marked, Revokes, RegistryCore
  <2>9. RowsWork'
    <3>1. \A i \in InForce : ~credentials[i].undone => credentials[i].title # t
      BY <2>3 DEF Owned, RegistryCore, t
    <3>2. \A i \in InForce : credentials[i].title \in Titles
      <4>1. \A i \in InForce : credentials[i] \in CredentialRows
        BY DEF InForce, RegistryTypeOK
      <4> QED BY <4>1 DEF CredentialRows
    <3> QED BY <1>1, <2>2, <2>4, <3>1, <3>2 DEF RowsWork, RegistryCore
  <2>10. LooseExcused'
    <3>1. \A r : Attended(r) => Attended(r)'
      BY <1>1, <2>1 DEF Attended
    <3>2. Loose' \subseteq Loose
      BY <1>1, <3>1 DEF Loose
    <3> QED BY <1>1, <2>2, <3>2, LooseShrinks DEF RegistryCore
  <2> QED BY <2>5, <2>6, <2>7, <2>8, <2>9, <2>10 DEF RegistryCore
<1> QED BY <1>2, <1>3 DEF CreateImagePullSecret

\* A row more, of what its caller has made: in use, or taken for not stored.
LEMMA StoreStays ==
  ASSUME RegistryTypeOK, RegistryCore, NEW c \in Callers, StoreCredentials(c)
  PROVE  RegistryCore'
<1> DEFINE t == caller[c].title
           n == caller[c].robot
           x == Len(credentials) + 1
<1>1. /\ caller[c].at = "store" /\ UNCHANGED <<projects, robots, minted, secret>>
      /\ spills' = spills
  BY DEF StoreCredentials, Harbor, Well, Mishap
<1>2. /\ t \in Titles /\ Owns(c) /\ Has(c) /\ MadeOf(c) /\ spills \in Nat
      /\ credentials \in Seq(CredentialRows) /\ n \in Nat
  <2>1. n \in Nat
    BY TicketOf DEF Ticket
  <2> QED BY <1>1, <2>1, MadeIsOfEach DEF RegistryTypeOK, Titled, Owns, Has, RegistryCore
<1>3. CASE UNCHANGED credentials /\ StoreFails(c)
  BY <1>1, <1>3, RetreatStays DEF StoreFails
<1>4. ASSUME NEW new \in CredentialRows, new.title = t, new.robot = n, new.revoked = 0,
             \A i \in DOMAIN credentials : credentials[i].title # t,
             credentials' = Append(credentials, new), Others(c),
             \/ Provided(c, t) /\ ~new.undone
             \/ GoTo(c, "drop robot") /\ new.undone
      PROVE  RegistryCore'
  <2>1. /\ DOMAIN credentials' = DOMAIN credentials \union {x} /\ x \notin DOMAIN credentials
        /\ x # 0
        /\ \A i \in DOMAIN credentials : credentials'[i] = credentials[i]
        /\ credentials'[x] = new
    <3>1. credentials \in Seq(CredentialRows) /\ credentials' = Append(credentials, new)
      BY <1>2, <1>4
    <3> HIDE DEF CredentialRows, t, n
    <3> QED BY <3>1
  <2>2. InForce' = InForce \union {x}
    BY <1>4, <2>1 DEF InForce
  <2>3. \/ caller'[c].at \in {"config", "away"} /\ ~new.undone
        \/ /\ caller'[c].at = "drop robot" /\ caller'[c].title = t /\ caller'[c].robot = n
           /\ new.undone
    <3>1. CASE Provided(c, t) /\ ~new.undone
      BY <1>2, <3>1, ProvidedTo DEF Moves
    <3>2. CASE GoTo(c, "drop robot") /\ new.undone
      BY <3>2, WentTo DEF Stations
    <3> QED BY <1>4, <3>1, <3>2
  <2>4. \A j \in Callers : j # c => caller'[j] = caller[j]
    BY <1>4 DEF Others
  <2>5. /\ n \in 1 .. minted /\ t \in projects
        /\ [id |-> n, title |-> t] \in robots
        /\ \A i \in DOMAIN credentials : credentials[i].robot # n
        /\ Direct => secret[t] = n
        /\ \A r \in robots : r.id = n => r.title = t
    BY <1>1, <1>2, <1>4 DEF MadeOf, Owned, RegistryCore
  <2> HIDE DEF t, n, x
  <2>6. Apart'
    <3>1. \A i \in DOMAIN credentials' : credentials'[i].robot \in 1 .. minted
      BY <1>4, <2>1, <2>5 DEF Apart, RegistryCore
    <3>2. \A i, j \in DOMAIN credentials' :
             \/ credentials'[i].robot = credentials'[j].robot
             \/ credentials'[i].title = credentials'[j].title
             => i = j
      <4>1. \A i, j \in DOMAIN credentials :
               \/ credentials[i].robot = credentials[j].robot
               \/ credentials[i].title = credentials[j].title
               => i = j
        BY DEF Apart, RegistryCore
      <4>2. \A i \in DOMAIN credentials :
               credentials[i].robot # new.robot /\ credentials[i].title # new.title
        BY <1>4, <2>5
      <4> QED BY <2>1, <4>1, <4>2
    <3> QED BY <1>1, <3>1, <3>2 DEF Apart, RegistryCore
  <2>7. \A j \in Callers : Owns(j)' => Owns(j) /\ caller'[j].title = caller[j].title
    BY <1>2, <2>3, <2>4 DEF Owns, t
  <2>8. Owned'
    <3>1. \A j \in Callers : Owns(j)' => caller'[j].title \in projects'
      BY <1>1, <2>7 DEF Owned, RegistryCore
    <3>2. \A j, k \in Callers : Owns(j)' /\ Owns(k)' /\ caller'[j].title = caller'[k].title => j = k
      BY <2>7 DEF Owned, RegistryCore
    <3>3. ASSUME NEW j \in Callers, Owns(j)', NEW i \in InForce',
                 credentials'[i].title = caller'[j].title
          PROVE  credentials'[i].undone
      <4>1. Owns(j) /\ caller'[j].title = caller[j].title
        BY <2>7, <3>3
      <4>2. CASE i \in InForce
        BY <2>1, <3>3, <4>1, <4>2 DEF Owned, InForce, RegistryCore
      <4>3. CASE i = x
        <5>1. j = c
          BY <1>2, <1>4, <2>1, <3>3, <4>1, <4>3 DEF Owned, RegistryCore, t
        <5>2. new.undone
          BY <2>3, <3>3, <5>1 DEF Owns
        <5> QED BY <2>1, <4>3, <5>2
      <4> QED BY <2>2, <3>3, <4>2, <4>3
    <3>4. \A j \in Callers : caller'[j].at = "robot" =>
             j # c /\ caller'[j] = caller[j]
      BY <2>3, <2>4
    <3>5. \A j \in Callers : caller'[j].at = "robot" => \A r \in robots : r.title # caller'[j].title
      BY <3>4 DEF Owned, RegistryCore
    <3> QED BY <1>1, <3>1, <3>2, <3>3, <3>5 DEF Owned
  <2>9. Made'
    <3>1. ASSUME NEW j \in Callers, j # c, Has(j)' PROVE MadeOf(j)'
      <4>1. caller'[j] = caller[j] /\ Has(j)
        BY <2>4, <3>1 DEF Has
      <4>2. MadeOf(j) /\ caller[j].title # t
        BY <1>2, <3>1, <4>1, OthersApart DEF t
      <4>3. caller[j].at \in {"secret", "store"} =>
               \A i \in DOMAIN credentials' : credentials'[i].robot # caller[j].robot
        <5>1. caller[j].at \in {"secret", "store"} => caller[j].robot # n
          <6> DEFINE r == [id |-> caller[j].robot, title |-> caller[j].title]
          <6>1. caller[j].at \in {"secret", "store"} => r \in robots
            BY <4>2 DEF MadeOf
          <6>2. r.id = caller[j].robot /\ r.title = caller[j].title
            OBVIOUS
          <6> QED BY <2>5, <4>2, <6>1, <6>2
        <5> QED BY <1>4, <2>1, <4>2, <5>1 DEF MadeOf
      <4>4. caller[j].at = "drop robot" =>
               \A i \in DOMAIN credentials' :
                  credentials'[i].robot = caller[j].robot => credentials'[i].undone
        <5>1. caller[j].robot # n
          BY <2>5, <4>1, <4>2 DEF MadeOf
        <5> QED BY <1>4, <2>1, <4>2, <5>1 DEF MadeOf
      <4>5. (\E i \in DOMAIN credentials : credentials[i].title = caller[j].title) =>
               \E i \in DOMAIN credentials' : credentials'[i].title = caller[j].title
        BY <2>1
      <4> QED BY <1>1, <4>1, <4>2, <4>3, <4>4, <4>5 DEF MadeOf, Has
    <3>2. Has(c)' => MadeOf(c)'
      <4> SUFFICES ASSUME Has(c)' PROVE MadeOf(c)'
        OBVIOUS
      <4>1. /\ caller'[c].at = "drop robot" /\ caller'[c].title = t /\ caller'[c].robot = n
            /\ new.undone
        BY <2>3 DEF Has
      <4> QED BY <1>1, <1>4, <2>1, <2>5, <4>1 DEF MadeOf
    <3> QED BY <3>1, <3>2, MadeOfNone, MadeAfter
  <2>10. Marked'
    <3>1. \A j \in Callers : Revokes(j)' => j # c /\ caller'[j] = caller[j] /\ Revokes(j)
      BY <2>3, <2>4 DEF Revokes
    <3> QED BY <2>1, <3>1 DEF Marked, Revokes, RegistryCore
  <2>11. RowsWork'
    <3>1. \A i \in InForce : i \in DOMAIN credentials
      BY DEF InForce
    <3> QED BY <1>1, <1>4, <2>1, <2>2, <2>5, <3>1 DEF RowsWork, RegistryCore
  <2>12. LooseExcused'
    <3>1. ASSUME NEW r \in Loose' PROVE r \in Loose
      <4>1. /\ r \in robots /\ ~Attended(r)'
            /\ \A i \in DOMAIN credentials' :
                 credentials'[i].robot = r.id => credentials'[i].revoked = i \/ credentials'[i].undone
        BY <1>1, <3>1 DEF Loose
      <4>2. \A i \in DOMAIN credentials :
              credentials[i].robot = r.id => credentials[i].revoked = i \/ credentials[i].undone
        BY <2>1, <4>1
      <4>3. CASE new.undone
        <5>1. Attended(r) => Attended(r)'
          BY <1>1, <2>3, <2>4, <4>3 DEF Attended, t, n
        <5> QED BY <4>1, <4>2, <5>1 DEF Loose
      <4>4. CASE ~new.undone
        <5>1. r.id # n
          BY <1>4, <2>1, <4>1, <4>4
        <5>2. Attended(r) => Attended(r)'
          BY <1>1, <2>4, <5>1 DEF Attended, n
        <5> QED BY <4>1, <4>2, <5>2 DEF Loose
      <4> QED BY <4>3, <4>4
    <3>2. spills' \in Nat /\ spills' >= spills
      BY <1>1, <1>2
    <3> QED BY <3>1, <3>2, LooseShrinks DEF RegistryCore
  <2> QED BY <2>6, <2>8, <2>9, <2>10, <2>11, <2>12 DEF RegistryCore
<1>5. CASE /\ \A i \in DOMAIN credentials : credentials[i].title # t
           /\ credentials' = Append(credentials, CredentialRow(c)) /\ Provided(c, t)
  <2>1. CredentialRow(c) \in CredentialRows
    BY <1>2 DEF CredentialRow, CredentialRows
  <2>2. /\ CredentialRow(c).title = t /\ CredentialRow(c).robot = n
        /\ CredentialRow(c).revoked = 0 /\ ~CredentialRow(c).undone
    BY DEF CredentialRow
  <2>3. Others(c)
    BY <1>2, <1>5, ProvidedTo DEF Moves, Others
  <2> HIDE DEF t, n
  <2> QED BY <1>4, <1>5, <2>1, <2>2, <2>3
<1>6. CASE /\ \A i \in DOMAIN credentials : credentials[i].title # t
           /\ credentials' = Append(credentials, [CredentialRow(c) EXCEPT !.undone = TRUE])
           /\ StoreFails(c)
  <2> DEFINE new == [CredentialRow(c) EXCEPT !.undone = TRUE]
  <2>1. new \in CredentialRows
    BY <1>2 DEF CredentialRow, CredentialRows
  <2>2. new.title = t /\ new.robot = n /\ new.revoked = 0 /\ new.undone
    BY DEF CredentialRow
  <2>3. GoTo(c, "drop robot") /\ Others(c)
    BY <1>6, WentTo DEF StoreFails, Stations
  <2>4. credentials' = Append(credentials, new)
    BY <1>6
  <2> HIDE DEF t, n, new
  <2> QED BY <1>4, <1>6, <2>1, <2>2, <2>3, <2>4
<1> QED BY <1>3, <1>5, <1>6 DEF StoreCredentials

LEMMA DropRobotStays ==
  ASSUME RegistryTypeOK, RegistryCore, NEW c \in Callers, DeleteRobotAccount(c)
  PROVE  RegistryCore'
<1> DEFINE t == caller[c].title
           n == caller[c].robot
<1>1. /\ caller[c].at = "drop robot" /\ UNCHANGED <<projects, minted, secret, credentials>>
      /\ robots' \in {robots, {r \in robots : r.id # n}}
  BY DEF DeleteRobotAccount
<1>s. spills' \in Nat /\ spills' >= spills
  <2>1. spills' \in {spills, spills + 1}
    BY DEF DeleteRobotAccount, Well, Spill
  <2>2. spills \in Nat
    BY DEF RegistryTypeOK
  <2> QED BY <2>1, <2>2
<1>2. /\ caller'[c].at = "drop project" /\ caller'[c].title = t
      /\ \A j \in Callers : j # c => caller'[j] = caller[j]
  BY WentTo DEF DeleteRobotAccount, Stations, Others
<1>3. InForce' = InForce /\ robots' \subseteq robots
  BY <1>1 DEF InForce
<1>4. Owns(c) /\ Has(c) /\ MadeOf(c)
  BY <1>1, MadeIsOfEach DEF Owns, Has, RegistryCore
<1> HIDE DEF t, n
<1>5. Apart'
  BY <1>1, <1>3 DEF Apart, RegistryCore
<1>6. Owned'
  <2>1. \A j \in Callers : Owns(j)' => Owns(j) /\ caller'[j].title = caller[j].title
    BY <1>2, <1>4 DEF Owns, t
  <2>2. \A j \in Callers : caller'[j].at = "robot" => caller[j].at = "robot"
    BY <1>2
  <2> QED BY <1>1, <1>3, <2>1, <2>2, OwnedStays DEF RegistryCore
<1>7. Made'
  <2>1. ASSUME NEW j \in Callers, Has(j)' PROVE MadeOf(j)'
    <3>1. j # c /\ caller'[j] = caller[j] /\ Has(j)
      BY <1>2, <2>1 DEF Has
    <3>2. MadeOf(j) /\ caller[j].title # t
      BY <1>4, <3>1, OthersApart DEF t
    <3>3. caller[j].at \in {"secret", "store"} =>
             [id |-> caller[j].robot, title |-> caller[j].title] \in robots'
      <4> DEFINE r == [id |-> caller[j].robot, title |-> caller[j].title]
      <4>1. caller[j].at \in {"secret", "store"} => r \in robots
        BY <3>2 DEF MadeOf
      <4>2. r.id = caller[j].robot /\ r.title = caller[j].title
        OBVIOUS
      <4>3. r \in robots => r.id # n
        BY <1>4, <3>2, <4>2 DEF MadeOf, t, n
      <4> QED BY <1>1, <4>1, <4>3
    <3> QED BY <1>1, <1>3, <3>1, <3>2, <3>3 DEF MadeOf, Has
  <2> QED BY <2>1, MadeOfNone, MadeAfter
<1>8. Marked'
  BY <1>1, <1>2 DEF Marked, Revokes, RegistryCore
<1>9. RowsWork'
  <2>1. ASSUME NEW i \in InForce, ~credentials[i].undone
        PROVE  [id |-> credentials[i].robot, title |-> credentials[i].title] \in robots'
    <3> DEFINE r == [id |-> credentials[i].robot, title |-> credentials[i].title]
    <3>1. r \in robots /\ i \in DOMAIN credentials
      BY <2>1 DEF RowsWork, RegistryCore, InForce
    <3>2. r.id # n
      BY <1>1, <1>4, <2>1, <3>1 DEF MadeOf, n
    <3> QED BY <1>1, <3>1, <3>2
  <2> QED BY <1>1, <1>3, <2>1 DEF RowsWork, RegistryCore
<1>10. LooseExcused'
  <2>1. ASSUME NEW r \in robots, Attended(r) PROVE Attended(r)'
    <3>1. CASE r.id = n
      <4>1. r.title = t
        BY <1>4, <3>1 DEF MadeOf, t, n
      <4> QED BY <1>2, <4>1 DEF Attended
    <3>2. CASE r.id # n
      BY <1>1, <1>2, <2>1, <3>2 DEF Attended, n
    <3> QED BY <3>1, <3>2
  <2>2. Loose' \subseteq Loose
    BY <1>1, <1>3, <2>1 DEF Loose
  <2> QED BY <1>s, <2>2, LooseShrinks DEF RegistryCore
<1> QED BY <1>5, <1>6, <1>7, <1>8, <1>9, <1>10 DEF RegistryCore

LEMMA DropProjectStays ==
  ASSUME RegistryTypeOK, RegistryCore, NEW c \in Callers, DeleteProject(c)
  PROVE  RegistryCore'
<1> DEFINE t == caller[c].title
<1>1. /\ caller[c].at = "drop project" /\ UNCHANGED <<minted, secret, credentials>>
      /\ \/ /\ projects' = projects \ {t} /\ robots' = {r \in robots : r.title # t}
            /\ spills' = spills
         \/ projects' = projects /\ robots' = robots /\ spills' = spills + 1
  BY DEF DeleteProject, Well, Spill
<1>2. /\ caller'[c].at = "away"
      /\ \A j \in Callers : j # c => caller'[j] = caller[j]
  BY WentAway DEF DeleteProject, Others
<1>3. InForce' = InForce /\ robots' \subseteq robots
  BY <1>1 DEF InForce
<1>4. Owns(c) /\ ~Owns(c)'
  BY <1>1, <1>2 DEF Owns
<1> HIDE DEF t
<1>5. Apart'
  BY <1>1, <1>3 DEF Apart, RegistryCore
<1>6. \A j \in Callers : Owns(j)' => j # c /\ Owns(j) /\ caller'[j] = caller[j] /\ caller[j].title # t
  BY <1>2, <1>4, OthersApart DEF Owns, t
<1>7. Owned'
  <2>1. \A j \in Callers : Owns(j)' => caller'[j].title \in projects'
    BY <1>1, <1>6 DEF Owned, RegistryCore
  <2>2. \A j, k \in Callers : Owns(j)' /\ Owns(k)' /\ caller'[j].title = caller'[k].title => j = k
    BY <1>6 DEF Owned, RegistryCore
  <2>3. \A j \in Callers : Owns(j)' =>
           \A i \in InForce : credentials[i].title = caller'[j].title => credentials[i].undone
    BY <1>6 DEF Owned, RegistryCore
  <2>4. \A j \in Callers : caller'[j].at = "robot" => caller'[j] = caller[j]
    BY <1>2
  <2>5. \A j \in Callers : caller'[j].at = "robot" => \A r \in robots' : r.title # caller'[j].title
    BY <1>3, <2>4 DEF Owned, RegistryCore
  <2> QED BY <1>1, <1>3, <2>1, <2>2, <2>3, <2>5 DEF Owned
<1>8. Made'
  <2>1. ASSUME NEW j \in Callers, Has(j)' PROVE MadeOf(j)'
    <3>1. j # c /\ caller'[j] = caller[j] /\ Has(j)
      BY <1>2, <2>1 DEF Has
    <3>2. MadeOf(j) /\ caller[j].title # t
      BY <1>4, <3>1, OthersApart DEF t
    <3>3. caller[j].at \in {"secret", "store"} =>
             [id |-> caller[j].robot, title |-> caller[j].title] \in robots'
      <4> DEFINE r == [id |-> caller[j].robot, title |-> caller[j].title]
      <4>1. caller[j].at \in {"secret", "store"} => r \in robots
        BY <3>2 DEF MadeOf
      <4>2. r.title # t
        BY <3>2
      <4> QED BY <1>1, <4>1, <4>2
    <3> QED BY <1>1, <1>3, <3>1, <3>2, <3>3 DEF MadeOf, Has
  <2> QED BY <2>1, MadeOfNone, MadeAfter
<1>9. Marked'
  BY <1>1, <1>2 DEF Marked, Revokes, RegistryCore
<1>10. RowsWork'
  <2>1. ASSUME NEW i \in InForce, ~credentials[i].undone
        PROVE  /\ credentials[i].title \in projects'
               /\ [id |-> credentials[i].robot, title |-> credentials[i].title] \in robots'
    <3> DEFINE r == [id |-> credentials[i].robot, title |-> credentials[i].title]
    <3>1. r \in robots /\ credentials[i].title \in projects
      BY <2>1 DEF RowsWork, RegistryCore
    <3>2. credentials[i].title # t
      BY <1>4, <2>1 DEF Owned, RegistryCore, t
    <3> QED BY <1>1, <3>1, <3>2
  <2> QED BY <1>1, <1>3, <2>1 DEF RowsWork, RegistryCore
<1>11. \A r : Attended(r) => Attended(r)' \/ r.title = t
  BY <1>1, <1>2 DEF Attended, t
<1>12. LooseExcused'
  <2>1. CASE robots' = {r \in robots : r.title # t} /\ spills' = spills
    <3>1. Loose' \subseteq Loose
      BY <1>1, <1>3, <1>11, <2>1 DEF Loose
    <3> QED BY <2>1, <3>1, LooseKept DEF RegistryCore
  <2>2. CASE robots' = robots /\ spills' = spills + 1
    <3> DEFINE x == CHOOSE r \in robots : r.title = t
    <3>1. \A r \in robots : r.title = t => r = x
      BY DEF Apart, RegistryCore
    <3> HIDE DEF x
    <3>2. Loose' \subseteq Loose \union {x}
      BY <1>1, <1>11, <2>2, <3>1 DEF Loose
    <3> QED BY <2>2, <3>2, LooseByOne DEF RegistryCore
  <2> QED BY <1>1, <2>1, <2>2
<1> QED BY <1>5, <1>7, <1>8, <1>9, <1>10, <1>12 DEF RegistryCore

\* What a revocation leaves as it is.
LEMMA RevokingKeeps ==
  ASSUME RegistryTypeOK, RegistryCore, NEW c \in Callers, Revokes(c), ~Owns(c)', Others(c),
         UNCHANGED <<projects, minted>>, robots' \subseteq robots,
         DOMAIN credentials' = DOMAIN credentials, InForce' \subseteq InForce,
         \A i \in DOMAIN credentials :
            /\ credentials'[i].title = credentials[i].title
            /\ credentials'[i].robot = credentials[i].robot
            /\ credentials[i].undone => credentials'[i].undone
  PROVE  /\ Apart' /\ Owned'
         /\ \A r : Attended(r) => Attended(r)'
         /\ \A j \in Callers : Has(j)' => j # c /\ Has(j) /\ caller'[j] = caller[j] /\ MadeOf(j)
<1>0. \A j \in Callers : j # c => caller'[j] = caller[j]
  BY DEF Others
<1>1. Apart'
  <2>1. \A i \in DOMAIN credentials' : credentials'[i].robot \in 1 .. minted
    BY DEF Apart, RegistryCore
  <2>2. \A i, j \in DOMAIN credentials' :
           \/ credentials'[i].robot = credentials'[j].robot
           \/ credentials'[i].title = credentials'[j].title
           => i = j
    BY DEF Apart, RegistryCore
  <2> QED BY <2>1, <2>2 DEF Apart, RegistryCore
<1>2. \A j \in Callers : Owns(j)' => j # c /\ Owns(j) /\ caller'[j].title = caller[j].title
  BY <1>0 DEF Owns
<1>3. \A j \in Callers : caller'[j].at = "robot" => caller[j].at = "robot"
  BY <1>0 DEF Owns
<1>4. InForce \subseteq DOMAIN credentials
  BY DEF InForce
<1>5. Owned'
  BY <1>2, <1>3, <1>4, OwnedStays DEF RegistryCore
<1>6. \A r : Attended(r) => Attended(r)'
  BY <1>0 DEF Attended, Revokes
<1>7. \A j \in Callers : Has(j)' => j # c /\ Has(j) /\ caller'[j] = caller[j] /\ MadeOf(j)
  BY <1>0, MadeIsOfEach DEF Has, Owns, RegistryCore
<1> QED BY <1>1, <1>5, <1>6, <1>7

LEMMA RevokeRobotStays ==
  ASSUME RegistryTypeOK, RegistryCore, NEW c \in Callers, RevokeRobot(c)
  PROVE  RegistryCore'
<1> DEFINE x == caller[c].row
           n == credentials[x].robot
<1>1. /\ caller[c].at = "revoke robot" /\ UNCHANGED <<projects, minted, secret>>
      /\ \/ robots' = {r \in robots : r.id # n} /\ spills' = spills
         \/ robots' = robots /\ spills' = spills + 1
  BY DEF RevokeRobot, Well, Spill
<1>2. /\ caller'[c].at \in {"revoke secret", "mark"} /\ caller'[c].row = x
      /\ \A j \in Callers : j # c => caller'[j] = caller[j]
  BY WentTo DEF RevokeRobot, Stations, Others
<1>3. x \in DOMAIN credentials /\ Revokes(c)
  BY <1>1 DEF Marked, Revokes, RegistryCore
<1>4. /\ DOMAIN credentials' = DOMAIN credentials
      /\ \A i \in DOMAIN credentials :
            /\ credentials'[i].title = credentials[i].title
            /\ credentials'[i].robot = credentials[i].robot
            /\ credentials'[i].revoked = credentials[i].revoked
            /\ (i # x => credentials'[i] = credentials[i])
            /\ (credentials[i].undone => credentials'[i].undone)
      /\ credentials'[x].undone
  <2>1. credentials' = [credentials EXCEPT ![x] = [credentials[x] EXCEPT !.undone = TRUE]]
    BY DEF RevokeRobot
  <2>2. credentials[x] \in CredentialRows /\ DOMAIN credentials = 1 .. Len(credentials)
    BY <1>3 DEF RegistryTypeOK
  <2> DEFINE new == [credentials[x] EXCEPT !.undone = TRUE]
  <2>3. new.title = credentials[x].title /\ new.robot = credentials[x].robot
        /\ new.revoked = credentials[x].revoked /\ new.undone
    BY <2>2 DEF CredentialRows
  <2> HIDE DEF x, new
  <2>4. /\ DOMAIN credentials' = DOMAIN credentials
        /\ \A i \in DOMAIN credentials : credentials'[i] = IF i = x THEN new ELSE credentials[i]
    BY <2>1 DEF new
  <2> QED BY <1>3, <2>3, <2>4
<1>5. InForce' = InForce
  BY <1>4 DEF InForce
<1>6. robots' \subseteq robots /\ ~Owns(c)' /\ Others(c)
  BY <1>1, <1>2 DEF Owns, Others
<1>7. /\ Apart' /\ Owned'
      /\ \A r : Attended(r) => Attended(r)'
      /\ \A j \in Callers : Has(j)' => j # c /\ Has(j) /\ caller'[j] = caller[j] /\ MadeOf(j)
  BY <1>1, <1>3, <1>4, <1>5, <1>6, RevokingKeeps
<1> HIDE DEF x, n
<1>8. Made'
  <2>1. ASSUME NEW j \in Callers, Has(j)' PROVE MadeOf(j)'
    <3>1. Has(j) /\ caller'[j] = caller[j] /\ MadeOf(j)
      BY <1>7, <2>1
    <3>2. caller[j].at \in {"secret", "store"} =>
             [id |-> caller[j].robot, title |-> caller[j].title] \in robots'
      <4> DEFINE r == [id |-> caller[j].robot, title |-> caller[j].title]
      <4>1. caller[j].at \in {"secret", "store"} => r \in robots /\ caller[j].robot # n
        BY <1>3, <3>1 DEF MadeOf, n
      <4>2. r.id = caller[j].robot
        OBVIOUS
      <4> QED BY <1>1, <4>1, <4>2
    <3> QED BY <1>1, <1>4, <1>6, <3>1, <3>2 DEF MadeOf, Has
  <2> QED BY <2>1, MadeOfNone, MadeAfter
<1>9. Marked'
  <2>1. \A j \in Callers : j # c =>
           /\ Revokes(j)' => caller[j].row \in DOMAIN credentials'
           /\ caller[j].at \in {"revoke secret", "mark"} => credentials'[caller[j].row].undone
    BY <1>2, <1>4 DEF Marked, Revokes, RegistryCore
  <2> QED BY <1>2, <1>3, <1>4, <2>1 DEF Marked
<1>10. RowsWork'
  <2>1. ASSUME NEW i \in InForce, ~credentials'[i].undone
        PROVE  [id |-> credentials[i].robot, title |-> credentials[i].title] \in robots'
    <3> DEFINE r == [id |-> credentials[i].robot, title |-> credentials[i].title]
    <3>1. i \in DOMAIN credentials /\ i # x /\ ~credentials[i].undone
      BY <1>4, <2>1 DEF InForce
    <3>2. r \in robots
      BY <2>1, <3>1 DEF RowsWork, RegistryCore
    <3>3. r.id # n
      BY <1>3, <3>1 DEF Apart, RegistryCore, n
    <3> QED BY <1>1, <3>2, <3>3
  <2>2. ASSUME NEW i \in InForce, ~credentials'[i].undone
        PROVE  /\ credentials'[i].title = credentials[i].title
               /\ credentials'[i].robot = credentials[i].robot
               /\ credentials[i].title \in projects
               /\ Direct => secret[credentials[i].title] = credentials[i].robot
    <3>1. i \in DOMAIN credentials /\ ~credentials[i].undone
      BY <1>4, <2>2 DEF InForce
    <3> QED BY <1>4, <3>1 DEF RowsWork, RegistryCore
  <2> QED BY <1>1, <1>5, <2>1, <2>2 DEF RowsWork
<1>11. ASSUME NEW r \in robots, r \in Loose', r.id # n PROVE r \in Loose
  <2>1. \A i \in DOMAIN credentials : credentials[i].robot = r.id => credentials'[i] = credentials[i]
    BY <1>4, <1>11 DEF n
  <2> QED BY <1>4, <1>7, <1>11, <2>1 DEF Loose
<1>12. LooseExcused'
  <2>1. CASE robots' = {r \in robots : r.id # n} /\ spills' = spills
    <3>1. Loose' \subseteq Loose
      BY <1>11, <2>1 DEF Loose
    <3> QED BY <2>1, <3>1, LooseKept DEF RegistryCore
  <2>2. CASE robots' = robots /\ spills' = spills + 1
    <3> DEFINE y == CHOOSE r \in robots : r.id = n
    <3>1. \A r \in robots : r.id = n => r = y
      BY DEF Apart, RegistryCore
    <3> HIDE DEF y
    <3>2. \A r \in Loose' : r \in robots
      BY <2>2 DEF Loose
    <3>3. Loose' \subseteq Loose \union {y}
      BY <1>11, <3>1, <3>2
    <3> QED BY <2>2, <3>3, LooseByOne DEF RegistryCore
  <2> QED BY <1>1, <2>1, <2>2
<1> QED BY <1>7, <1>8, <1>9, <1>10, <1>12 DEF RegistryCore

LEMMA RevokeSecretStays ==
  ASSUME RegistryTypeOK, RegistryCore, NEW c \in Callers, RevokeSecret(c)
  PROVE  RegistryCore'
<1> DEFINE x == caller[c].row
           t == credentials[x].title
<1>1. /\ caller[c].at = "revoke secret" /\ UNCHANGED <<projects, robots, minted, credentials>>
      /\ secret' \in {secret, [secret EXCEPT ![t] = 0]} /\ spills' = spills
  BY DEF RevokeSecret, Harbor, Well, Mishap
<1>2. /\ caller'[c].at = "mark" /\ caller'[c].row = x
      /\ \A j \in Callers : j # c => caller'[j] = caller[j]
  BY WentTo DEF RevokeSecret, Stations, Others
<1>3. x \in DOMAIN credentials /\ Revokes(c) /\ credentials[x].undone
  BY <1>1 DEF Marked, Revokes, RegistryCore
<1>4. InForce' = InForce
  BY <1>1 DEF InForce
<1>5. ~Owns(c)' /\ Others(c)
  BY <1>2 DEF Owns, Others
<1>6. /\ Apart' /\ Owned'
      /\ \A r : Attended(r) => Attended(r)'
      /\ \A j \in Callers : Has(j)' => j # c /\ Has(j) /\ caller'[j] = caller[j] /\ MadeOf(j)
  BY <1>1, <1>3, <1>4, <1>5, RevokingKeeps
<1>7. \A s \in Titles : s # t => secret'[s] = secret[s]
  BY <1>1 DEF RegistryTypeOK
<1> HIDE DEF x, t
<1>8. Made'
  <2>1. ASSUME NEW j \in Callers, Has(j)' PROVE MadeOf(j)'
    <3>1. Has(j) /\ caller'[j] = caller[j] /\ MadeOf(j)
      BY <1>6, <2>1
    <3>2. caller[j].title \in Titles
      BY <3>1 DEF Has, Titled, RegistryTypeOK
    <3>3. caller[j].title = t => \E i \in DOMAIN credentials : credentials[i].title = caller[j].title
      BY <1>3 DEF t
    <3> QED BY <1>1, <1>7, <3>1, <3>2, <3>3 DEF MadeOf, Has
  <2> QED BY <2>1, MadeOfNone, MadeAfter
<1>9. Marked'
  BY <1>1, <1>2, <1>3 DEF Marked, Revokes, RegistryCore
<1>10. RowsWork'
  <2>1. ASSUME NEW i \in InForce, ~credentials[i].undone
        PROVE  secret'[credentials[i].title] = secret[credentials[i].title]
    <3>1. i \in DOMAIN credentials /\ i # x
      BY <1>3, <2>1 DEF InForce
    <3>2. credentials[i].title # t
      BY <1>3, <3>1 DEF Apart, RegistryCore, t
    <3>3. credentials[i] \in CredentialRows
      BY <3>1 DEF RegistryTypeOK
    <3>4. credentials[i].title \in Titles
      BY <3>3 DEF CredentialRows
    <3> QED BY <1>7, <3>2, <3>4
  <2> QED BY <1>1, <1>4, <2>1 DEF RowsWork, RegistryCore
<1>11. LooseExcused'
  <2>1. Loose' \subseteq Loose
    BY <1>1, <1>6 DEF Loose
  <2> QED BY <1>1, <2>1, LooseKept DEF RegistryCore
<1> QED BY <1>6, <1>8, <1>9, <1>10, <1>11 DEF RegistryCore

LEMMA MarkRevokedStays ==
  ASSUME RegistryTypeOK, RegistryCore, NEW c \in Callers, MarkRevoked(c)
  PROVE  RegistryCore'
<1> DEFINE x == caller[c].row
<1>1. /\ caller[c].at = "mark" /\ UNCHANGED <<projects, robots, minted, secret>>
      /\ spills' = spills
  BY DEF MarkRevoked, Harbor, Well, Mishap
<1>2. /\ caller'[c].at = "away"
      /\ \A j \in Callers : j # c => caller'[j] = caller[j]
  BY WentAway DEF MarkRevoked, Others
<1>3. x \in DOMAIN credentials /\ Revokes(c) /\ credentials[x].undone /\ x # 0
  <2>1. x \in DOMAIN credentials /\ Revokes(c) /\ credentials[x].undone
    BY <1>1 DEF Marked, Revokes, RegistryCore
  <2>2. 0 \notin DOMAIN credentials
    BY DEF RegistryTypeOK
  <2> QED BY <2>1, <2>2
<1>4. /\ DOMAIN credentials' = DOMAIN credentials
      /\ \A i \in DOMAIN credentials :
            /\ credentials'[i].title = credentials[i].title
            /\ credentials'[i].robot = credentials[i].robot
            /\ credentials'[i].undone = credentials[i].undone
            /\ credentials'[i].revoked = credentials[i].revoked \/ credentials'[i].revoked = x
  <2>1. CASE credentials' = credentials
    BY <2>1
  <2>2. CASE credentials' = [i \in DOMAIN credentials |->
                               IF i \in InForce
                               THEN [credentials[i] EXCEPT !.revoked = x]
                               ELSE credentials[i]]
    <3>1. ASSUME NEW i \in DOMAIN credentials
          PROVE  /\ credentials'[i].title = credentials[i].title
                 /\ credentials'[i].robot = credentials[i].robot
                 /\ credentials'[i].undone = credentials[i].undone
                 /\ credentials'[i].revoked = credentials[i].revoked \/ credentials'[i].revoked = x
      <4>1. credentials[i] \in CredentialRows
        BY DEF RegistryTypeOK
      <4> DEFINE new == [credentials[i] EXCEPT !.revoked = x]
      <4>2. new.title = credentials[i].title /\ new.robot = credentials[i].robot
            /\ new.undone = credentials[i].undone /\ new.revoked = x
        BY <4>1 DEF CredentialRows
      <4>3. credentials'[i] \in {credentials[i], new}
        BY <2>2
      <4> HIDE DEF new
      <4> QED BY <4>2, <4>3
    <3> QED BY <2>2, <3>1
  <2> QED BY <2>1, <2>2 DEF MarkRevoked
<1>5. InForce' \subseteq InForce
  BY <1>3, <1>4 DEF InForce
<1>6. ~Owns(c)' /\ Others(c)
  BY <1>2 DEF Owns, Others
<1>7. /\ Apart' /\ Owned'
      /\ \A r : Attended(r) => Attended(r)'
      /\ \A j \in Callers : Has(j)' => j # c /\ Has(j) /\ caller'[j] = caller[j] /\ MadeOf(j)
  BY <1>1, <1>3, <1>4, <1>5, <1>6, RevokingKeeps
<1> HIDE DEF x
<1>8. Made'
  <2>1. ASSUME NEW j \in Callers, Has(j)' PROVE MadeOf(j)'
    <3>1. Has(j) /\ caller'[j] = caller[j] /\ MadeOf(j)
      BY <1>7, <2>1
    <3>2. /\ DOMAIN credentials' = DOMAIN credentials
          /\ \A i \in DOMAIN credentials :
                /\ credentials'[i].title = credentials[i].title
                /\ credentials'[i].robot = credentials[i].robot
                /\ credentials'[i].undone = credentials[i].undone
      BY <1>4
    <3>3. (\E i \in DOMAIN credentials : credentials[i].title = caller[j].title)
          => \E i \in DOMAIN credentials' : credentials'[i].title = caller[j].title
      BY <3>2
    <3> QED BY <1>1, <3>1, <3>2, <3>3 DEF MadeOf, Has
  <2> QED BY <2>1, MadeOfNone, MadeAfter
<1>9. Marked'
  BY <1>2, <1>4 DEF Marked, Revokes, RegistryCore
<1>10. RowsWork'
  <2>1. \A i \in InForce : i \in DOMAIN credentials
    BY DEF InForce
  <2> QED BY <1>1, <1>4, <1>5, <2>1 DEF RowsWork, RegistryCore
<1>11. LooseExcused'
  <2>1. \A i \in DOMAIN credentials : credentials'[i].revoked = i =>
           credentials[i].revoked = i \/ credentials[i].undone
    BY <1>3, <1>4
  <2>2. Loose' \subseteq Loose
    BY <1>1, <1>4, <1>7, <2>1 DEF Loose
  <2> QED BY <1>1, <2>2, LooseKept DEF RegistryCore
<1> QED BY <1>7, <1>8, <1>9, <1>10, <1>11 DEF RegistryCore

\* A call that is cut short leaves the one robot it has attended to.
LEMMA CrashStays ==
  ASSUME RegistryAssumption, RegistryTypeOK, RegistryCore, Crash
  PROVE  RegistryCore'
<1> DEFINE Busy == {c \in Callers : caller[c] # Away}
           Left == {r \in robots : Attended(r)}
<1>1. /\ UNCHANGED <<projects, robots, minted, secret, credentials>>
      /\ spills' = spills + Cardinality(Busy)
      /\ \A c \in Callers : caller'[c].at = "away"
  BY AwayWell DEF Crash, Harbor
<1>2. InForce' = InForce
  BY <1>1 DEF InForce
<1>3. Apart' /\ Owned' /\ Made' /\ Marked' /\ RowsWork'
  <2>1. Apart'
    BY <1>1 DEF Apart, RegistryCore
  <2>2. Owned'
    BY <1>1 DEF Owned, Owns
  <2>3. Made'
    BY <1>1, MadeOfNone, MadeAfter DEF Has
  <2>4. Marked'
    BY <1>1 DEF Marked, Revokes
  <2>5. RowsWork'
    BY <1>1, <1>2 DEF RowsWork, RegistryCore
  <2> QED BY <2>1, <2>2, <2>3, <2>4, <2>5
<1>4. IsFiniteSet(Busy) /\ Cardinality(Busy) \in Nat
  BY FS_Subset, FS_CardinalityType DEF RegistryAssumption
<1>5. IsFiniteSet(Left) /\ Cardinality(Left) <= Cardinality(Busy)
  <2> DEFINE By(r, c) == \/ caller[c].robot = r.id /\ Has(c)
                         \/ caller[c].title = r.title /\ caller[c].at = "drop project"
             f == [r \in Left |-> CHOOSE c \in Callers : By(r, c)]
  <2>1. \A r \in Left : \E c \in Callers : By(r, c)
    BY DEF Attended, Has
  <2>2. \A c \in Callers : \A r, q \in Left : By(r, c) /\ By(q, c) => r = q
    BY DEF Apart, RegistryCore, Has
  <2>3. \A c \in Callers, r \in Left : By(r, c) => c \in Busy
    BY AwayWell DEF Has
  <2> HIDE DEF By, Left, Busy
  <2>4. \A r \in Left : f[r] \in Callers /\ By(r, f[r])
    BY <2>1
  <2>5. f \in [Left -> Busy]
    BY <2>3, <2>4
  <2>6. \A r, q \in Left : f[r] = f[q] => r = q
    BY <2>2, <2>4
  <2> HIDE DEF f
  <2>7. f \in Injection(Left, Busy)
    BY <2>5, <2>6 DEF Injection, IsInjective
  <2> QED BY <1>4, <2>7, FS_Injection
<1>6. Loose' \subseteq Loose \union Left
  BY <1>1 DEF Loose
<1>7. LooseExcused'
  <2> HIDE DEF Left, Busy
  <2>1. IsFiniteSet(Loose)
    BY FS_Subset DEF Loose, RegistryTypeOK
  <2>2. /\ IsFiniteSet(Loose \union Left)
        /\ Cardinality(Loose \union Left)
             = Cardinality(Loose) + Cardinality(Left) - Cardinality(Loose \intersect Left)
        /\ Cardinality(Loose) \in Nat /\ Cardinality(Left) \in Nat
    BY <1>5, <2>1, FS_Union, FS_CardinalityType
  <2>3. Cardinality(Loose \intersect Left) \in Nat
    BY <2>1, FS_Intersection, FS_CardinalityType
  <2>4. Cardinality(Loose') <= Cardinality(Loose \union Left) /\ Cardinality(Loose') \in Nat
        /\ Cardinality(Loose \union Left) \in Nat
    BY <1>6, <2>2, FS_Subset, FS_CardinalityType
  <2>5. spills \in Nat
    BY DEF RegistryTypeOK
  <2>6. Cardinality(Loose) <= spills
    BY DEF RegistryCore, LooseExcused
  <2>7. Cardinality(Loose') <= spills'
    BY <1>1, <1>4, <1>5, <2>2, <2>3, <2>4, <2>5, <2>6
  <2> QED BY <2>7 DEF LooseExcused
<1> QED BY <1>3, <1>7 DEF RegistryCore

LEMMA ElsewhereStays ==
  ASSUME RegistryCore, UNCHANGED <<projects, robots, minted, secret, credentials, caller, spills>>
  PROVE  RegistryCore'
<1>1. Apart'
  BY DEF Apart, RegistryCore
<1>2. InForce' = InForce
  BY DEF InForce
<1>3. Owned'
  BY <1>2 DEF Owned, Owns, RegistryCore
<1>4. Made'
  BY MadeOfUntouched, MadeAfter DEF RegistryCore
<1>5. Marked'
  BY DEF Marked, Revokes, RegistryCore
<1>6. RowsWork'
  BY <1>2 DEF RowsWork, RegistryCore
<1>7. LooseExcused'
  <2>1. Loose' = Loose
    BY DEF Loose, Attended
  <2> QED BY <2>1 DEF LooseExcused, RegistryCore
<1> QED BY <1>1, <1>3, <1>4, <1>5, <1>6, <1>7 DEF RegistryCore

LEMMA CountersTyped ==
  ASSUME RegistryTypeOK, Begins \/ Well \/ Mishap \/ Spill
  PROVE  begun' \in Nat /\ mishaps' \in Nat /\ spills' \in Nat
BY DEF RegistryTypeOK, Begins, Well, Mishap, Spill

LEMMA TypedAgain ==
  ASSUME RegistryTypeOK, CallerTypeOK', title' = title,
         projects' \in SUBSET Titles, robots' \in SUBSET Robots, IsFiniteSet(robots'),
         minted' \in Nat, secret' \in [Titles -> Nat], credentials' \in Seq(CredentialRows),
         kaniko' \in Pods \union {NoPod}, images' = images,
         begun' \in Nat, mishaps' \in Nat, spills' \in Nat
  PROVE  RegistryTypeOK'
BY DEF RegistryTypeOK, CallerTypeOK, Ticket

LEMMA ReadingTyped ==
  ASSUME RegistryTypeOK, NEW c \in Callers,
         \/ Provision(c) \/ GetRegistryCredentials(c) \/ GetProject(c) \/ Revoke(c) \/ FindRow(c)
         \/ DockerConfigJSONForBuild(c)
  PROVE  RegistryTypeOK'
<1>1. CallerTypeOK'
  BY QuietReading
<1>2. UNCHANGED <<title, projects, robots, minted, secret, credentials, kaniko, images>>
  BY DEF Provision, GetRegistryCredentials, GetProject, Revoke, FindRow,
         DockerConfigJSONForBuild, Harbor, Builder
<1>3. Begins \/ Well \/ Mishap
  BY DEF Provision, GetRegistryCredentials, GetProject, Revoke, FindRow, DockerConfigJSONForBuild
<1>4. begun' \in Nat /\ mishaps' \in Nat /\ spills' \in Nat
  BY <1>3, CountersTyped
<1> QED BY <1>1, <1>2, <1>4, TypedAgain DEF RegistryTypeOK

LEMMA HarborTyped ==
  ASSUME RegistryTypeOK, NEW c \in Callers,
         CreateProject(c) \/ CreateRobotAccount(c) \/ DeleteRobotAccount(c) \/ DeleteProject(c)
  PROVE  RegistryTypeOK'
<1>1. caller[c].at \in Titled /\ caller[c].title \in Titles /\ caller[c] \in Ticket
  BY TicketOf DEF RegistryTypeOK, Titled, CreateProject, CreateRobotAccount, DeleteRobotAccount,
                  DeleteProject
<1>2. /\ UNCHANGED <<title, secret, credentials, kaniko, images>>
      /\ Well \/ Mishap \/ Spill
  BY DEF CreateProject, CreateRobotAccount, DeleteRobotAccount, DeleteProject, Builder
<1>3. begun' \in Nat /\ mishaps' \in Nat /\ spills' \in Nat
  BY <1>2, CountersTyped
<1>4. CallerTypeOK'
  <2>1. ASSUME NEW at \in Stations, GoTo(c, at) PROVE CallerTypeOK'
    BY <1>1, <2>1, ToStation
  <2>2. ASSUME caller' = [caller EXCEPT ![c].at = IF Direct THEN "secret" ELSE "store",
                                        ![c].robot = minted'],
               minted' \in Nat
        PROVE  CallerTypeOK'
    <3> DEFINE k == [caller[c] EXCEPT !.at = IF Direct THEN "secret" ELSE "store", !.robot = minted']
    <3>1. caller' = [caller EXCEPT ![c] = k]
      BY <2>2
    <3>2. k \in Ticket /\ k.title = caller[c].title
      BY <1>1, <2>2 DEF Ticket, Stations
    <3> HIDE DEF k
    <3> QED BY <1>1, <3>1, <3>2, MovesTyped DEF CallerTypeOK
  <2>3. CASE CreateProject(c)
    BY <2>1, <2>3, ToAway DEF CreateProject, Stations
  <2>4. CASE CreateRobotAccount(c)
    <3>1. minted + 1 \in Nat
      BY DEF RegistryTypeOK
    <3> QED BY <2>1, <2>2, <2>4, <3>1 DEF CreateRobotAccount, Stations
  <2>5. CASE DeleteRobotAccount(c)
    BY <2>1, <2>5 DEF DeleteRobotAccount, Stations
  <2>6. CASE DeleteProject(c)
    BY <2>6, ToAway DEF DeleteProject
  <2> QED BY <2>3, <2>4, <2>5, <2>6
<1>5. projects' \in SUBSET Titles
  BY <1>1 DEF CreateProject, CreateRobotAccount, DeleteRobotAccount, DeleteProject, RegistryTypeOK
<1>6. minted' \in Nat
  <2>1. minted' \in {minted, minted + 1}
    BY DEF CreateProject, CreateRobotAccount, DeleteRobotAccount, DeleteProject
  <2> QED BY <2>1 DEF RegistryTypeOK
<1>7. robots' \in SUBSET Robots /\ IsFiniteSet(robots')
  <2>1. robots \in SUBSET Robots /\ IsFiniteSet(robots)
    BY DEF RegistryTypeOK
  <2>2. CASE robots' \subseteq robots
    BY <2>1, <2>2, FS_Subset
  <2>3. CASE minted' = minted + 1 /\ robots' = robots \union {[id |-> minted', title |-> caller[c].title]}
    <3> DEFINE new == [id |-> minted', title |-> caller[c].title]
    <3>1. new \in Robots
      BY <1>1, <1>6 DEF Robots
    <3> HIDE DEF new
    <3>2. robots' = robots \union {new}
      BY <2>3 DEF new
    <3>3. IsFiniteSet(robots')
      BY <2>1, <3>2, FS_AddElement
    <3> QED BY <2>1, <3>1, <3>2, <3>3
  <2> QED BY <2>2, <2>3 DEF CreateProject, CreateRobotAccount, DeleteRobotAccount, DeleteProject
<1> QED BY <1>2, <1>3, <1>4, <1>5, <1>6, <1>7, TypedAgain DEF RegistryTypeOK

LEMMA SecretTyped ==
  ASSUME RegistryTypeOK, Marked, NEW c \in Callers, CreateImagePullSecret(c) \/ RevokeSecret(c)
  PROVE  RegistryTypeOK'
<1>1. caller[c] \in Ticket /\ (caller[c].at \in Titled => caller[c].title \in Titles)
  BY TicketOf DEF RegistryTypeOK
<1>2. /\ UNCHANGED <<title, projects, robots, minted, credentials, kaniko, images>>
      /\ Well \/ Mishap
  BY DEF CreateImagePullSecret, RevokeSecret, Harbor, Builder
<1>3. begun' \in Nat /\ mishaps' \in Nat /\ spills' \in Nat
  BY <1>2, CountersTyped
<1>4. CallerTypeOK'
  <2>1. CASE CreateImagePullSecret(c)
    <3>1. caller[c].title \in Titles
      BY <1>1, <2>1 DEF CreateImagePullSecret, Titled
    <3>2. ASSUME NEW at \in Stations, GoTo(c, at) PROVE CallerTypeOK'
      BY <3>1, <3>2, ToStation
    <3> QED BY <2>1, <3>2 DEF CreateImagePullSecret, Stations
  <2>2. CASE RevokeSecret(c)
    BY <2>2, ToStation DEF RevokeSecret, Stations, Titled
  <2> QED BY <2>1, <2>2
<1>5. secret' \in [Titles -> Nat]
  <2>1. secret \in [Titles -> Nat] /\ caller[c].robot \in Nat
    BY <1>1 DEF Ticket, RegistryTypeOK
  <2>2. secret' = secret \/ \E t, n : secret' = [secret EXCEPT ![t] = n] /\ n \in Nat
    BY <2>1 DEF CreateImagePullSecret, RevokeSecret
  <2> QED BY <2>1, <2>2
<1> QED BY <1>2, <1>3, <1>4, <1>5, TypedAgain DEF RegistryTypeOK

LEMMA StoreTyped ==
  ASSUME RegistryTypeOK, NEW c \in Callers, StoreCredentials(c)
  PROVE  RegistryTypeOK'
<1>1. caller[c].title \in Titles /\ caller[c] \in Ticket
  BY TicketOf DEF RegistryTypeOK, Titled, StoreCredentials
<1>2. /\ UNCHANGED <<title, projects, robots, minted, secret, kaniko, images>>
      /\ Well \/ Mishap
  BY DEF StoreCredentials, Harbor, Builder
<1>3. begun' \in Nat /\ mishaps' \in Nat /\ spills' \in Nat
  BY <1>2, CountersTyped
<1>4. CallerTypeOK'
  <2>1. ASSUME StoreFails(c) PROVE CallerTypeOK'
    BY <1>1, <2>1, ToStation DEF StoreFails, Stations
  <2>2. ASSUME NEW t \in Titles, Provided(c, t) PROVE CallerTypeOK'
    <3>1. PICK k \in Ticket : /\ caller' = [caller EXCEPT ![c] = k]
                              /\ k.at \in {"config", "away"} /\ (k.at = "config" => k.title = t)
      BY <2>2, ProvidedTo
    <3>2. k.at \in Titled => k.title \in Titles
      BY <3>1 DEF Titled
    <3> QED BY <3>1, <3>2, MovesTyped DEF CallerTypeOK
  <2> QED BY <1>1, <2>1, <2>2 DEF StoreCredentials
<1>5. credentials' \in Seq(CredentialRows)
  <2>1. credentials \in Seq(CredentialRows) /\ caller[c].robot \in Nat
    BY <1>1 DEF RegistryTypeOK, Ticket
  <2>2. CredentialRow(c) \in CredentialRows
    BY <1>1, <2>1 DEF CredentialRow, CredentialRows
  <2>3. [CredentialRow(c) EXCEPT !.undone = TRUE] \in CredentialRows
    BY <2>2 DEF CredentialRows
  <2>4. credentials' = credentials \/ \E x \in CredentialRows : credentials' = Append(credentials, x)
    BY <2>2, <2>3 DEF StoreCredentials
  <2> QED BY <2>1, <2>4
<1> QED BY <1>2, <1>3, <1>4, <1>5, TypedAgain DEF RegistryTypeOK

LEMMA RevokingTyped ==
  ASSUME RegistryTypeOK, Marked, NEW c \in Callers, RevokeRobot(c) \/ MarkRevoked(c)
  PROVE  RegistryTypeOK'
<1>1. caller[c] \in Ticket /\ caller[c].row \in Nat /\ caller[c].row \in DOMAIN credentials
  BY TicketOf DEF Ticket, RevokeRobot, MarkRevoked, Marked, Revokes
<1>2. /\ UNCHANGED <<title, projects, minted, secret, kaniko, images>>
      /\ Well \/ Mishap \/ Spill
  BY DEF RevokeRobot, MarkRevoked, Harbor, Builder
<1>3. begun' \in Nat /\ mishaps' \in Nat /\ spills' \in Nat
  BY <1>2, CountersTyped
<1>4. CallerTypeOK'
  BY ToStation, ToAway DEF RevokeRobot, MarkRevoked, Stations, Titled
<1>5. robots' \in SUBSET Robots /\ IsFiniteSet(robots')
  <2>1. robots' \subseteq robots
    BY DEF RevokeRobot, MarkRevoked, Harbor
  <2> QED BY <2>1, FS_Subset DEF RegistryTypeOK
<1>6. credentials' \in Seq(CredentialRows)
  <2>1. credentials \in Seq(CredentialRows)
    BY DEF RegistryTypeOK
  <2>2. \A i \in DOMAIN credentials : credentials[i] \in CredentialRows
    BY <2>1
  <2>3. CASE RevokeRobot(c)
    <3> DEFINE x == caller[c].row
               new == [credentials[x] EXCEPT !.undone = TRUE]
    <3>1. new \in CredentialRows
      BY <1>1, <2>2 DEF CredentialRows
    <3>2. credentials' = [credentials EXCEPT ![x] = new]
      BY <2>3 DEF RevokeRobot
    <3> HIDE DEF new, x, CredentialRows
    <3>3. Len(credentials) \in Nat /\ DOMAIN credentials = 1 .. Len(credentials)
      BY <2>1
    <3>4. credentials' = [i \in 1 .. Len(credentials) |-> IF i = x THEN new ELSE credentials[i]]
      BY <3>2, <3>3
    <3>5. \A i \in 1 .. Len(credentials) : credentials'[i] \in CredentialRows
      BY <2>2, <3>1, <3>3, <3>4
    <3> QED BY <3>3, <3>4, <3>5
  <2>4. CASE credentials' = [i \in DOMAIN credentials |->
                               IF i \in InForce
                               THEN [credentials[i] EXCEPT !.revoked = caller[c].row]
                               ELSE credentials[i]]
    <3>1. \A i \in DOMAIN credentials : credentials'[i] \in CredentialRows
      <4> SUFFICES ASSUME NEW i \in DOMAIN credentials PROVE credentials'[i] \in CredentialRows
        OBVIOUS
      <4>1. [credentials[i] EXCEPT !.revoked = caller[c].row] \in CredentialRows
        BY <1>1, <2>2 DEF CredentialRows
      <4> QED BY <2>2, <2>4, <4>1
    <3>2. Len(credentials) \in Nat /\ DOMAIN credentials = 1 .. Len(credentials)
      BY <2>1
    <3>3. credentials' = [i \in 1 .. Len(credentials) |-> credentials'[i]]
      BY <2>4, <3>2
    <3> QED BY <3>1, <3>2, <3>3
  <2>5. MarkRevoked(c) => \/ credentials' = credentials
                          \/ credentials' = [i \in DOMAIN credentials |->
                               IF i \in InForce
                               THEN [credentials[i] EXCEPT !.revoked = caller[c].row]
                               ELSE credentials[i]]
    BY DEF MarkRevoked
  <2> QED BY <2>1, <2>3, <2>4, <2>5
<1> QED BY <1>2, <1>3, <1>4, <1>5, <1>6, TypedAgain DEF RegistryTypeOK

LEMMA BuildingTyped ==
  ASSUME RegistryTypeOK, NEW c \in Callers,
         CreateInstance(c) \/ WaitForCompletion(c) \/ DeleteInstance(c)
  PROVE  RegistryTypeOK'
<1>1. CallerTypeOK'
  BY QuietBuilding
<1>2. /\ UNCHANGED <<title, projects, robots, minted, secret, credentials, images>>
      /\ Well \/ Mishap \/ Spill
  BY DEF CreateInstance, WaitForCompletion, DeleteInstance, Harbor, Builder
<1>3. begun' \in Nat /\ mishaps' \in Nat /\ spills' \in Nat
  BY <1>2, CountersTyped
<1>4. kaniko' \in Pods \union {NoPod}
  <2>1. CASE CreateInstance(c)
    <3> DEFINE pod == [state |-> "running", by |-> c, title |-> caller[c].title,
                       robot |-> caller[c].robot]
    <3>1. caller[c].title \in Titles /\ caller[c].robot \in Nat
      <4>1. caller[c] \in Ticket /\ caller[c].at = "launch"
        BY <2>1, TicketOf DEF CreateInstance
      <4> QED BY <4>1 DEF Ticket, Titled, RegistryTypeOK
    <3>2. pod \in Pods
      BY <3>1 DEF Pods
    <3>3. kaniko' \in {kaniko, pod}
      BY <2>1 DEF CreateInstance
    <3> HIDE DEF pod
    <3> QED BY <3>2, <3>3 DEF RegistryTypeOK
  <2>2. CASE WaitForCompletion(c)
    BY <2>2 DEF WaitForCompletion, Builder, RegistryTypeOK
  <2>3. CASE DeleteInstance(c)
    BY <2>3 DEF DeleteInstance, RegistryTypeOK
  <2> QED BY <2>1, <2>2, <2>3
<1> QED BY <1>1, <1>2, <1>3, <1>4, TypedAgain DEF RegistryTypeOK

LEMMA PodHas ==
  ASSUME RegistryTypeOK, kaniko.state = "running"
  PROVE  kaniko \in Pods /\ kaniko # NoPod
BY DEF RegistryTypeOK, NoPod

LEMMA NoPodHas == NoPod \notin Pods /\ NoPod.state = "none"
BY DEF NoPod, Pods

LEMMA PushTyped ==
  ASSUME RegistryTypeOK, Push
  PROVE  RegistryTypeOK'
<1>1. UNCHANGED <<title, projects, robots, minted, secret, credentials, caller>> /\ Well
  BY DEF Push, Harbor
<1>2. begun' \in Nat /\ mishaps' \in Nat /\ spills' \in Nat
  BY <1>1, CountersTyped
<1>3. kaniko \in Pods
  BY PodHas DEF Push
<1>4. kaniko' \in Pods
  <2>1. \E s \in {"terminated", "failed"} : kaniko' = [kaniko EXCEPT !.state = s]
    BY DEF Push
  <2> QED BY <1>3, <2>1 DEF Pods
<1>5. images' \in [Titles -> Callers \union {"nobody"}]
  <2>1. kaniko.by \in Callers
    BY <1>3 DEF Pods
  <2>2. images' = images \/ images' = [images EXCEPT ![kaniko.title] = kaniko.by]
    BY DEF Push
  <2> QED BY <2>1, <2>2 DEF RegistryTypeOK
<1> QED BY <1>1, <1>2, <1>4, <1>5 DEF RegistryTypeOK

LEMMA CrashTyped ==
  ASSUME RegistryAssumption, RegistryTypeOK, Crash
  PROVE  RegistryTypeOK'
<1>1. UNCHANGED <<title, projects, robots, minted, secret, credentials, kaniko, images, begun>>
  BY DEF Crash, Harbor, Builder
<1>2. Cardinality({c \in Callers : caller[c] # Away}) \in Nat
  BY FS_Subset, FS_CardinalityType DEF RegistryAssumption
<1>3. mishaps' \in Nat /\ spills' \in Nat
  BY <1>2 DEF Crash, RegistryTypeOK
<1>4. CallerTypeOK'
  <2>1. caller' = [c \in Callers |-> Away]
    BY DEF Crash
  <2>2. Away.at \notin Titled
    BY DEF Away, Titled
  <2> QED BY <2>1, <2>2, AwayWell DEF CallerTypeOK
<1> QED BY <1>1, <1>3, <1>4, TypedAgain DEF RegistryTypeOK

LEMMA RenameTyped ==
  ASSUME RegistryAssumption, RegistryTypeOK, RenameProject
  PROVE  RegistryTypeOK'
<1>1. UNCHANGED <<projects, robots, minted, secret, credentials, caller, kaniko, images, begun,
                  mishaps, spills>>
  BY DEF RenameProject, Harbor, Builder
<1>2. title' \in Titles
  BY DEF RenameProject, RegistryTypeOK, RegistryAssumption, Titles
<1> QED BY <1>1, <1>2 DEF RegistryTypeOK

Waiting == {"wait", "clean up"}

\* A step of a caller that has no pod, and gets none.
NoneOfThePod(c) ==
  /\ UNCHANGED <<kaniko, images>> /\ Others(c)
  /\ caller[c].at \notin Waiting /\ caller'[c].at \notin Waiting
  /\ caller'[c].ok => caller[c].ok
  /\ spills' \in {spills, spills + 1}

LEMMA PodUntouched ==
  ASSUME RegistryTypeOK, PodKept, NEW c \in Callers, NoneOfThePod(c)
  PROVE  PodKept'
<1>1. /\ UNCHANGED <<kaniko, images>>
      /\ \A j \in Callers : j # c => caller'[j] = caller[j]
      /\ caller[c].at \notin {"wait", "clean up"} /\ caller'[c].at \notin {"wait", "clean up"}
      /\ ~caller'[c].ok
  BY DEF NoneOfThePod, Others, Waiting, PodKept
<1>2. \A j \in Callers : /\ caller'[j].at \in {"wait", "clean up"} => caller'[j] = caller[j]
                         /\ caller'[j].ok => caller'[j] = caller[j]
                         /\ caller[j].at \in {"wait", "clean up"} => caller'[j] = caller[j]
  BY <1>1
<1>3. spills > 0 => spills' > 0
  BY DEF NoneOfThePod, RegistryTypeOK
<1>4. kaniko # NoPod => kaniko.by \in Callers
  BY DEF RegistryTypeOK, Pods
<1>5. \A j \in Callers : caller'[j].at \in {"wait", "clean up"} =>
        kaniko # NoPod /\ kaniko.by = j /\ kaniko.title = caller'[j].title
  BY <1>2 DEF PodKept
<1>6. \A j \in Callers : caller'[j].ok => caller'[j].at = "clean up" /\ kaniko.state = "terminated"
  BY <1>2 DEF PodKept
<1>7. kaniko # NoPod => spills' > 0 \/ caller'[kaniko.by].at \in {"wait", "clean up"}
  BY <1>2, <1>3, <1>4 DEF PodKept
<1> QED BY <1>1, <1>5, <1>6, <1>7 DEF PodKept

LEMMA ToNoPod ==
  ASSUME RegistryTypeOK, NEW c \in Callers, NEW at \in Stations, GoTo(c, at), at \notin Waiting,
         caller[c].at \notin Waiting, UNCHANGED <<kaniko, images>>, Well \/ Mishap \/ Begins \/ Spill
  PROVE  NoneOfThePod(c)
BY WentTo DEF NoneOfThePod, Well, Mishap, Begins, Spill

LEMMA AwayFromNoPod ==
  ASSUME RegistryTypeOK, NEW c \in Callers, Leave(c), caller[c].at \notin Waiting,
         UNCHANGED <<kaniko, images>>, Well \/ Mishap \/ Spill
  PROVE  NoneOfThePod(c)
BY WentAway DEF NoneOfThePod, Well, Mishap, Spill, Waiting

LEMMA ProvidedNoPod ==
  ASSUME RegistryTypeOK, NEW c \in Callers, NEW t \in Titles, Provided(c, t),
         caller[c].at \notin Waiting, UNCHANGED <<kaniko, images>>, Well
  PROVE  NoneOfThePod(c)
BY ProvidedTo DEF NoneOfThePod, Well, Waiting, Moves, Others

LEMMA OnTheWayNoPod ==
  ASSUME RegistryTypeOK, NEW c \in Callers, NEW k \in Ticket, caller' = [caller EXCEPT ![c] = k],
         k.ok = caller[c].ok, k.at \notin Waiting, caller[c].at \notin Waiting,
         UNCHANGED <<kaniko, images>>, Well \/ Begins
  PROVE  NoneOfThePod(c)
BY MovesTo DEF NoneOfThePod, Well, Begins, Moves, Others

LEMMA ProvisioningNoPod ==
  ASSUME RegistryTypeOK, NEW c \in Callers,
         \/ CreateProject(c) \/ CreateRobotAccount(c) \/ CreateImagePullSecret(c)
         \/ StoreCredentials(c) \/ DeleteRobotAccount(c) \/ DeleteProject(c)
         \/ Revoke(c) \/ RevokeRobot(c) \/ RevokeSecret(c) \/ MarkRevoked(c)
  PROVE  NoneOfThePod(c)
<1>1. /\ UNCHANGED <<kaniko, images>> /\ caller[c].at \notin Waiting
      /\ Well \/ Mishap \/ Begins \/ Spill
  BY AwayWell DEF CreateProject, CreateRobotAccount, CreateImagePullSecret, StoreCredentials,
     DeleteRobotAccount, DeleteProject, Revoke, RevokeRobot, RevokeSecret, MarkRevoked, Builder, Waiting
<1>2. ASSUME NEW at \in Stations, at \notin Waiting, GoTo(c, at) PROVE NoneOfThePod(c)
  BY <1>1, <1>2, ToNoPod
<1>3. ASSUME Leave(c), Well \/ Mishap \/ Spill PROVE NoneOfThePod(c)
  BY <1>1, <1>3, AwayFromNoPod
<1>4. CASE CreateProject(c)
  BY <1>2, <1>3, <1>4 DEF CreateProject, Stations, Waiting
<1>5. CASE CreateRobotAccount(c)
  <2>1. ASSUME caller' = [caller EXCEPT ![c].at = IF Direct THEN "secret" ELSE "store",
                                        ![c].robot = minted'],
               minted' = minted + 1, Well
        PROVE  NoneOfThePod(c)
    <3> DEFINE k == [caller[c] EXCEPT !.at = IF Direct THEN "secret" ELSE "store", !.robot = minted']
    <3>1. caller' = [caller EXCEPT ![c] = k]
      BY <2>1
    <3>2. minted' \in Nat
      BY <2>1 DEF RegistryTypeOK
    <3>3. k \in Ticket /\ k.ok = caller[c].ok /\ k.at \notin Waiting
      BY <3>2, TicketOf DEF Ticket, Stations, Waiting
    <3> HIDE DEF k
    <3> QED BY <1>1, <2>1, <3>1, <3>3, OnTheWayNoPod
  <2> QED BY <1>2, <1>5, <2>1 DEF CreateRobotAccount, Stations, Waiting
<1>6. CASE CreateImagePullSecret(c)
  BY <1>2, <1>6 DEF CreateImagePullSecret, Stations, Waiting
<1>7. CASE StoreCredentials(c)
  <2>1. caller[c].title \in Titles
    BY <1>7 DEF StoreCredentials, RegistryTypeOK, Titled
  <2>2. ASSUME Provided(c, caller[c].title), Well PROVE NoneOfThePod(c)
    BY <1>1, <2>1, <2>2, ProvidedNoPod
  <2>3. ASSUME StoreFails(c) PROVE NoneOfThePod(c)
    BY <1>2, <2>3 DEF StoreFails, Stations, Waiting
  <2> QED BY <1>7, <2>2, <2>3 DEF StoreCredentials
<1>8. CASE DeleteRobotAccount(c)
  BY <1>2, <1>8 DEF DeleteRobotAccount, Stations, Waiting
<1>9. CASE DeleteProject(c)
  BY <1>3, <1>9 DEF DeleteProject
<1>10. CASE Revoke(c)
  BY <1>2, <1>10 DEF Revoke, Stations, Waiting
<1>11. CASE RevokeRobot(c)
  BY <1>2, <1>11 DEF RevokeRobot, Stations, Waiting
<1>12. CASE RevokeSecret(c)
  BY <1>2, <1>12 DEF RevokeSecret, Stations, Waiting
<1>13. CASE MarkRevoked(c)
  BY <1>3, <1>13 DEF MarkRevoked
<1> QED BY <1>4, <1>5, <1>6, <1>7, <1>8, <1>9, <1>10, <1>11, <1>12, <1>13

LEMMA ReadingNoPod ==
  ASSUME RegistryTypeOK, NEW c \in Callers,
         \/ Provision(c) \/ GetRegistryCredentials(c) \/ GetProject(c) \/ FindRow(c)
         \/ DockerConfigJSONForBuild(c)
  PROVE  NoneOfThePod(c)
<1>1. /\ UNCHANGED <<kaniko, images>> /\ caller[c].at \notin Waiting
      /\ Well \/ Mishap \/ Begins \/ Spill
  BY AwayWell DEF Provision, GetRegistryCredentials, GetProject, FindRow,
                  DockerConfigJSONForBuild, Builder, Waiting
<1>t. caller[c] \in Ticket
  BY TicketOf
<1>2. ASSUME NEW at \in Stations, at \notin Waiting, GoTo(c, at) PROVE NoneOfThePod(c)
  BY <1>1, <1>2, ToNoPod
<1>3. ASSUME Leave(c), Well \/ Mishap \/ Spill PROVE NoneOfThePod(c)
  BY <1>1, <1>3, AwayFromNoPod
<1>r. \A i \in InForce : i \in Nat /\ credentials[i].robot \in Nat
  <2> SUFFICES ASSUME NEW i \in InForce PROVE i \in Nat /\ credentials[i].robot \in Nat
    OBVIOUS
  <2>1. i \in Nat /\ credentials[i] \in CredentialRows
    BY DEF InForce, RegistryTypeOK
  <2> QED BY <2>1 DEF CredentialRows
<1>4. CASE Provision(c)
  <2>1. PICK b \in BOOLEAN :
          caller' = [caller EXCEPT ![c].at = "read", ![c].builds = b, ![c].title = title]
    BY <1>4 DEF Provision
  <2> DEFINE k == [caller[c] EXCEPT !.at = "read", !.builds = b, !.title = title]
  <2>2. caller' = [caller EXCEPT ![c] = k]
    BY <2>1
  <2>3. k \in Ticket /\ k.ok = caller[c].ok /\ k.at \notin Waiting
    BY <1>t DEF Ticket, Stations, RegistryTypeOK, Waiting
  <2>4. Begins
    BY <1>4 DEF Provision
  <2> HIDE DEF k
  <2> QED BY <1>1, <2>2, <2>3, <2>4, OnTheWayNoPod
<1>5. CASE GetRegistryCredentials(c)
  <2>1. ASSUME NEW i \in InForce, Well,
               caller' = [caller EXCEPT ![c].at = "look up", ![c].row = i]
        PROVE  NoneOfThePod(c)
    <3> DEFINE k == [caller[c] EXCEPT !.at = "look up", !.row = i]
    <3>1. caller' = [caller EXCEPT ![c] = k]
      BY <2>1
    <3>2. k \in Ticket /\ k.ok = caller[c].ok /\ k.at \notin Waiting
      BY <1>t, <1>r DEF Ticket, Stations, Waiting
    <3> HIDE DEF k
    <3> QED BY <1>1, <2>1, <3>1, <3>2, OnTheWayNoPod
  <2> QED BY <1>2, <1>5, <2>1 DEF GetRegistryCredentials, Stations, Waiting
<1>6. CASE GetProject(c)
  <2>1. ASSUME NEW t \in Titles, Provided(c, t), Well PROVE NoneOfThePod(c)
    BY <1>1, <2>1, ProvidedNoPod
  <2>2. projects \subseteq Titles
    BY DEF RegistryTypeOK
  <2> QED BY <1>2, <1>6, <2>1, <2>2 DEF GetProject, Stations, Waiting
<1>7. CASE FindRow(c)
  <2>1. ASSUME NEW i \in InForce, Well,
               caller' = [caller EXCEPT ![c].at = "revoke robot", ![c].row = i]
        PROVE  NoneOfThePod(c)
    <3> DEFINE k == [caller[c] EXCEPT !.at = "revoke robot", !.row = i]
    <3>1. caller' = [caller EXCEPT ![c] = k]
      BY <2>1
    <3>2. k \in Ticket /\ k.ok = caller[c].ok /\ k.at \notin Waiting
      BY <1>t, <1>r DEF Ticket, Stations, Waiting
    <3> HIDE DEF k
    <3> QED BY <1>1, <2>1, <3>1, <3>2, OnTheWayNoPod
  <2> QED BY <1>3, <1>7, <2>1 DEF FindRow
<1>8. CASE DockerConfigJSONForBuild(c)
  <2>1. ASSUME NEW i \in InForce, Well,
               caller' = [caller EXCEPT ![c].at = "launch", ![c].robot = credentials[i].robot]
        PROVE  NoneOfThePod(c)
    <3> DEFINE k == [caller[c] EXCEPT !.at = "launch", !.robot = credentials[i].robot]
    <3>1. caller' = [caller EXCEPT ![c] = k]
      BY <2>1
    <3>2. k \in Ticket /\ k.ok = caller[c].ok /\ k.at \notin Waiting
      BY <1>t, <1>r DEF Ticket, Stations, Waiting
    <3> HIDE DEF k
    <3> QED BY <1>1, <2>1, <3>1, <3>2, OnTheWayNoPod
  <2> QED BY <1>3, <1>8, <2>1 DEF DockerConfigJSONForBuild
<1> QED BY <1>4, <1>5, <1>6, <1>7, <1>8

LEMMA CreateInstanceKeepsPod ==
  ASSUME RegistryTypeOK, PodKept, NEW c \in Callers, CreateInstance(c)
  PROVE  PodKept'
<1> DEFINE pod == [state |-> "running", by |-> c, title |-> caller[c].title,
                   robot |-> caller[c].robot]
<1>1. caller[c].at = "launch" /\ images' = images /\ caller[c].at \notin Waiting /\ ~caller[c].ok
  BY DEF CreateInstance, Waiting, PodKept
<1>2. CASE Leave(c) /\ kaniko' = kaniko /\ (Well \/ Mishap)
  <2>1. NoneOfThePod(c)
    BY <1>1, <1>2, AwayFromNoPod
  <2> QED BY <2>1, PodUntouched
<1>3. CASE kaniko = NoPod /\ kaniko' = pod /\ ((GoTo(c, "wait") /\ Well) \/ (Leave(c) /\ Spill))
  <2>1. /\ \A j \in Callers : j # c => caller'[j] = caller[j]
        /\ ~caller'[c].ok
        /\ \/ caller'[c].at = "wait" /\ caller'[c].title = caller[c].title
           \/ caller'[c].at = "away" /\ spills' = spills + 1
    BY <1>1, <1>3, WentTo, WentAway DEF Stations, Others, Spill
  <2>2. /\ pod.by = c /\ pod.title = caller[c].title /\ pod.state = "running" /\ pod # NoPod
        /\ NoPod.state = "none"
    BY DEF NoPod
  <2>3. \A j \in Callers : caller[j].at \notin {"wait", "clean up"} /\ ~caller[j].ok
    BY <1>3, <2>2 DEF PodKept
  <2>4. kaniko' = pod
    BY <1>3
  <2> HIDE DEF pod
  <2>5. \A j \in Callers : caller'[j].at \in {"wait", "clean up"} =>
          kaniko' # NoPod /\ kaniko'.by = j /\ kaniko'.title = caller'[j].title
    BY <2>1, <2>2, <2>3, <2>4
  <2>6. \A j \in Callers : ~caller'[j].ok
    BY <2>1, <2>3
  <2>7. spills' > 0 \/ caller'[kaniko'.by].at \in {"wait", "clean up"}
    <3>1. spills \in Nat
      BY DEF RegistryTypeOK
    <3>2. spills' = spills + 1 => spills' > 0
      BY <3>1
    <3> QED BY <2>1, <2>2, <2>4, <3>2
  <2> QED BY <2>2, <2>4, <2>5, <2>6, <2>7 DEF PodKept
<1>4. \/ Leave(c) /\ kaniko' = kaniko /\ (Well \/ Mishap)
      \/ kaniko = NoPod /\ kaniko' = pod /\ ((GoTo(c, "wait") /\ Well) \/ (Leave(c) /\ Spill))
  BY DEF CreateInstance
<1> HIDE DEF pod
<1> QED BY <1>2, <1>3, <1>4

LEMMA PushKeepsPod ==
  ASSUME RegistryTypeOK, PodKept, Push
  PROVE  PodKept'
<1>1. kaniko.state = "running" /\ kaniko \in Pods /\ kaniko # NoPod /\ caller' = caller
      /\ spills' = spills
  BY PodHas DEF Push, Well
<1>2. /\ kaniko' \in Pods /\ kaniko'.by = kaniko.by /\ kaniko'.title = kaniko.title
      /\ \/ kaniko'.state = "terminated" /\ images' = [images EXCEPT ![kaniko.title] = kaniko.by]
         \/ kaniko'.state = "failed" /\ images' = images
  <2> DEFINE new(s) == [kaniko EXCEPT !.state = s]
  <2>1. \A s \in {"terminated", "failed"} :
          /\ new(s) \in Pods /\ new(s).by = kaniko.by /\ new(s).title = kaniko.title
          /\ new(s).state = s
    BY <1>1 DEF Pods
  <2>2. \/ kaniko' = new("terminated") /\ images' = [images EXCEPT ![kaniko.title] = kaniko.by]
        \/ kaniko' = new("failed") /\ images' = images
    BY DEF Push
  <2> HIDE DEF new
  <2> QED BY <2>1, <2>2
<1>3. kaniko' # NoPod
  BY <1>2, NoPodHas
<1>4. kaniko'.state = "terminated" => images'[kaniko'.title] = kaniko'.by
  <2>1. kaniko.title \in Titles
    BY <1>1 DEF Pods
  <2> QED BY <1>2, <2>1 DEF RegistryTypeOK
<1>5. \A c \in Callers : ~caller[c].ok
  BY <1>1 DEF PodKept
<1> QED BY <1>1, <1>2, <1>3, <1>4, <1>5 DEF PodKept

LEMMA WaitKeepsPod ==
  ASSUME RegistryTypeOK, PodKept, NEW c \in Callers, WaitForCompletion(c)
  PROVE  PodKept'
<1>1. /\ caller[c].at = "wait" /\ UNCHANGED <<kaniko, images, spills>> /\ ~caller[c].ok
      /\ kaniko # NoPod /\ kaniko.by = c /\ kaniko.title = caller[c].title
  BY DEF WaitForCompletion, Well, Mishap, Builder, PodKept
<1>2. /\ caller'[c].at = "clean up" /\ caller'[c].title = caller[c].title
      /\ caller'[c].ok => kaniko.state = "terminated"
      /\ \A j \in Callers : j # c => caller'[j] = caller[j]
  <2>1. CASE GoTo(c, "clean up")
    BY <1>1, <2>1, WentTo DEF Stations, Others
  <2>2. CASE caller' = [caller EXCEPT ![c].at = "clean up", ![c].ok = kaniko.state = "terminated"]
    <3> DEFINE k == [caller[c] EXCEPT !.at = "clean up", !.ok = kaniko.state = "terminated"]
    <3>1. caller' = [caller EXCEPT ![c] = k]
      BY <2>2
    <3>2. k.at = "clean up" /\ k.title = caller[c].title /\ (k.ok => kaniko.state = "terminated")
      BY TicketOf DEF Ticket
    <3> HIDE DEF k
    <3> QED BY <3>1, <3>2, MovesTo DEF Moves
  <2> QED BY <2>1, <2>2 DEF WaitForCompletion
<1>3. \A j \in Callers : caller'[j].at \in {"wait", "clean up"} =>
        kaniko # NoPod /\ kaniko.by = j /\ kaniko.title = caller'[j].title
  BY <1>1, <1>2 DEF PodKept
<1>4. \A j \in Callers : caller'[j].ok => caller'[j].at = "clean up" /\ kaniko.state = "terminated"
  BY <1>2 DEF PodKept
<1> QED BY <1>1, <1>2, <1>3, <1>4 DEF PodKept

LEMMA DeleteInstanceKeepsPod ==
  ASSUME RegistryTypeOK, PodKept, NEW c \in Callers, DeleteInstance(c)
  PROVE  PodKept'
<1>1. /\ caller[c].at = "clean up" /\ images' = images
      /\ \/ kaniko' = NoPod
         \/ kaniko' = kaniko /\ spills' = spills + 1
      /\ kaniko # NoPod /\ kaniko.by = c
  BY DEF DeleteInstance, Spill, PodKept
<1>2. /\ caller'[c].at = "away" /\ ~caller'[c].ok
      /\ \A j \in Callers : j # c => caller'[j] = caller[j]
  BY WentAway DEF DeleteInstance, Others
<1>3. \A j \in Callers : caller'[j].at \notin {"wait", "clean up"} /\ ~caller'[j].ok
  BY <1>1, <1>2 DEF PodKept
<1>4. kaniko' # NoPod => spills' > 0
  <2>1. spills \in Nat
    BY DEF RegistryTypeOK
  <2>2. spills' = spills + 1 => spills' > 0
    BY <2>1
  <2> QED BY <1>1, <2>2
<1>5. kaniko'.state = "terminated" => images'[kaniko'.title] = kaniko'.by
  BY <1>1, NoPodHas DEF PodKept
<1> QED BY <1>3, <1>4, <1>5 DEF PodKept

\* A pod whose caller is gone is one of the calls that were cut short.
LEMMA CrashKeepsPod ==
  ASSUME RegistryAssumption, RegistryTypeOK, PodKept, Crash
  PROVE  PodKept'
<1> DEFINE Busy == {c \in Callers : caller[c] # Away}
<1>1. /\ UNCHANGED <<kaniko, images>> /\ spills' = spills + Cardinality(Busy)
      /\ \A c \in Callers : caller'[c] = Away
  BY DEF Crash, Builder
<1>2. \A c \in Callers : caller'[c].at \notin {"wait", "clean up"} /\ ~caller'[c].ok
  <2>1. Away.at = "away" /\ ~Away.ok
    BY DEF Away
  <2> QED BY <1>1, <2>1
<1>3. IsFiniteSet(Busy) /\ Cardinality(Busy) \in Nat /\ spills \in Nat
  BY FS_Subset, FS_CardinalityType DEF RegistryAssumption, RegistryTypeOK
<1>4. kaniko # NoPod => spills' > 0
  <2> SUFFICES ASSUME kaniko # NoPod PROVE spills' > 0
    OBVIOUS
  <2>1. CASE spills > 0
    BY <1>1, <1>3, <2>1
  <2>2. CASE caller[kaniko.by].at \in {"wait", "clean up"}
    <3>1. kaniko.by \in Busy
      BY <2>2, AwayWell DEF RegistryTypeOK, Pods
    <3> HIDE DEF Busy
    <3>2. Cardinality(Busy) # 0
      BY <1>3, <3>1, FS_EmptySet
    <3> QED BY <1>1, <1>3, <3>2
  <2> QED BY <2>1, <2>2 DEF PodKept
<1> QED BY <1>1, <1>2, <1>4 DEF PodKept

LEMMA PodKeptElsewhere ==
  ASSUME PodKept, UNCHANGED <<kaniko, images, caller, spills>>
  PROVE  PodKept'
BY DEF PodKept

LEMMA RegistryInvInit == ASSUME RegistryAssumption, RegistryInit PROVE RegistryInv
<1>0. \A c \in Callers : caller[c] = Away
  BY DEF RegistryInit
<1>1. RegistryTypeOK
  <2>1. title \in Titles
    BY DEF RegistryInit, RegistryAssumption, Titles
  <2>2. caller \in [Callers -> Ticket]
    BY AwayWell DEF RegistryInit
  <2>3. \A c \in Callers : caller[c].at \notin Titled
    BY <1>0, AwayWell DEF Titled
  <2> QED BY <2>1, <2>2, <2>3, FS_EmptySet DEF RegistryInit, RegistryTypeOK, Ticket
<1>2. Apart
  BY DEF Apart, RegistryInit
<1>3. Owned /\ Made /\ Marked
  <2>1. \A c \in Callers : caller[c].at = "away"
    BY <1>0, AwayWell
  <2> QED BY <2>1 DEF Owned, Owns, Made, Has, Marked, Revokes
<1>4. RowsWork
  BY DEF RowsWork, InForce, RegistryInit
<1>5. LooseExcused
  <2>1. Loose = {} /\ spills = 0
    BY DEF Loose, RegistryInit
  <2> QED BY <2>1, FS_EmptySet DEF LooseExcused
<1>6. PodKept
  BY <1>0, NoPodHas DEF PodKept, RegistryInit, Away
<1> QED BY <1>1, <1>2, <1>3, <1>4, <1>5, <1>6 DEF RegistryInv

LEMMA RegistryInvStays ==
  ASSUME RegistryAssumption, RegistryInv, [RegistryNext]_registryVars
  PROVE  RegistryInv'
<1>0. RegistryTypeOK /\ RegistryCore /\ PodKept /\ Marked
  BY DEF RegistryInv, RegistryCore
<1>q. ASSUME RegistryTypeOK', RegistryCore', PodKept' PROVE RegistryInv'
  BY <1>q DEF RegistryInv, RegistryCore
<1>1. CASE RenameProject
  <2>1. UNCHANGED <<projects, robots, minted, secret, credentials, caller, kaniko, images, spills>>
    BY <1>1 DEF RenameProject, Harbor, Builder
  <2> QED BY <1>0, <1>1, <1>q, <2>1, RenameTyped, ElsewhereStays, PodKeptElsewhere
<1>2. CASE Push
  <2>1. UNCHANGED <<projects, robots, minted, secret, credentials, caller, spills>>
    BY <1>2 DEF Push, Harbor, Well
  <2> QED BY <1>0, <1>2, <1>q, <2>1, PushTyped, ElsewhereStays, PushKeepsPod
<1>3. CASE Crash
  BY <1>0, <1>3, <1>q, CrashTyped, CrashStays, CrashKeepsPod
<1>4. ASSUME NEW c \in Callers,
             \/ Provision(c) \/ GetRegistryCredentials(c) \/ GetProject(c) \/ FindRow(c)
             \/ DockerConfigJSONForBuild(c)
      PROVE  RegistryInv'
  <2>1. RegistryTypeOK'
    BY <1>0, <1>4, ReadingTyped
  <2>2. RegistryCore'
    BY <1>0, <1>4, QuietReading, QuietStays
  <2>3. PodKept'
    BY <1>0, <1>4, ReadingNoPod, PodUntouched
  <2> QED BY <1>q, <2>1, <2>2, <2>3
<1>5. ASSUME NEW c \in Callers,
             \/ CreateProject(c) \/ CreateRobotAccount(c) \/ CreateImagePullSecret(c)
             \/ StoreCredentials(c) \/ DeleteRobotAccount(c) \/ DeleteProject(c)
             \/ Revoke(c) \/ RevokeRobot(c) \/ RevokeSecret(c) \/ MarkRevoked(c)
      PROVE  RegistryInv'
  <2>1. RegistryTypeOK'
    BY <1>0, <1>5, HarborTyped, SecretTyped, StoreTyped, RevokingTyped, ReadingTyped
  <2>2. RegistryCore'
    BY <1>0, <1>5, QuietReading, QuietStays, CreateProjectStays, CreateRobotStays,
       CreateSecretStays, StoreStays, DropRobotStays, DropProjectStays, RevokeRobotStays,
       RevokeSecretStays, MarkRevokedStays
  <2>3. PodKept'
    BY <1>0, <1>5, ProvisioningNoPod, PodUntouched
  <2> QED BY <1>q, <2>1, <2>2, <2>3
<1>6. ASSUME NEW c \in Callers, CreateInstance(c) \/ WaitForCompletion(c) \/ DeleteInstance(c)
      PROVE  RegistryInv'
  <2>1. RegistryTypeOK'
    BY <1>0, <1>6, BuildingTyped
  <2>2. RegistryCore'
    BY <1>0, <1>6, QuietBuilding, QuietStays
  <2>3. PodKept'
    BY <1>0, <1>6, CreateInstanceKeepsPod, WaitKeepsPod, DeleteInstanceKeepsPod
  <2> QED BY <1>q, <2>1, <2>2, <2>3
<1>7. CASE UNCHANGED registryVars
  <2>1. UNCHANGED <<title, projects, robots, minted, secret, credentials, caller, kaniko, images,
                    begun, mishaps, spills>>
    BY <1>7 DEF registryVars
  <2>2. RegistryTypeOK'
    BY <1>0, <2>1 DEF RegistryTypeOK
  <2> QED BY <1>0, <1>q, <2>1, <2>2, ElsewhereStays, PodKeptElsewhere
<1> QED BY <1>1, <1>2, <1>3, <1>4, <1>5, <1>6, <1>7 DEF RegistryNext

LEMMA RegistryInvShows == ASSUME RegistryInv PROVE RegistrySound
<1>0. RegistryTypeOK /\ PodKept /\ LooseExcused /\ RowsWork
  BY DEF RegistryInv
<1>1. StraysExcused
  <2>1. Strays \subseteq Loose
    BY DEF Strays, Loose
  <2>2. IsFiniteSet(Loose)
    BY <1>0, FS_Subset DEF Loose, RegistryTypeOK
  <2>3. Cardinality(Strays) <= Cardinality(Loose) /\ Cardinality(Strays) \in Nat
        /\ Cardinality(Loose) \in Nat
    BY <2>1, <2>2, FS_Subset, FS_CardinalityType
  <2>4. spills \in Nat
    BY <1>0 DEF RegistryTypeOK
  <2> QED BY <1>0, <2>3, <2>4 DEF StraysExcused, LooseExcused
<1>2. BuildsPush
  BY <1>0 DEF BuildsPush, PodKept
<1> QED BY <1>0, <1>1, <1>2 DEF RegistrySound

\* Robots, rows, pull secrets and build pods stay in step (Provision, Build).
THEOREM RegistryIsSound == RegistrySpec => []RegistrySound
<1>1. RegistryInit => RegistryInv
  BY RegistryAssumption, RegistryInvInit
<1>2. RegistryInv /\ [RegistryNext]_registryVars => RegistryInv'
  BY RegistryAssumption, RegistryInvStays
<1>3. RegistryInv => RegistrySound
  BY RegistryInvShows
<1> QED BY <1>1, <1>2, <1>3, PTL DEF RegistrySpec
=============================================================================
