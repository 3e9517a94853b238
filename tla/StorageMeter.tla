---------------------------- MODULE StorageMeter ----------------------------
(***************************************************************************)
(* What an account pays for one bucket: the hourly meter of what it stores *)
(* (pkg/objectstore/meter.go) and the tracker of what is downloaded from   *)
(* it (egress.go), which write their records for the same subject.         *)
(***************************************************************************)
EXTENDS Integers, Sequences, FiniteSetsExt

CONSTANTS
  MaxHours,      \* bound: the clock stops here
  MaxDownloads   \* bound: downloads

VARIABLES
  hour,        \* the clock, in units of the shortest interval billed
  exists,      \* the bucket is live
  onHold,      \* a storage hold of the account is active
  lastHold,    \* MAX(released_at), -1 when no hold was released
  bills,       \* usage records of the bucket, oldest first
  meter,       \* where the meter's pass is
  pending,     \* bytes the tracker has in memory
  flushing,    \* the batch the tracker is writing
  downloads,   \* downloads so far
  heldThen     \* history: heldThen[t + 1]: hour t was on hold

meterVars ==
  <<hour, exists, onHold, lastHold, bills, meter, pending, flushing, downloads, heldThen>>

MeterIdle == [at |-> "idle"]

MeterInit ==
  /\ hour = 0 /\ exists = TRUE
  /\ onHold = FALSE /\ lastHold = -1
  /\ bills = <<>> /\ meter = MeterIdle
  /\ pending = 0 /\ flushing = 0 /\ downloads = 0
  /\ heldThen = <<>>

\* LastBillingEndTime: MAX(end_time) of the bucket's records, of either kind,
\* created_at (hour 0) when there is none.
LatestEnd == Max({0} \union {bills[n].to : n \in DOMAIN bills})

OnlyMeter == UNCHANGED <<hour, exists, onHold, lastHold, pending, flushing, downloads, heldThen>>

\* The rate, the list of live buckets, and the pass's "now".
ListBuckets ==
  /\ meter.at = "idle" /\ exists
  /\ meter' = [at |-> "floor", now |-> hour]
  /\ OnlyMeter /\ UNCHANGED bills

\* StorageBillingFloor
ReadFloor ==
  /\ meter.at = "floor"
  /\ meter' = IF onHold THEN MeterIdle ELSE [at |-> "last", now |-> meter.now, floor |-> lastHold]
  /\ OnlyMeter /\ UNCHANGED bills

\* Mutant of BillFrom: the end of the last hold is not looked at.
BillFromLastEnd == LatestEnd

BillFrom == IF meter.floor > LatestEnd THEN meter.floor ELSE LatestEnd

ReadLastEnd ==
  /\ meter.at = "last"
  /\ meter' = IF meter.now - BillFrom < 1 THEN MeterIdle
              ELSE [at |-> "bill", from |-> BillFrom, to |-> meter.now]
  /\ OnlyMeter /\ UNCHANGED bills

\* RecordUsage, then a draw whose failure is only logged; a record that cannot
\* be written is left for the next pass.
BillStorage ==
  /\ meter.at = "bill"
  /\ \/ bills' = Append(bills, [kind |-> "storage", from |-> meter.from, to |-> meter.to])
     \/ UNCHANGED bills
  /\ meter' = MeterIdle
  /\ OnlyMeter

-----------------------------------------------------------------------------
(* Downloads are counted in memory and written a minute at a time. *)

Download ==
  /\ exists /\ ~onHold /\ downloads < MaxDownloads
  /\ downloads' = downloads + 1
  /\ pending' = pending + 1
  /\ UNCHANGED <<hour, exists, onHold, lastHold, bills, meter, flushing, heldThen>>

SwapBatch ==
  /\ flushing = 0 /\ pending > 0
  /\ flushing' = pending /\ pending' = 0
  /\ UNCHANGED <<hour, exists, onHold, lastHold, bills, meter, downloads, heldThen>>

FlushEgress ==
  /\ flushing > 0
  /\ \/ bills' = Append(bills, [kind |-> "egress", from |-> hour, to |-> hour])
     \/ UNCHANGED bills
  /\ flushing' = 0
  /\ UNCHANGED <<hour, exists, onHold, lastHold, meter, pending, downloads, heldThen>>

-----------------------------------------------------------------------------
(* The rest of the world. *)

HoldsChange ==
  /\ onHold' = ~onHold
  /\ lastHold' = IF onHold THEN hour ELSE lastHold
  /\ UNCHANGED <<hour, exists, bills, meter, pending, flushing, downloads, heldThen>>

BucketDeleted ==
  /\ exists /\ exists' = FALSE
  /\ UNCHANGED <<hour, onHold, lastHold, bills, meter, pending, flushing, downloads, heldThen>>

PassHour ==
  /\ hour < MaxHours
  /\ hour' = hour + 1
  /\ heldThen' = Append(heldThen, onHold)
  /\ UNCHANGED <<exists, onHold, lastHold, bills, meter, pending, flushing, downloads>>

MeterNext ==
  \/ ListBuckets \/ ReadFloor \/ ReadLastEnd \/ BillStorage
  \/ Download \/ SwapBatch \/ FlushEgress
  \/ HoldsChange \/ BucketDeleted \/ PassHour

MeterSpec == MeterInit /\ [][MeterNext]_meterVars

-----------------------------------------------------------------------------
(* What should hold. *)

StorageBill(n) == bills[n].kind = "storage"

\* What is stored while on hold is not billed, not even after the hold, and no
\* hour twice (meter.go:93-116).
StorageBilledFairly ==
  /\ \A n \in DOMAIN bills : StorageBill(n) =>
       \A t \in bills[n].from .. bills[n].to - 1 : ~heldThen[t + 1]
  /\ \A m, n \in DOMAIN bills : m < n /\ StorageBill(m) /\ StorageBill(n) =>
       bills[m].to <= bills[n].from
=============================================================================
