----------------------------- MODULE GpuLaunches ----------------------------
(***************************************************************************)
(* Instances with a share of a GPU, from the request to the pod and the    *)
(* row it is billed by: the inventory of devices (pkg/gpu/inventory.go),   *)
(* the allocator (pkg/gpu/allocator.go), the handlers that create and      *)
(* restart instances (pkg/api/server.go, instance_hold.go) and the pod's   *)
(* device requests (pkg/cluster/direct.go).                                *)
(*                                                                         *)
(* A node has GPUs of one memory size; they are handed out whole, or, if   *)
(* they are partitioned, in slices of fixed sizes.  Nothing is reserved    *)
(* between the allocator's answer and the pod, and the inventory counts    *)
(* only pods that the scheduler has bound to a node.                       *)
(***************************************************************************)
EXTENDS Integers, FiniteSets, FiniteSetsExt

CONSTANTS GpuNodes,      \* each node's [memory, gpus, slices, shared, simulated]
          Launches,      \* instances, numbered as they are asked for
          Wishes,        \* sizes asked for
          MaxRestarted   \* bound: restarts of stopped instances

ASSUME GpuAssumption ==
  /\ IsFiniteSet(Launches) /\ Wishes \subseteq Nat
  /\ \A n \in DOMAIN GpuNodes : LET node == GpuNodes[n] IN
       /\ {node.memory, node.gpus, node.shared} \subseteq Nat
       /\ node.simulated \in BOOLEAN
       /\ DOMAIN node.slices \subseteq Nat \ {0}
       /\ \A s \in DOMAIN node.slices : node.slices[s] \in Nat

VARIABLE market   \* the instances, and the usage that was last reported

Nodes == DOMAIN GpuNodes

NoLaunch == [at |-> "none", want |-> 0, node |-> "", kind |-> "none", size |-> 0,
            pod |-> "none", row |-> 0, again |-> FALSE, slice |-> 0]

\* The devices of a node and their number.
Devices(n) ==
    {[node |-> n, kind |-> "slice", size |-> s] : s \in DOMAIN GpuNodes[n].slices}
    \union {[node |-> n, kind |-> "whole", size |-> GpuNodes[n].memory]}
Number(d) == IF d.kind = "slice" THEN GpuNodes[d.node].slices[d.size] ELSE GpuNodes[d.node].shared
AllDevices == UNION {Devices(n) : n \in Nodes}

Has(l, d) == l.node = d.node /\ l.kind = d.kind /\ l.size = d.size

\* A pod of a simulated node asks for no device.
Held(d, pods) ==
    IF GpuNodes[d.node].simulated THEN 0 ELSE Cardinality({l \in pods : Has(market.launch[l], d)})
SizeOf == [l \in Launches |-> market.launch[l].size]
HeldMemory(n, pods) ==
    MapThenSumSet(LAMBDA l : SizeOf[l], {l \in pods : market.launch[l].node = n})

WithPod  == {l \in Launches : market.launch[l].pod # "none"}
BoundPod == {l \in Launches : market.launch[l].pod = "bound"}

Usage == [held   |-> [d \in AllDevices |-> Held(d, BoundPod)],
          memory |-> [n \in Nodes |-> HeldMemory(n, BoundPod)]]

MarketInit ==
    market = [launch |-> [l \in Launches |-> NoLaunch], restarts |-> 0, raced |-> FALSE,
              seen |-> [held   |-> [d \in AllDevices |-> 0],
                        memory |-> [n \in Nodes |-> 0]]]

----------------------------------------------------------------------------
(* The allocator, on the usage last reported. *)

FreeMemory(n) == Max({0, GpuNodes[n].memory * GpuNodes[n].gpus - market.seen.memory[n]})
IsFree(d)     == market.seen.held[d] < Number(d) /\ FreeMemory(d.node) >= d.size

\* The devices of the nodes with the least memory free; which of several
\* such nodes is left to the sort.
Fullest(devices) ==
    {d \in devices : \A e \in devices : FreeMemory(d.node) <= FreeMemory(e.node)}

Slices(want) == {d \in AllDevices : d.kind = "slice" /\ d.size >= want /\ IsFree(d)}
Wholes(want) == {d \in AllDevices : d.kind = "whole" /\ d.size >= want /\ IsFree(d)}

\* Mutant of AllocateByVRAM: any slice that holds it.
AllocateAnySlice(want) ==
    IF Slices(want) # {} THEN Fullest(Slices(want)) ELSE Fullest(Wholes(want))

\* A slice of exactly the size; the smallest slice that holds it; a whole GPU.
AllocateByVRAM(want) ==
    LET exact    == {d \in Slices(want) : d.size = want}
        smallest == {d \in Slices(want) : \A e \in Slices(want) : d.size <= e.size} IN
    IF exact # {} THEN Fullest(exact)
    ELSE IF smallest # {} THEN Fullest(smallest)
    ELSE Fullest(Wholes(want))

NoSlice == 0   \* where no slice is free that is large enough
SmallestSlice(want) ==
    IF Slices(want) = {} THEN NoSlice ELSE Min({d.size : d \in Slices(want)})

----------------------------------------------------------------------------
(* The handlers. *)

Launch(l) == market.launch[l]
Put(l, to) == [market EXCEPT !.launch[l] = to]

Ask(l, want) ==
    /\ Launch(l).at = "none" /\ \A k \in Launches : k < l => Launch(k).at # "none"
    /\ market' = Put(l, [NoLaunch EXCEPT !.at = "asked", !.want = want])

\* The ports, the session's approval, the payment gate and the credit are
\* looked at before anything is allocated.
Decline(l) ==
    /\ Launch(l).at = "asked"
    /\ market' = Put(l, IF Launch(l).again THEN [Launch(l) EXCEPT !.at = "stopped"]
                        ELSE [NoLaunch EXCEPT !.at = "refused"])

\* The agent's report of its node, or the snapshot taken for one allocation.
Report ==
    /\ market.seen # Usage
    /\ market' = [market EXCEPT !.seen = Usage]

\* A report that misses a pod, and launches whose pods no report counts yet.
Stale == \/ \E d \in AllDevices : market.seen.held[d] < Usage.held[d]
         \/ \E n \in Nodes : market.seen.memory[n] < Usage.memory[n]
Unsettled(l) == \E k \in Launches \ {l} : Launch(k).at = "allocated" \/ Launch(k).pod = "unbound"

Allocate(l) ==
    /\ Launch(l).at = "asked"
    /\ \E d \in AllocateByVRAM(Launch(l).want) :
         market' = [Put(l, [Launch(l) EXCEPT
                              !.at = "allocated", !.node = d.node, !.kind = d.kind, !.size = d.size,
                              !.slice = SmallestSlice(Launch(l).want)])
                    EXCEPT !.raced = @ \/ Stale \/ Unsettled(l)]

NoneFree(l) ==
    /\ Launch(l).at = "asked" /\ AllocateByVRAM(Launch(l).want) = {}
    /\ market' = Put(l, IF Launch(l).again THEN [Launch(l) EXCEPT !.at = "stopped"]
                        ELSE [NoLaunch EXCEPT !.at = "refused"])

\* The pod is pinned to the node, asks for the device, and is marked with
\* the memory it was given.
MakePod(l) ==
    /\ Launch(l).at = "allocated"
    /\ \/ market' = Put(l, [Launch(l) EXCEPT !.at = "made", !.pod = "unbound"])
       \/ market' = Put(l, IF Launch(l).again THEN [Launch(l) EXCEPT !.at = "stopped"]
                           ELSE [NoLaunch EXCEPT !.at = "refused"])

\* The scheduler: a pod is bound when its device is there.
BindPod(l) ==
    LET d == [node |-> Launch(l).node, kind |-> Launch(l).kind, size |-> Launch(l).size] IN
    /\ Launch(l).pod = "unbound"
    /\ GpuNodes[d.node].simulated \/ Held(d, BoundPod) < Number(d)
    /\ market' = Put(l, [Launch(l) EXCEPT !.pod = "bound"])

\* The row of a new instance has the size that was allocated; a restarted
\* one keeps the size it has.  Without its row the pod is removed again, if
\* that works.
Record(l) ==
    /\ Launch(l).at = "made"
    /\ \/ market' = Put(l, [Launch(l) EXCEPT !.at = "recorded",
                                             !.row = IF @ = 0 THEN Launch(l).size ELSE @])
       \/ market' = Put(l, IF Launch(l).again
                           THEN [Launch(l) EXCEPT !.at = "stopped", !.pod = "none"]
                           ELSE [NoLaunch EXCEPT !.at = "refused"])
       \/ ~Launch(l).again /\ market' = Put(l, [Launch(l) EXCEPT !.at = "refused"])

\* The credit enforcer stops an instance whose account has run out.
HoldIt(l) ==
    /\ Launch(l).at = "recorded"
    /\ market' = Put(l, [Launch(l) EXCEPT !.at = "stopped", !.pod = "none"])

\* Its slice may be someone else's by now: another is asked for.
StartAgain(l) ==
    /\ Launch(l).at = "stopped" /\ market.restarts < MaxRestarted
    /\ market' = [Put(l, [Launch(l) EXCEPT !.at = "asked", !.want = Launch(l).row, !.again = TRUE])
                  EXCEPT !.restarts = @ + 1]

Delete(l) ==
    /\ Launch(l).at \in {"recorded", "stopped"}
    /\ market' = Put(l, [NoLaunch EXCEPT !.at = "deleted"])

MarketNext ==
    \/ Report
    \/ \E l \in Launches :
         \/ \E want \in Wishes : Ask(l, want)
         \/ Decline(l) \/ Allocate(l) \/ NoneFree(l) \/ MakePod(l) \/ BindPod(l)
         \/ Record(l) \/ HoldIt(l) \/ StartAgain(l) \/ Delete(l)

----------------------------------------------------------------------------
(* What should hold. *)

\* Unless an allocation was made on a report that another launch has made
\* stale, every pod's device is there for it, and no node's memory is sold
\* twice (allocator.go:112-146).
NeverOversold ==
    ~market.raced =>
      /\ \A d \in AllDevices : Held(d, WithPod) <= Number(d)
      /\ \A n \in Nodes : HeldMemory(n, WithPod) <= GpuNodes[n].memory * GpuNodes[n].gpus

\* An instance is billed for what its pod holds, or, after a restart on a
\* larger device, for less (server.go, CreateInstance).
BilledAsHeld ==
    \A l \in Launches : Launch(l).at = "recorded" /\ Launch(l).pod # "none" =>
      /\ Launch(l).row <= Launch(l).size
      /\ ~Launch(l).again => Launch(l).row = Launch(l).size

\* Nobody is given less than was asked for, a larger slice than another that
\* was free and fits, or a whole GPU while a slice was free
\* (allocator.go:76-86).
NoLargerThanNeeded ==
    \A l \in Launches : Launch(l).at = "allocated" =>
      /\ Launch(l).size >= Launch(l).want
      /\ IF Launch(l).kind = "slice" THEN Launch(l).size = Launch(l).slice
                                     ELSE Launch(l).slice = NoSlice

\* From the request over holds and restarts to the row, an instance with a
\* share of a GPU gets a device that is free and fits, and its row says so.
LaunchesSound == NeverOversold /\ BilledAsHeld /\ NoLargerThanNeeded
=============================================================================
