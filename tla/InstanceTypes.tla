---------------------------- MODULE InstanceTypes ----------------------------
(***************************************************************************)
(* What the control plane and a node both speak about: compute instances,  *)
(* the states a node reports of them and the commands it obeys             *)
(* (proto/agent.proto, pkg/compute/store.go).                              *)
(***************************************************************************)
CONSTANTS
  Instances,
  HasDisk        \* the instances with a persistent volume (StorageGB > 0)

ASSUME InstanceAssumption == HasDisk \subseteq Instances

Statuses == {"pending", "running", "failed", "terminated"}
Kinds    == {"create", "delete", "stop"}
=============================================================================
