---------------------------- MODULE MCWorkloads ----------------------------
(***************************************************************************)
(* What customers run: small instances of an instance's life under         *)
(* storage holds, of a build session's deploys and its agent, of the       *)
(* inference gateway, of the streams to one node and of the models mounted *)
(* on one, checked in one run.  A behaviour is one of `part`'s; the        *)
(* others' variables keep their initial values.                            *)
(***************************************************************************)
EXTENDS InstanceLifecycle, BuildDeploys, BuildAgent, InferenceGateway, SessionStreams,
        ModelMounts, TLC

VARIABLE part   \* whose behaviour this is

\* Deploys are alike, and so are completions and prompts that bear their names.
Alike == Permutations(Deploys)

\* The second model needs less memory than the first.
ModelSizes == [m \in Models |-> 3 - m]

OneAccount == [r \in Prompts |-> "a"]

MCInit ==
    /\ part \in {"instance", "deploys", "agent", "inference", "streams", "mounts"}
    /\ Init /\ DeploysInit /\ AgentInit /\ InferenceInit /\ StreamsInit /\ MountInit
    /\ part # "inference" => \A b \in Backends : mounts[b] = 1

MCNext ==
    \/ /\ part = "instance" /\ Next
       /\ UNCHANGED <<part, deployVars, agentVars, inferenceVars, streamVars, mountVars>>
    \/ /\ part = "deploys" /\ DeploysNext
       /\ UNCHANGED <<part, vars, agentVars, inferenceVars, streamVars, mountVars>>
    \/ /\ part = "agent" /\ AgentNext
       /\ UNCHANGED <<part, vars, deployVars, inferenceVars, streamVars, mountVars>>
    \/ /\ part = "inference" /\ InferenceNext
       /\ UNCHANGED <<part, vars, deployVars, agentVars, streamVars, mountVars>>
    \/ /\ part = "streams" /\ StreamsNext
       /\ UNCHANGED <<part, vars, deployVars, agentVars, inferenceVars, mountVars>>
    \/ /\ part = "mounts" /\ MountNext
       /\ UNCHANGED <<part, vars, deployVars, agentVars, inferenceVars, streamVars>>

MCVars == <<part, vars, deployVars, agentVars, inferenceVars, streamVars, mountVars>>

MCSpec == MCInit /\ [][MCNext]_MCVars
=============================================================================
