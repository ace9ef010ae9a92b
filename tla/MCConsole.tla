----------------------------- MODULE MCConsole ------------------------------
(***************************************************************************)
(* A small instance of Console for TLC.  Checks write only the results of  *)
(* tests, which no request reads, and requests write nothing that a check  *)
(* or another client's request reads: so the checks and the requests of    *)
(* each client are scenes of one run, checked next to each other and not   *)
(* as interleavings; each is interleaved with the edits, saves, logins,    *)
(* outages and dumps around it.                                            *)
(***************************************************************************)
EXTENDS Console, TLC

CONSTANTS src, tgt, s3, boss, dev, api, p1, p2, stage, v1, v2, admins, devs, ops

VARIABLE scene  \* None for the checks, else the client that sends requests

Tags == [d \in Databases |-> IF d = tgt THEN "default" ELSE "far"]
ServesDefault == [w \in Workers |-> {"default"}]

Users == [c \in Clients |-> IF c = boss THEN "boss" ELSE "dev"]
Logins == [c \in Clients |-> IF c = boss THEN "password" ELSE IF c = api THEN "bearer" ELSE "oidc"]
Carried == [c \in Clients |-> IF c = boss THEN {} ELSE {devs}]
OfSource == [d \in Dumps |-> src]
OneDay == [d \in Dumps |-> 1]
Asked == [c \in Clients |-> IF c = api THEN {"api", "api_download"}
                           ELSE IF c = dev THEN Ops \ {"api", "api_download"} ELSE {}]

To(name, owner) == [e \in Envs |-> RestoreTarget(name, owner)]

\* dev may restore p1 onto the registered tgt, later only look at it, while
\* it goes to a database that is not registered.
Presets1 == [admin |-> admins, presets |->
    [p \in Presets |-> RestorePreset(src, None, devs, To(tgt, "app"))]]
Presets2 == [admin |-> admins, presets |->
    [p \in Presets |-> IF p = p1 THEN RestorePreset(src, devs, ops, To("other", None))
                                 ELSE None]]
TwoConfigs == {Presets1, Presets2}

MCInit ==
    /\ Init
    /\ scene \in {dev, api, None}
    /\ conn[src] = v1
    /\ IF scene = None
       THEN /\ changes = 0
            /\ saved = Presets1 /\ applied = [p \in Pods |-> saved] /\ dumps = {}
       ELSE changes = 1 /\ conn[tgt] # v1 /\ 1 \in dumps

MCNext ==
    /\ UNCHANGED scene
    /\ \/ scene = None /\ RegistryNext /\ UNCHANGED console
       \/ scene # None /\ (Requesting(scene) \/ Around)

\* No behaviour in which a client sends requests is fair to the checks, so
\* what needs fairness is said of the others.
MCSpec == MCInit /\ [][MCNext]_<<vars, scene>> /\ RegistryFairness
=============================================================================
