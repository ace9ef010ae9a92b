------------------------------ MODULE JobSlots ------------------------------
(***************************************************************************)
(* What a job queue with an "at most one active job per resource" index    *)
(* promises: every resource has one slot, a job takes the slot of its      *)
(* resource when the slot is free and leaves it once, and a job that has   *)
(* left never comes back.  A resource is a backup definition or, for       *)
(* restorations, a target database.                                        *)
(***************************************************************************)
CONSTANTS Resources, Jobs, ResourceOf, Free

VARIABLES slot, used

Init == slot = [r \in Resources |-> Free] /\ used = {}

\* A new job takes the free slot of its resource.
Take(j) ==
    /\ j \notin used
    /\ slot[ResourceOf[j]] = Free
    /\ slot' = [slot EXCEPT ![ResourceOf[j]] = j]
    /\ used' = used \cup {j}

\* The jobs of some resources end: one that finishes, or all that are reaped.
Leave(R) ==
    /\ slot' = [r \in Resources |-> IF r \in R THEN Free ELSE slot[r]]
    /\ used' = used

Next == \/ \E j \in Jobs : Take(j)
        \/ \E R \in SUBSET Resources : Leave(R)

Spec == Init /\ [][Next]_<<slot, used>>
=============================================================================
