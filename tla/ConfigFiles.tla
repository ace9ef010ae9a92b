---------------------------- MODULE ConfigFiles -----------------------------
(***************************************************************************)
(* service/configfiles: one named configuration (restore presets or        *)
(* discovery) kept in a database row, edited on one pod and followed by    *)
(* all.                                                                    *)
(*                                                                         *)
(* The row is the sequence of the contents written to it: the last one is  *)
(* its content, its length stands for updated_at.  A save is a request     *)
(* handler on a pod; its statements, the hot reload and the mark are steps *)
(* of their own, next to the Watch loop and to the other saves.            *)
(***************************************************************************)
EXTENDS Naturals, SequencesExt

CONSTANTS
    Pods,
    Savers,      \* request handlers that save
    PodOf,       \* the pod each of them runs on
    Contents,    \* contents that pass validation
    File,        \* the content of the file in the image
    None,        \* nothing loaded, nothing read
    Kept,        \* backups kept and listed, 10 in the code
    MaxSaves,    \* bound on the saves begun
    MaxFaults    \* bound on failed calls and lost pods

ASSUME ConfigAssumption ==
    /\ PodOf \in [Savers -> Pods]
    /\ File \in Contents /\ None \notin Contents
    /\ Kept \in Nat \ {0}
    /\ MaxSaves \in Nat /\ MaxFaults \in Nat

VARIABLES
    versions, \* config_files: what the row has held, oldest first
    backups,  \* config_file_backups, newest first
    pod,      \* "down", "seed" (first boot) or "up"
    mem,      \* the configuration the pod works with
    applied,  \* s.appliedAt[name], 0 before the first mark
    save,     \* each handler: the step it is at, and what it holds
    watch,    \* each pod's Watch: the step it is at, and the row it holds
    raced,    \* pods where two loads of the configuration have overlapped
    saves,    \* saves begun so far
    faults    \* failures so far

row == <<versions, backups>>
local == <<pod, mem, applied>>
bounds == <<saves, faults>>
vars == <<row, local, save, watch, raced, bounds>>

Idle == [at |-> "idle", new |-> None, old |-> None, version |-> 0]

Loaded == Contents \cup {None}

TypeOK ==
    /\ versions \in Seq(Contents)
    /\ backups \in Seq(Contents)
    /\ pod \in [Pods -> {"down", "seed", "up"}]
    /\ mem \in [Pods -> Loaded]
    /\ applied \in [Pods -> Nat]
    /\ save \in [Savers -> [at : {"idle", "backup", "update", "apply", "mark"},
                            new : Loaded, old : Loaded, version : Nat]]
    /\ watch \in [Pods -> [at : {"idle", "check", "apply", "mark"},
                           new : Loaded, old : {None}, version : Nat]]
    /\ raced \subseteq Pods
    /\ saves \in Nat /\ faults \in Nat

Init ==
    /\ versions = <<>>
    /\ backups = <<>>
    /\ pod = [p \in Pods |-> "down"]
    /\ mem = [p \in Pods |-> None]
    /\ applied = [p \in Pods |-> 0]
    /\ save = [s \in Savers |-> Idle]
    /\ watch = [p \in Pods |-> Idle]
    /\ raced = {}
    /\ saves = 0 /\ faults = 0

UpdatedAt == Len(versions)
Content == IF versions = <<>> THEN None ELSE Last(versions)

\* UPDATE config_files SET content, updated_at = now()
UpdateConfigFile(c) == versions' = Append(versions, c)

Fault ==
    /\ faults < MaxFaults
    /\ faults' = faults + 1
    /\ UNCHANGED saves

-----------------------------------------------------------------------------
(* LoadAll, before anything else of the pod runs *)

Seeded(p) == applied' = [applied EXCEPT ![p] = UpdatedAt + 1]

LoadOne(p) ==
    /\ pod[p] = "down"
    /\ IF versions = <<>>
         THEN /\ pod' = [pod EXCEPT ![p] = "seed"]
              /\ mem' = [mem EXCEPT ![p] = File]
              /\ UNCHANGED applied
         ELSE /\ pod' = [pod EXCEPT ![p] = "up"]
              /\ mem' = [mem EXCEPT ![p] = Content]
              /\ applied' = [applied EXCEPT ![p] = UpdatedAt]
    /\ UNCHANGED <<row, save, watch, raced, bounds>>

Seed(p) ==
    /\ pod[p] = "seed"
    /\ UpdateConfigFile(File)
    /\ pod' = [pod EXCEPT ![p] = "up"]
    /\ Seeded(p)
    /\ UNCHANGED <<backups, mem, save, watch, raced, bounds>>

\* The pod is lost, or gives up starting; it comes back with LoadOne.
Lose(p) ==
    /\ pod[p] # "down"
    /\ Fault
    /\ pod' = [pod EXCEPT ![p] = "down"]
    /\ mem' = [mem EXCEPT ![p] = None]
    /\ applied' = [applied EXCEPT ![p] = 0]
    /\ save' = [s \in Savers |-> IF PodOf[s] = p THEN Idle ELSE save[s]]
    /\ watch' = [watch EXCEPT ![p] = Idle]
    /\ UNCHANGED <<row, raced>>

-----------------------------------------------------------------------------
(* ValidateAndSave and RestoreBackup *)

Begin(s, c) ==
    /\ save[s] = Idle
    /\ pod[PodOf[s]] = "up"
    /\ saves < MaxSaves
    /\ saves' = saves + 1
    /\ save' = [save EXCEPT ![s] = [Idle EXCEPT !.at = "backup", !.new = c,
                                                !.old = Content]]
    /\ UNCHANGED <<row, local, watch, raced, faults>>

\* Content that does not validate changes nothing.
ValidateAndSave(s) == \E c \in Contents : Begin(s, c)

RestoreBackup(s) == \E c \in Range(backups) : Begin(s, c)

\* The listing is ORDER BY created_at DESC LIMIT Kept.
Listed(bs) == SubSeq(bs, 1, IF Len(bs) < Kept THEN Len(bs) ELSE Kept)

\* The listing ends where the loop that deletes begins.
MutPrune(bs) == SubSeq(bs, 2, Len(bs))   \* the newest goes
Prune(bs) ==
    LET doomed == {i \in 1..Len(Listed(bs)) : i > Kept}
    IN  IF doomed = {} THEN bs ELSE SubSeq(bs, 1, Kept)

CreateBackup(s) ==
    /\ save[s].at = "backup"
    /\ save' = [save EXCEPT ![s].at = "update"]
    /\ backups' = IF save[s].old = None THEN backups
                  ELSE Prune(<<save[s].old>> \o backups)
    /\ UNCHANGED <<versions, local, watch, raced, bounds>>

Update(s) ==
    /\ save[s].at = "update"
    /\ UpdateConfigFile(save[s].new)
    /\ save' = [save EXCEPT ![s].at = "apply", ![s].version = UpdatedAt + 1]
    /\ UNCHANGED <<backups, local, watch, raced, bounds>>

\* The backup or the UPDATE fails: the handler returns the error.
MutSaveFails(s) ==   \* the error of the UPDATE is dropped
    IF save[s].at = "update" THEN [save[s] EXCEPT !.at = "apply"] ELSE Idle
SaveFails(s) == Idle

FailedCall(s) ==
    /\ save[s].at \in {"backup", "update"}
    /\ Fault
    /\ save' = [save EXCEPT ![s] = SaveFails(s)]
    /\ UNCHANGED <<row, local, watch, raced>>

\* The UPDATE is done, but its answer does not come back.
LostAnswer(s) ==
    /\ save[s].at = "update"
    /\ Fault
    /\ UpdateConfigFile(save[s].new)
    /\ save' = [save EXCEPT ![s] = Idle]
    /\ UNCHANGED <<backups, local, watch, raced>>

\* What handles a version in pod p, from its read or write of the row to its mark.
Loads(p) ==
    {s \in Savers : PodOf[s] = p /\ save[s].at \in {"apply", "mark"}}
        \cup {q \in {p} : watch[q].at \in {"apply", "mark"}}

\* For the properties only.
Applies(p, load) ==
    raced' = IF Loads(p) = {load} THEN raced ELSE raced \cup {p}

ApplySaved(s) ==
    /\ save[s].at = "apply"
    /\ mem' = [mem EXCEPT ![PodOf[s]] = save[s].new]
    /\ save' = [save EXCEPT ![s].at = "mark"]
    /\ Applies(PodOf[s], s)
    /\ UNCHANGED <<row, pod, applied, watch, bounds>>

MarkSaved(s) ==
    /\ save[s].at = "mark"
    /\ applied' = [applied EXCEPT ![PodOf[s]] = save[s].version]
    /\ save' = [save EXCEPT ![s] = Idle]
    /\ UNCHANGED <<row, pod, mem, watch, raced, bounds>>

-----------------------------------------------------------------------------
(* Watch: one reloadChanged at a time in each pod *)

WatchGet(p) ==
    /\ pod[p] = "up"
    /\ watch[p] = Idle
    /\ watch' = [watch EXCEPT ![p] = [Idle EXCEPT !.at = "check", !.new = Content,
                                                  !.version = UpdatedAt]]
    /\ UNCHANGED <<row, local, save, raced, bounds>>

Newer(p) == watch[p].version > applied[p]

WatchCheck(p) ==
    /\ watch[p].at = "check"
    /\ watch' = [watch EXCEPT ![p] =
                   IF Newer(p) THEN [@ EXCEPT !.at = "apply"] ELSE Idle]
    /\ UNCHANGED <<row, local, save, raced, bounds>>

WatchApply(p) ==
    /\ watch[p].at = "apply"
    /\ mem' = [mem EXCEPT ![p] = watch[p].new]
    /\ watch' = [watch EXCEPT ![p].at = "mark"]
    /\ Applies(p, p)
    /\ UNCHANGED <<row, pod, applied, save, bounds>>

MutWatchMarked(p) == UpdatedAt       \* the row is read again for the mark
WatchMarked(p) == watch[p].version

WatchMark(p) ==
    /\ watch[p].at = "mark"
    /\ applied' = [applied EXCEPT ![p] = WatchMarked(p)]
    /\ watch' = [watch EXCEPT ![p] = Idle]
    /\ UNCHANGED <<row, pod, mem, save, raced, bounds>>

-----------------------------------------------------------------------------

Boot(p) == LoadOne(p) \/ Seed(p)
Carry(s) == CreateBackup(s) \/ Update(s) \/ ApplySaved(s) \/ MarkSaved(s)
Watch(p) == WatchGet(p) \/ WatchCheck(p) \/ WatchApply(p) \/ WatchMark(p)

Next ==
    \/ \E p \in Pods : Boot(p) \/ Watch(p) \/ Lose(p)
    \/ \E s \in Savers :
         \/ ValidateAndSave(s) \/ RestoreBackup(s) \/ Carry(s)
         \/ FailedCall(s) \/ LostAnswer(s)

Spec == Init /\ [][Next]_vars

\* Kubernetes restarts pods, the ticker ticks and database calls return.
FairSpec ==
    /\ Spec
    /\ \A p \in Pods : WF_vars(Boot(p)) /\ WF_vars(Watch(p))
    /\ \A s \in Savers : WF_vars(Carry(s))

-----------------------------------------------------------------------------

\* A pod that is up works with a configuration that was persisted, whatever
\* call failed: nothing is applied before it is saved.
AppliedIsSaved == \A p \in Pods : pod[p] = "up" => mem[p] \in Range(versions)

\* A save that no other write overtook replaces only what is in a backup.
ReplacedIsKept ==
    \A s \in Savers :
        save[s].at = "update" /\ save[s].old = Content /\ Content # None =>
            Content \in Range(backups)

\* Every pod ends up with what is persisted and its version marked, however the
\* saves of other pods overlap: the content can only be an older one where two
\* loads overlapped in the pod itself.
PodsConverge ==
    \A p \in Pods : <>[](/\ applied[p] = UpdatedAt
                         /\ p \in raced \/ (pod[p] = "up" /\ mem[p] = Content))
=============================================================================
