------------------------- MODULE ConfigFilesProofs --------------------------
(***************************************************************************)
(* What holds of ConfigFiles for every set of pods, savers and contents:   *)
(* nothing is applied that was not persisted, and a save replaces only     *)
(* what a backup holds.                                                    *)
(***************************************************************************)
EXTENDS ConfigFiles, TLAPS

-----------------------------------------------------------------------------
\* Appending to a sequence, and putting a value in front of one, add the value
\* to what the sequence holds.
LEMMA AppendHolds ==
    ASSUME NEW S, NEW s \in Seq(S), NEW x \in S
    PROVE  /\ Append(s, x) \in Seq(S)
           /\ Range(Append(s, x)) = Range(s) \cup {x}
  <1>1. /\ Append(s, x) \in Seq(S)
        /\ DOMAIN Append(s, x) = 1..(Len(s) + 1) /\ DOMAIN s = 1..Len(s) /\ Len(s) \in Nat
        /\ \A i \in 1..Len(s) : Append(s, x)[i] = s[i]
        /\ Append(s, x)[Len(s) + 1] = x
    OBVIOUS
  <1>2. \A i \in 1..(Len(s) + 1) : i \in 1..Len(s) \/ i = Len(s) + 1
    BY <1>1
  <1>3. Len(s) + 1 \in 1..(Len(s) + 1) /\ 1..Len(s) \subseteq 1..(Len(s) + 1)
    BY <1>1
  <1>4. Range(Append(s, x)) \subseteq Range(s) \cup {x}
    BY <1>1, <1>2 DEF Range
  <1>5. Range(s) \cup {x} \subseteq Range(Append(s, x))
    BY <1>1, <1>3 DEF Range
  <1> QED BY <1>1, <1>4, <1>5

LEMMA FrontHolds ==
    ASSUME NEW S, NEW s \in Seq(S), NEW x \in S
    PROVE  /\ <<x>> \o s \in Seq(S)
           /\ Range(<<x>> \o s) = Range(s) \cup {x}
  <1> DEFINE t == <<x>> \o s
  <1>1. /\ t \in Seq(S) /\ Len(t) = Len(s) + 1 /\ Len(s) \in Nat
        /\ DOMAIN t = 1..Len(t) /\ DOMAIN s = 1..Len(s)
        /\ t[1] = x
    OBVIOUS
  <1>2. ASSUME NEW i \in 1..Len(s) PROVE t[i + 1] = s[i]
    OBVIOUS
  <1>3. ASSUME NEW i \in 1..Len(t), i # 1 PROVE i - 1 \in 1..Len(s) /\ t[i] = s[i - 1]
    BY <1>1, <1>3
  <1>4. Range(t) \subseteq Range(s) \cup {x}
    BY <1>1, <1>3 DEF Range
  <1>5. \A i \in 1..Len(s) : i + 1 \in 1..Len(t)
    BY <1>1
  <1>6. 1 \in 1..Len(t)
    BY <1>1
  <1>7. x \in Range(t)
    BY <1>1, <1>6 DEF Range
  <1>8. \A i \in 1..Len(s) : s[i] \in Range(t)
    BY <1>1, <1>2, <1>5 DEF Range
  <1>9. Range(s) \subseteq Range(t)
    BY <1>1, <1>8 DEF Range
  <1> QED BY <1>1, <1>4, <1>7, <1>9

\* The last value of a sequence is one of its values.
LEMMA LastHolds ==
    ASSUME NEW S, NEW s \in Seq(S), s # <<>>
    PROVE  Last(s) \in Range(s) /\ Range(s) \subseteq S
  <1>1. Len(s) \in 1..Len(s) /\ DOMAIN s = 1..Len(s)
    OBVIOUS
  <1> QED BY <1>1 DEF Last, Range

\* The loop that prunes looks for more backups than the listing gives it.
LEMMA NothingPruned == ASSUME NEW bs \in Seq(Contents) PROVE Prune(bs) = bs
  <1>1. Kept \in Nat /\ Len(bs) \in Nat
    BY ConfigAssumption
  <1>2. Len(Listed(bs)) <= Kept
    BY <1>1 DEF Listed
  <1>3. Len(Listed(bs)) \in Nat
    BY <1>1 DEF Listed
  <1>4. {i \in 1..Len(Listed(bs)) : i > Kept} = {}
    BY <1>1, <1>2, <1>3
  <1> QED BY <1>4 DEF Prune

-----------------------------------------------------------------------------
\* The inductive invariant, part by part.

\* Only pods that are up handle requests and follow the row.
OnlyUp ==
    /\ \A s \in Savers : save[s].at # "idle" => pod[PodOf[s]] = "up" /\ save[s].new \in Contents
    /\ \A p \in Pods : watch[p].at # "idle" => pod[p] = "up"

\* What a handler or Watch is about to apply has been persisted.
HeldIsSaved ==
    /\ \A s \in Savers : save[s].at \in {"apply", "mark"} => save[s].new \in Range(versions)
    /\ \A p \in Pods : watch[p].at # "idle" => watch[p].new \in Range(versions)

\* A pod that seeds the row works with the file already.
SeedsFile == \A p \in Pods : pod[p] = "seed" => mem[p] = File

\* A handler updates the row after the backup of what it has read.
OldIsKept ==
    \A s \in Savers :
        save[s].at = "update" /\ save[s].old # None => save[s].old \in Range(backups)

Inv == TypeOK /\ OnlyUp /\ HeldIsSaved /\ SeedsFile /\ OldIsKept /\ AppliedIsSaved

LEMMA InvInit == Init => Inv
  BY ConfigAssumption
  DEF Init, Inv, TypeOK, OnlyUp, HeldIsSaved, SeedsFile, OldIsKept, AppliedIsSaved, Idle, Loaded

\* The row gets one more content.
LEMMA RowGrows ==
    ASSUME TypeOK, NEW c \in Contents, UpdateConfigFile(c)
    PROVE  versions' \in Seq(Contents) /\ Range(versions') = Range(versions) \cup {c}
  BY AppendHolds DEF TypeOK, UpdateConfigFile

\* What the row holds is one of its contents.
LEMMA ContentHolds ==
    ASSUME TypeOK
    PROVE  /\ Range(versions) \subseteq Contents /\ Range(backups) \subseteq Contents
           /\ Content \in Loaded
           /\ Range(versions) # {} => Content \in Range(versions)
           /\ UpdatedAt \in Nat
  <1>1. CASE versions # <<>>
    BY <1>1, LastHolds DEF TypeOK, Content, Loaded, UpdatedAt, Range
  <1>2. CASE versions = <<>>
    BY <1>2 DEF TypeOK, Content, Loaded, UpdatedAt, Range
  <1> QED BY <1>1, <1>2

\* A handler that begins, and one that has updated the row.
Handlers == [at : {"idle", "backup", "update", "apply", "mark"},
             new : Loaded, old : Loaded, version : Nat]

LEMMA BeginsTyped ==
    ASSUME NEW c \in Loaded, NEW o \in Loaded, NEW h,
           h = [Idle EXCEPT !.at = "backup", !.new = c, !.old = o]
    PROVE  h \in Handlers /\ h.at = "backup" /\ h.new = c
  <1>1. h \in Handlers
    BY DEF Idle, Handlers, Loaded
  <1>2. h.at = "backup" /\ h.new = c
    BY DEF Idle
  <1> QED BY <1>1, <1>2

LEMMA UpdatedTyped ==
    ASSUME TypeOK, NEW s \in Savers
    PROVE  [save EXCEPT ![s].at = "apply", ![s].version = UpdatedAt + 1] \in [Savers -> Handlers]
  <1>1. save[s] \in Handlers /\ save \in [Savers -> Handlers] /\ UpdatedAt + 1 \in Nat
    BY ContentHolds DEF TypeOK, Handlers
  <1>2. [save[s] EXCEPT !.at = "apply", !.version = UpdatedAt + 1] \in Handlers
    BY <1>1 DEF Handlers
  <1>3. [save EXCEPT ![s].at = "apply", ![s].version = UpdatedAt + 1]
            = [save EXCEPT ![s] = [save[s] EXCEPT !.at = "apply", !.version = UpdatedAt + 1]]
    BY <1>1
  <1> QED BY <1>1, <1>2, <1>3

\* A handler that goes on to its next call keeps what it holds, ...
SaveTo(f, s, a) ==
    /\ f \in [Savers -> Handlers]
    /\ f[s].at = a /\ f[s].new = save[s].new /\ f[s].old = save[s].old
    /\ \A r \in Savers : r # s => f[r] = save[r]

LEMMA SaveMoves ==
    ASSUME TypeOK, NEW s \in Savers, NEW a \in {"idle", "backup", "update", "apply", "mark"}
    PROVE  SaveTo([save EXCEPT ![s].at = a], s, a)
  <1> DEFINE f == [save EXCEPT ![s].at = a]
  <1> DEFINE h == [save[s] EXCEPT !.at = a]
  <1>1. save[s] \in Handlers /\ save \in [Savers -> Handlers]
    BY DEF TypeOK, Handlers
  <1>2. h \in Handlers /\ h.at = a /\ h.new = save[s].new /\ h.old = save[s].old
    BY <1>1 DEF Handlers
  <1>3. f = [save EXCEPT ![s] = h]
    BY <1>1
  <1> HIDE DEF h, f
  <1>4. SaveTo(f, s, a)
    BY <1>1, <1>2, <1>3 DEF SaveTo
  <1> QED BY <1>4 DEF f

\* ... and so does Watch.
Watches == [at : {"idle", "check", "apply", "mark"}, new : Loaded, old : {None}, version : Nat]

WatchTo(f, p, a) ==
    /\ f \in [Pods -> Watches]
    /\ f[p].at = a /\ f[p].new = watch[p].new
    /\ \A q \in Pods : q # p => f[q] = watch[q]

LEMMA WatchMoves ==
    ASSUME TypeOK, NEW p \in Pods, NEW a \in {"apply", "mark"}
    PROVE  WatchTo([watch EXCEPT ![p].at = a], p, a)
  <1> DEFINE f == [watch EXCEPT ![p].at = a]
  <1> DEFINE h == [watch[p] EXCEPT !.at = a]
  <1>1. watch[p] \in Watches /\ watch \in [Pods -> Watches]
    BY DEF TypeOK, Watches
  <1>2. h \in Watches /\ h.at = a /\ h.new = watch[p].new
    BY <1>1 DEF Watches
  <1>3. f = [watch EXCEPT ![p] = h]
    BY <1>1
  <1> HIDE DEF h, f
  <1>4. WatchTo(f, p, a)
    BY <1>1, <1>2, <1>3 DEF WatchTo
  <1> QED BY <1>4 DEF f

\* A handler that does nothing is one of those of either kind.
LEMMA IdleTyped == Idle \in Handlers /\ Idle \in Watches /\ Idle.at = "idle"
  BY DEF Idle, Handlers, Watches, Loaded

LEMMA MarkTyped ==
    ASSUME TypeOK, NEW p \in Pods
    PROVE  [applied EXCEPT ![p] = UpdatedAt] \in [Pods -> Nat]
  BY ContentHolds DEF TypeOK

LEMMA InvStep == Inv /\ [Next]_vars => Inv'
  <1> SUFFICES ASSUME Inv, [Next]_vars PROVE Inv'
    OBVIOUS
  <1>0. /\ Content \in Loaded /\ UpdatedAt \in Nat
        /\ Range(versions) \subseteq Contents /\ Range(backups) \subseteq Contents
        /\ Range(versions) # {} => Content \in Range(versions)
    BY ContentHolds DEF Inv
  <1> USE ConfigAssumption, <1>0
      DEF Inv, TypeOK, OnlyUp, HeldIsSaved, SeedsFile, OldIsKept, AppliedIsSaved, Idle, Loaded,
          row, local, bounds
  <1>1. ASSUME NEW p \in Pods, LoadOne(p) PROVE Inv'
    <2>1. versions # <<>> => Content \in Range(versions)
      BY LastHolds DEF Content
    <2>2. /\ UNCHANGED <<versions, backups, save, watch, raced, saves, faults>>
          /\ pod[p] = "down"
          /\ \E to \in {"seed", "up"}, c \in Loaded :
                /\ pod' = [pod EXCEPT ![p] = to] /\ mem' = [mem EXCEPT ![p] = c]
                /\ to = "seed" => c = File
                /\ to = "up" => c \in Range(versions)
      BY <1>1, <2>1 DEF LoadOne
    <2>3. applied' = applied \/ applied' = [applied EXCEPT ![p] = UpdatedAt]
      BY <1>1 DEF LoadOne
    <2>4. TypeOK'
      <3>1. applied' \in [Pods -> Nat]
        BY <2>3, MarkTyped
      <3>2. pod' \in [Pods -> {"down", "seed", "up"}] /\ mem' \in [Pods -> Loaded]
        BY <2>2
      <3>3. UNCHANGED <<versions, backups, save, watch, raced, saves, faults>>
        BY <2>2
      <3> QED BY <3>1, <3>2, <3>3
    <2>5. OnlyUp' /\ HeldIsSaved' /\ OldIsKept'
      BY <2>2
    <2>6. SeedsFile' /\ AppliedIsSaved'
      BY <2>2
    <2> QED BY <2>4, <2>5, <2>6
  <1>2. ASSUME NEW p \in Pods, Seed(p) PROVE Inv'
    <2>1. versions' \in Seq(Contents) /\ Range(versions') = Range(versions) \cup {File}
      BY <1>2, RowGrows DEF Seed
    <2> QED BY <1>2, <2>1 DEF Seed, Seeded
  <1>3. ASSUME NEW p \in Pods, Lose(p) PROVE Inv'
    BY <1>3 DEF Lose, Fault
  <1>4. ASSUME NEW s \in Savers, NEW c \in Contents, Begin(s, c) PROVE Inv'
    <2> DEFINE h == [Idle EXCEPT !.at = "backup", !.new = c, !.old = Content]
    <2>1. h \in Handlers /\ h.at = "backup" /\ h.new = c
      BY BeginsTyped
    <2>2. /\ UNCHANGED <<versions, backups, pod, mem, applied, watch, raced, faults>>
          /\ pod[PodOf[s]] = "up" /\ saves' = saves + 1
          /\ save' = [save EXCEPT ![s] = h]
      <3> HIDE DEF Idle
      <3> QED BY <1>4 DEF Begin
    <2> HIDE DEF h
    <2>3. TypeOK'
      <3>1. save' \in [Savers -> Handlers]
        BY <2>1, <2>2 DEF Handlers
      <3> QED BY <2>2, <3>1 DEF Handlers
    <2>4. OnlyUp' /\ HeldIsSaved' /\ SeedsFile' /\ OldIsKept' /\ AppliedIsSaved'
      BY <2>1, <2>2
    <2> QED BY <2>3, <2>4
  <1>5. ASSUME NEW s \in Savers, CreateBackup(s) PROVE Inv'
    <2>1. backups' \in Seq(Contents) /\ Range(backups) \subseteq Range(backups')
          /\ (save[s].old # None => save[s].old \in Range(backups'))
      <3>1. CASE save[s].old = None
        BY <1>5, <3>1 DEF CreateBackup
      <3>2. CASE save[s].old # None
        <4>1. save[s].old \in Contents
          BY <3>2
        <4>2. /\ <<save[s].old>> \o backups \in Seq(Contents)
              /\ Range(<<save[s].old>> \o backups) = Range(backups) \cup {save[s].old}
          BY <4>1, FrontHolds
        <4>3. backups' = <<save[s].old>> \o backups
          BY <1>5, <3>2, <4>2, NothingPruned DEF CreateBackup
        <4> QED BY <4>2, <4>3
      <3> QED BY <3>1, <3>2
    <2>2. save' = [save EXCEPT ![s].at = "update"] /\ save[s].at = "backup"
          /\ UNCHANGED <<versions, pod, mem, applied, watch, raced, saves, faults>>
      BY <1>5 DEF CreateBackup
    <2>3. SaveTo(save', s, "update")
      BY <2>2, SaveMoves
    <2>4. TypeOK'
      BY <2>1, <2>2, <2>3 DEF SaveTo, Handlers
    <2>5. OnlyUp' /\ HeldIsSaved' /\ SeedsFile' /\ AppliedIsSaved'
      BY <2>2, <2>3 DEF SaveTo
    <2>6. OldIsKept'
      BY <2>1, <2>2, <2>3 DEF SaveTo
    <2> QED BY <2>4, <2>5, <2>6
  <1>6. ASSUME NEW s \in Savers, Update(s) \/ LostAnswer(s) PROVE Inv'
    <2>1. versions' \in Seq(Contents) /\ Range(versions') = Range(versions) \cup {save[s].new}
      BY <1>6, RowGrows DEF Update, LostAnswer
    <2>2. CASE Update(s)
      <3>1. save' = [save EXCEPT ![s] = [@ EXCEPT !.at = "apply", !.version = UpdatedAt + 1]]
        BY <2>2 DEF Update
      <3>2. UNCHANGED <<backups, pod, mem, applied, watch, raced, saves, faults>>
        BY <2>2 DEF Update
      <3>3. save[s].at = "update" /\ save[s].new \in Range(versions')
        BY <2>1, <2>2 DEF Update
      <3>4. TypeOK'
        <4>1. save' \in [Savers -> Handlers]
          BY <2>2, UpdatedTyped DEF Update
        <4> QED BY <2>1, <3>2, <4>1 DEF Handlers
      <3>5. OnlyUp' /\ HeldIsSaved' /\ SeedsFile' /\ OldIsKept' /\ AppliedIsSaved'
        BY <2>1, <3>1, <3>2, <3>3
      <3> QED BY <3>4, <3>5
    <2>3. CASE LostAnswer(s)
      BY <2>1, <2>3 DEF LostAnswer, Fault
    <2> QED BY <1>6, <2>2, <2>3
  <1>7. ASSUME NEW s \in Savers, FailedCall(s) PROVE Inv'
    BY <1>7 DEF FailedCall, SaveFails, Fault
  <1>8. ASSUME NEW s \in Savers, ApplySaved(s) PROVE Inv'
    <2>1. /\ save' = [save EXCEPT ![s].at = "mark"] /\ save[s].at = "apply"
          /\ mem' = [mem EXCEPT ![PodOf[s]] = save[s].new]
          /\ raced' \subseteq Pods
          /\ UNCHANGED <<versions, backups, pod, applied, watch, saves, faults>>
      BY <1>8 DEF ApplySaved, Applies
    <2>2. SaveTo(save', s, "mark")
      BY <2>1, SaveMoves
    <2>3. mem' \in [Pods -> Loaded]
      BY <2>1
    <2>4. TypeOK'
      BY <2>1, <2>2, <2>3 DEF SaveTo, Handlers
    <2>5. OnlyUp' /\ HeldIsSaved' /\ OldIsKept'
      BY <2>1, <2>2 DEF SaveTo
    <2>6. SeedsFile' /\ AppliedIsSaved'
      BY <2>1
    <2> QED BY <2>4, <2>5, <2>6
  <1>9. ASSUME NEW s \in Savers, MarkSaved(s) PROVE Inv'
    BY <1>9 DEF MarkSaved
  <1>10. ASSUME NEW p \in Pods, WatchGet(p) PROVE Inv'
    BY <1>10 DEF WatchGet
  <1>11. ASSUME NEW p \in Pods, WatchCheck(p) PROVE Inv'
    <2>1. /\ \/ watch' = [watch EXCEPT ![p].at = "apply"]
             \/ watch' = [watch EXCEPT ![p] = Idle]
          /\ watch[p].at = "check"
          /\ UNCHANGED <<versions, backups, pod, mem, applied, save, raced, saves, faults>>
      BY <1>11 DEF WatchCheck
    <2>2. /\ watch' \in [Pods -> Watches]
          /\ watch'[p].at # "idle" => watch'[p].new = watch[p].new
          /\ \A q \in Pods : q # p => watch'[q] = watch[q]
      <3>1. CASE watch' = [watch EXCEPT ![p].at = "apply"]
        <4>1. WatchTo(watch', p, "apply")
          BY <3>1, WatchMoves
        <4> QED BY <4>1 DEF WatchTo
      <3>2. CASE watch' = [watch EXCEPT ![p] = Idle]
        <4> HIDE DEF Idle
        <4>1. watch \in [Pods -> Watches]
          BY DEF Watches
        <4> QED BY <3>2, <4>1, IdleTyped
      <3> QED BY <2>1, <3>1, <3>2
    <2>3. TypeOK'
      BY <2>1, <2>2 DEF Watches
    <2>4. OnlyUp' /\ HeldIsSaved'
      BY <2>1, <2>2
    <2>5. OldIsKept' /\ SeedsFile' /\ AppliedIsSaved'
      BY <2>1
    <2> QED BY <2>3, <2>4, <2>5
  <1>12. ASSUME NEW p \in Pods, WatchApply(p) PROVE Inv'
    <2>1. /\ watch' = [watch EXCEPT ![p].at = "mark"] /\ watch[p].at = "apply"
          /\ mem' = [mem EXCEPT ![p] = watch[p].new]
          /\ raced' \subseteq Pods
          /\ UNCHANGED <<versions, backups, pod, applied, save, saves, faults>>
      BY <1>12 DEF WatchApply, Applies
    <2>2. WatchTo(watch', p, "mark")
      BY <2>1, WatchMoves
    <2>3. mem' \in [Pods -> Loaded]
      BY <2>1
    <2>4. TypeOK'
      BY <2>1, <2>2, <2>3 DEF WatchTo, Watches
    <2>5. OnlyUp' /\ HeldIsSaved' /\ OldIsKept'
      BY <2>1, <2>2 DEF WatchTo
    <2>6. SeedsFile' /\ AppliedIsSaved'
      BY <2>1
    <2> QED BY <2>4, <2>5, <2>6
  <1>13. ASSUME NEW p \in Pods, WatchMark(p) PROVE Inv'
    BY <1>13 DEF WatchMark, WatchMarked
  <1>14. CASE UNCHANGED vars
    BY <1>14 DEF vars
  <1> QED
    BY <1>1, <1>2, <1>3, <1>4, <1>5, <1>6, <1>7, <1>8, <1>9, <1>10, <1>11, <1>12, <1>13, <1>14
    DEF Next, Boot, Watch, Carry, ValidateAndSave, RestoreBackup

LEMMA Invariant == Spec => []Inv
  BY InvInit, InvStep, PTL DEF Spec

\* The variables keep their types, whatever pods are lost and calls fail.
THEOREM TypeCorrect == Spec => []TypeOK
  <1>1. Inv => TypeOK
    BY DEF Inv
  <1> QED BY Invariant, <1>1, PTL

\* No pod ever works with a configuration that was not persisted.
THEOREM NothingUnsaved == Spec => []AppliedIsSaved
  <1>1. Inv => AppliedIsSaved
    BY DEF Inv
  <1> QED BY Invariant, <1>1, PTL

\* A save that no other write overtook replaces only what a backup holds, for
\* any number of saves: the pruning never removes one.
THEOREM BackupBeforeUpdate == Spec => []ReplacedIsKept
  <1>1. Inv => ReplacedIsKept
    BY DEF Inv, OldIsKept, ReplacedIsKept
  <1> QED BY Invariant, <1>1, PTL
=============================================================================
