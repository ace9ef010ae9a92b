-------------------------- MODULE ParallelRestore ---------------------------
(***************************************************************************)
(* integration/postgres/restore.go on an archive ParallelDump has made:    *)
(* the schema, then the data files with several psql, then the indexes.    *)
(***************************************************************************)
EXTENDS ParallelDump

CONSTANT RestoreJobs   \* psql processes asked for

ASSUME RestoreAssumption == RestoreJobs \in Nat

VARIABLES
    stage,     \* "none", "pre", "data", "post", then "ok" or "failed"
    todo,      \* data files no worker has taken
    psql,      \* the file each worker restores, Idle or Done
    errs,      \* errors sent
    stopped,   \* the context of the workers is cancelled
    restored   \* files restored, in the order they ended

restoreVars == <<stage, todo, psql, errs, stopped, restored>>
vars == <<dumpVars, restoreVars>>

Idle == <<"idle", 0>>
Done == <<"done", 0>>

Sessions == 1..(IF RestoreJobs > 1 THEN RestoreJobs ELSE 1)
Files == {Pre, Post} \cup {Data(j) : j \in JobIds}

Init ==
    /\ DumpInit
    /\ stage = "none"
    /\ todo = <<>>
    /\ psql = [s \in Sessions |-> Done]
    /\ errs = 0
    /\ stopped = FALSE
    /\ restored = <<>>

\* Files of the manifest, all of which have to be in the archive.
Listed(files) ==
    LET to[n \in 0..Len(files)] ==
          IF n = 0 THEN <<>>
          ELSE IF files[n] \in {Pre, Post} THEN to[n - 1]
          ELSE Append(to[n - 1], files[n])
    IN  to

DataFiles == Listed(manifest)[Len(manifest)]

RestoreTypeOK ==
    /\ TypeOK
    /\ stage \in {"none", "pre", "data", "post", "ok", "failed"}
    /\ todo \in Seq(Files)
    /\ psql \in [Sessions -> Files \cup {Idle, Done}]
    /\ errs \in 0..Len(DataFiles)
    /\ errs <= Cardinality(Sessions)
    /\ stopped \in BOOLEAN
    /\ restored \in Seq(Files)

OpenArchive ==
    /\ stage = "none"
    /\ upload = "eof"
    /\ stage' = IF manifest # <<>> /\ Range(manifest) \subseteq Range(archive)
                  THEN "pre" ELSE "failed"
    /\ UNCHANGED <<todo, psql, errs, stopped, restored>>

\* restoreDataFiles: the queue is filled, no more workers than files.
StartData ==
    /\ stage' = IF DataFiles = <<>> THEN "post" ELSE "data"
    /\ todo' = DataFiles
    /\ psql' = [s \in Sessions |-> IF s <= Len(DataFiles) THEN Idle ELSE Done]

RestorePre ==
    /\ stage = "pre"
    /\ \/ /\ restored' = Append(restored, Pre)
          /\ StartData
          /\ UNCHANGED faults
       \/ /\ Fault
          /\ stage' = "failed"
          /\ UNCHANGED <<todo, psql, restored>>
    /\ UNCHANGED <<errs, stopped>>

TakeFile(s) ==
    /\ stage = "data"
    /\ psql[s] = Idle
    /\ todo' = IF todo = <<>> THEN todo ELSE Tail(todo)
    /\ psql' = [psql EXCEPT ![s] = IF stopped \/ todo = <<>> THEN Done ELSE Head(todo)]
    /\ UNCHANGED <<stage, errs, stopped, restored>>

FileRestored(s) ==
    /\ psql[s] \notin {Idle, Done}
    /\ restored' = Append(restored, psql[s])
    /\ psql' = [psql EXCEPT ![s] = Idle]
    /\ UNCHANGED <<stage, todo, errs, stopped>>

Sent == 1

FileFails(s) ==
    /\ stopped' = TRUE
    /\ psql' = [psql EXCEPT ![s] = Done]
    /\ errs' = errs + Sent

\* psql fails, or is killed because another one has failed.
RestoreFails(s) ==
    /\ psql[s] \notin {Idle, Done}
    /\ IF stopped THEN UNCHANGED faults ELSE Fault
    /\ FileFails(s)
    /\ UNCHANGED <<stage, todo, restored>>

MutReceived == errs > 0        \* errs is not closed
Received == TRUE

MutAllDone == todo = <<>>      \* the workers are not waited for
AllDone == \A s \in Sessions : psql[s] = Done

EndDataFiles ==
    /\ stage = "data"
    /\ AllDone /\ Received
    /\ stage' = IF errs > 0 THEN "failed" ELSE "post"
    /\ UNCHANGED <<todo, psql, errs, stopped, restored>>

RestorePost ==
    /\ stage = "post"
    /\ \/ /\ restored' = Append(restored, Post)
          /\ stage' = "ok"
          /\ UNCHANGED faults
       \/ /\ Fault
          /\ stage' = "failed"
          /\ UNCHANGED restored
    /\ UNCHANGED <<todo, psql, errs, stopped>>

dumpOnly == <<tables, producer, failed, written, channels, cancelled, archive,
              manifest, snapshot, upload, returned>>

Restore ==
    /\ \/ OpenArchive /\ UNCHANGED faults
       \/ RestorePre
       \/ \E s \in Sessions :
            \/ TakeFile(s) /\ UNCHANGED faults
            \/ FileRestored(s) /\ UNCHANGED faults
            \/ RestoreFails(s)
       \/ EndDataFiles /\ UNCHANGED faults
       \/ RestorePost
    /\ UNCHANGED dumpOnly

Next ==
    \/ DumpNext /\ UNCHANGED restoreVars
    \/ Restore

Spec == Init /\ [][Next]_vars

\* psql processes end, for better or worse.
FairSpec ==
    /\ Init /\ [][Next]_vars
    /\ DumpFairness
    /\ WF_vars(Restore)

-----------------------------------------------------------------------------

\* A restore that reports success has loaded each table of the database, no file
\* twice, the data after the schema and the indexes after all of the data.
RestoredWhole ==
    stage = "ok" =>
        /\ \A i, k \in DOMAIN restored : i # k => restored[i] # restored[k]
        /\ Head(restored) = Pre /\ Last(restored) = Post
        /\ \A s \in Sessions : psql[s] = Done
        /\ \A i \in DOMAIN tables \cup {0} :
             \E j \in AllJobs : i \in TablesOf(j) /\ Data(j) \in Range(restored)

\* Every restore of an archive ends.
RestoreEnds == upload = "eof" ~> stage \in {"ok", "failed"}
=============================================================================
