---------------------------- MODULE ParallelDump ----------------------------
(***************************************************************************)
(* integration/postgres/parallel_dump.go: one dump made by several pg_dump *)
(* processes over one exported snapshot, written as a ZIP archive into a   *)
(* pipe that the upload of run_execution.go reads.                         *)
(*                                                                         *)
(* The producer goroutine writes the archive: the schema, one entry per    *)
(* job in the order the workers create them, the indexes, the manifest.    *)
(* Workers compress into the bounded channel of their entry.  A write to   *)
(* the pipe goes through only while the upload reads it; nothing closes    *)
(* the read end, so a write never fails.                                   *)
(***************************************************************************)
EXTENDS Integers, FiniteSets, SequencesExt

CONSTANTS
    Sizes,       \* sizes of tables
    MaxTables,   \* bound on the tables of the database
    Jobs,        \* processes asked for
    SoloBytes, BatchBytes, BatchMaxCount,   \* limits of a job
    Chunks,      \* chunks each pg_dump writes
    ChunkCount,  \* capacity of an entry's channel
    MaxFaults    \* bound on failing processes and uploads

ASSUME DumpAssumption ==
    /\ Sizes \subseteq Nat
    /\ MaxTables \in Nat /\ Jobs \in Nat /\ MaxFaults \in Nat
    /\ {SoloBytes, BatchBytes, BatchMaxCount, Chunks, ChunkCount} \subseteq Nat \ {0}

VARIABLES
    tables,    \* snap.tables: the size of each table, largest first
    producer,  \* the section the producer goroutine is at
    failed,    \* firstErr, or the error of a section, is set
    queue,     \* jobs no worker has taken
    entries,   \* jobs in the order their entries were created
    written,   \* how many of them the producer is done with
    worker,    \* the job each worker runs, Free or Gone
    chunks,    \* for each job: chunks in its channel
    made,      \* for each job: chunks its process has written
    ended,     \* for each job: "open", or "ok" or "err" once done is closed
    cancelled, \* runParallelDump's context, or the one of the caller, is done
    archive,   \* files completed in the archive
    manifest,  \* files the manifest lists, once written
    snapshot,  \* the transaction that exported the snapshot is open
    upload,    \* "reads", then "eof" or "error" from the pipe, or "failed"
    returned,  \* the job's own context is cancelled: RunClaimedExecution returned
    faults     \* failures so far

plan == <<tables>>
channels == <<queue, entries, worker, chunks, made, ended>>
dumpVars == <<plan, producer, failed, written, channels, cancelled, archive,
              manifest, snapshot, upload, returned, faults>>

-----------------------------------------------------------------------------
(* planDataJobs *)

\* Recursive functions, which can be reasoned about, where the folds cannot.
Sum(s) ==
    LET to[n \in 0..Len(s)] == IF n = 0 THEN 0 ELSE to[n - 1] + s[n] IN to[Len(s)]

\* Tables of SoloBytes and more, which come first.
Solo(t) == {i \in DOMAIN t : \A k \in 1..i : t[k] >= SoloBytes}

MutFull(batch, bytes, size) == Len(batch) >= BatchMaxCount  \* bytes do not count
Full(batch, bytes, size) ==
    /\ batch # <<>>
    /\ bytes + size > BatchBytes \/ Len(batch) >= BatchMaxCount

Flush(p) == IF p.batch = <<>> THEN p.jobs ELSE Append(p.jobs, p.batch)

\* Table n gets a job of its own, or is the next one of a batch.
Place(t, n, p) ==
    IF n \in Solo(t)
      THEN [jobs |-> Append(p.jobs, <<n>>), batch |-> p.batch, bytes |-> p.bytes]
    ELSE IF Full(p.batch, p.bytes, t[n])
      THEN [jobs |-> Flush(p), batch |-> <<n>>, bytes |-> t[n]]
    ELSE [jobs |-> p.jobs, batch |-> Append(p.batch, n), bytes |-> p.bytes + t[n]]

\* What is planned after each table.
Placed(t) ==
    LET to[n \in 0..Len(t)] ==
          IF n = 0 THEN [jobs |-> <<>>, batch |-> <<>>, bytes |-> 0]
          ELSE Place(t, n, to[n - 1])
    IN  to

PlanDataJobs(t) == Flush(Placed(t)[Len(t)])

DataJobs == PlanDataJobs(tables)

\* Job 0 is the one for globals; the number of a data job is part of its name.
JobIds == 0..(MaxTables + 1)
AllJobs == 0..Len(DataJobs)

\* What --exclude-table-data of the job for globals names.
Excluded(t) == DOMAIN t

\* Table 0 stands for what the listing leaves out: extension tables, sequences.
TablesOf(j) ==
    IF j = 0 THEN (DOMAIN tables \cup {0}) \ Excluded(tables)
    ELSE Range(DataJobs[j])

Pre == <<"pre", 0>>
Data(j) == <<"data", j>>
Post == <<"post", 0>>

-----------------------------------------------------------------------------

Free == -1
Gone == -2

Workers == 1..(IF Jobs > 1 THEN Jobs ELSE 1)

\* Workers started: no more than there are jobs.
Started == {w \in Workers : w <= Len(DataJobs) + 1}

TablesUpTo(n) ==
    {t \in UNION {[1..k -> Sizes] : k \in 0..n} :
        \A i, k \in DOMAIN t : i < k => t[i] >= t[k]}

DumpInit ==
    /\ tables \in TablesUpTo(MaxTables)
    /\ producer = "pre"
    /\ failed = FALSE
    /\ queue = [i \in 1..(Len(DataJobs) + 1) |-> i - 1]
    /\ entries = <<>>
    /\ written = 0
    /\ worker = [w \in Workers |-> IF w \in Started THEN Free ELSE Gone]
    /\ chunks = [j \in JobIds |-> 0]
    /\ made = [j \in JobIds |-> 0]
    /\ ended = [j \in JobIds |-> "open"]
    /\ cancelled = FALSE
    /\ archive = <<>>
    /\ manifest = <<>>
    /\ snapshot = TRUE
    /\ upload = "reads"
    /\ returned = FALSE
    /\ faults = 0

TypeOK ==
    /\ tables \in Seq(Sizes)
    /\ producer \in {"pre", "data", "post", "meta", "close", "gone"}
    /\ queue \in Seq(JobIds) /\ entries \in Seq(JobIds)
    /\ written \in 0..Len(entries)
    /\ worker \in [Workers -> JobIds \cup {Free, Gone}]
    /\ chunks \in [JobIds -> 0..ChunkCount]
    /\ made \in [JobIds -> 0..Chunks]
    /\ ended \in [JobIds -> {"open", "ok", "err"}]
    /\ {failed, cancelled, snapshot, returned} \subseteq BOOLEAN
    /\ Range(archive) \subseteq {"pre", "data", "post"} \X JobIds
    /\ manifest \in {<<>>, archive}
    /\ faults \in 0..MaxFaults
    /\ upload \in {"reads", "eof", "error", "failed"}

Fault ==
    /\ faults < MaxFaults
    /\ faults' = faults + 1

-----------------------------------------------------------------------------
(* dumpSectionEntry, the archive's first and last SQL file *)

SectionWritten(at, file, next) ==
    /\ producer = at
    /\ upload = "reads"
    /\ ~cancelled
    /\ archive' = Append(archive, file)
    /\ producer' = next
    /\ UNCHANGED <<plan, failed, written, channels, cancelled, manifest,
                   snapshot, upload, returned, faults>>

SectionFails(at) ==
    /\ producer = at
    /\ IF cancelled THEN UNCHANGED faults ELSE Fault
    /\ failed' = TRUE
    /\ producer' = "close"
    /\ UNCHANGED <<plan, written, channels, cancelled, archive, manifest,
                   snapshot, upload, returned>>

Section ==
    \/ SectionWritten("pre", Pre, "data")
    \/ SectionWritten("post", Post, "meta")
    \/ SectionFails("pre")
    \/ SectionFails("post")

-----------------------------------------------------------------------------
(* parallelDumpWorker and rawZipEntry.run *)

Take(w) ==
    /\ producer = "data"
    /\ worker[w] = Free
    /\ IF cancelled \/ queue = <<>>
         THEN /\ worker' = [worker EXCEPT ![w] = Gone]
              /\ queue' = IF queue = <<>> THEN queue ELSE Tail(queue)
              /\ UNCHANGED entries
         ELSE /\ worker' = [worker EXCEPT ![w] = Head(queue)]
              /\ queue' = Tail(queue)
              /\ entries' = Append(entries, Head(queue))
    /\ UNCHANGED <<plan, producer, failed, written, chunks, made, ended, cancelled,
                   archive, manifest, snapshot, upload, returned, faults>>

Room(j) == chunks[j] < ChunkCount

\* The process writes one more chunk; with the channel full it waits.
WriteChunk(w) ==
    LET j == worker[w] IN
    /\ j \in JobIds
    /\ made[j] < Chunks /\ Room(j)
    /\ made' = [made EXCEPT ![j] = @ + 1]
    /\ chunks' = [chunks EXCEPT ![j] = @ + 1]
    /\ UNCHANGED <<plan, producer, failed, written, queue, entries, worker, ended,
                   cancelled, archive, manifest, snapshot, upload, returned, faults>>

\* done and chunks are closed, the worker goes on after a success only.
Ends(w, result, next) ==
    /\ worker[w] \in JobIds
    /\ ended' = [ended EXCEPT ![worker[w]] = result]
    /\ worker' = [worker EXCEPT ![w] = next]
    /\ UNCHANGED <<plan, producer, failed, written, queue, entries, chunks, made,
                   cancelled, archive, manifest, snapshot, upload, returned>>

DumpEnds(w) ==
    /\ worker[w] \in JobIds /\ made[worker[w]] = Chunks
    /\ Ends(w, "ok", Free)
    /\ UNCHANGED faults

MutDumpFails(w) ==           \* done and chunks are closed after a success only
    /\ IF cancelled THEN UNCHANGED faults ELSE Fault
    /\ worker[w] \in JobIds
    /\ worker' = [worker EXCEPT ![w] = Gone]
    /\ UNCHANGED <<plan, producer, failed, written, queue, entries, chunks, made, ended,
                   cancelled, archive, manifest, snapshot, upload, returned>>
\* It fails, is killed by the context, or waits for room when that ends.
DumpFails(w) ==
    /\ IF cancelled THEN UNCHANGED faults ELSE Fault
    /\ Ends(w, "err", Gone)

-----------------------------------------------------------------------------
(* runParallelDump: the loop over the entries, writeRawEntry and discard *)

Current == entries[written + 1]

\* One chunk goes to the pipe, or nowhere once an entry has failed.
MoveChunk ==
    /\ producer = "data" /\ written < Len(entries)
    /\ upload = "reads" \/ failed
    /\ chunks[Current] > 0
    /\ chunks' = [chunks EXCEPT ![Current] = @ - 1]
    /\ UNCHANGED <<plan, producer, failed, written, queue, entries, worker, made, ended,
                   cancelled, archive, manifest, snapshot, upload, returned, faults>>

EndEntry ==
    /\ producer = "data" /\ written < Len(entries)
    /\ chunks[Current] = 0 /\ ended[Current] # "open"
    /\ written' = written + 1
    /\ IF failed \/ ended[Current] = "ok"
         THEN UNCHANGED <<failed, cancelled>>
         ELSE failed' = TRUE /\ cancelled' = TRUE
    /\ archive' = IF failed' THEN archive ELSE Append(archive, Data(Current))
    /\ UNCHANGED <<plan, producer, channels, manifest, snapshot, upload, returned, faults>>

MutDrained ==                       \* the loop is left at the first error
    failed \/ (written = Len(entries) /\ \A w \in Workers : worker[w] = Gone)
\* The channel of entries is closed by the last worker, and empty.
Drained == written = Len(entries) /\ \A w \in Workers : worker[w] = Gone

EndData ==
    /\ producer = "data"
    /\ Drained
    /\ producer' = IF failed THEN "close" ELSE "post"
    /\ UNCHANGED <<plan, failed, written, channels, cancelled, archive, manifest,
                   snapshot, upload, returned, faults>>

\* The entries are listed in the order they were written.
WriteMeta ==
    /\ producer = "meta"
    /\ upload = "reads"
    /\ manifest' = archive
    /\ producer' = "close"
    /\ UNCHANGED <<plan, failed, written, channels, cancelled, archive, snapshot,
                   upload, returned, faults>>

MutReported == "eof"                \* writer.Close, whatever happened
Reported == IF failed THEN "error" ELSE "eof"

\* zw.Close, snap.release, cancel, and the end of the pipe.
Close ==
    /\ producer = "close"
    /\ upload = "reads"
    /\ producer' = "gone"
    /\ snapshot' = FALSE
    /\ cancelled' = TRUE
    /\ upload' = Reported
    /\ UNCHANGED <<plan, failed, written, channels, archive, manifest, returned, faults>>

-----------------------------------------------------------------------------
(* the upload, and the job that called it *)

UploadFails ==
    /\ upload = "reads"
    /\ Fault
    /\ upload' = "failed"
    /\ UNCHANGED <<plan, producer, failed, written, channels, cancelled, archive,
                   manifest, snapshot, returned>>

\* The worker cancels the context of the job, which rolls the transaction back.
Return == returned' = TRUE /\ cancelled' = TRUE /\ snapshot' = FALSE

JobReturns ==
    /\ upload # "reads" /\ ~returned
    /\ Return
    /\ UNCHANGED <<plan, producer, failed, written, channels, archive, manifest,
                   upload, faults>>

Produce == Section \/ MoveChunk \/ EndEntry \/ EndData \/ WriteMeta \/ Close
Work(w) == Take(w) \/ WriteChunk(w) \/ DumpEnds(w) \/ DumpFails(w)

DumpNext ==
    \/ Produce
    \/ \E w \in Workers : Work(w)
    \/ UploadFails
    \/ JobReturns

\* Goroutines run, pg_dump makes progress and the upload reads until it fails.
DumpFairness ==
    /\ WF_dumpVars(Produce)
    /\ \A w \in Workers : WF_dumpVars(Work(w))
    /\ WF_dumpVars(JobReturns)

-----------------------------------------------------------------------------

\* Every table is dumped by one job and no other, the unlisted ones included,
\* and a job for several has at most BatchMaxCount, BatchBytes together.
EveryTableOnce ==
    /\ \A i \in DOMAIN tables \cup {0} :
         \E j \in AllJobs : /\ i \in TablesOf(j)
                            /\ \A k \in AllJobs \ {j} : i \notin TablesOf(k)
    /\ \A j \in DOMAIN DataJobs :
         Len(DataJobs[j]) > 1 =>
             /\ Len(DataJobs[j]) <= BatchMaxCount
             /\ Sum([i \in DOMAIN DataJobs[j] |-> tables[DataJobs[j][i]]]) <= BatchBytes

\* An upload that ends without an error has got the whole archive: the schema,
\* every job once, the indexes, and a manifest that lists them in this order.
CompleteAtEnd ==
    upload = "eof" =>
        /\ Len(archive) = Len(DataJobs) + 3
        /\ Head(archive) = Pre /\ Last(archive) = Post
        /\ manifest = archive
        /\ Range(archive) = {Pre, Post} \cup {Data(j) : j \in AllJobs}

\* The snapshot is given up by runParallelDump only when no pg_dump uses it, and
\* the upload sees the end of the pipe only then.
NoDumpLeftBehind ==
    producer = "gone" => \A w \in Workers : worker[w] \notin JobIds

\* Whatever fails, the processes end and the transaction does not stay open.
DumpsEnd == <>(returned /\ ~snapshot /\ \A w \in Workers : worker[w] \notin JobIds)
=============================================================================
