------------------------------ MODULE LogTail -------------------------------
(***************************************************************************)
(* logtail.Tail: the last lines a dump or a restore has printed, persisted *)
(* now and then by goroutines of its own and, before the final report, by  *)
(* FlushNow.                                                               *)
(*                                                                         *)
(* Lines are numbered; the tail is the last MaxLines of them, so the       *)
(* number of the last one stands for it.  t.mu covers Write and the first  *)
(* half of FlushNow, each of which is one step; a flush holds t.flushMu    *)
(* from Begin to End.                                                      *)
(***************************************************************************)
EXTENDS Naturals

CONSTANTS
    Callers,      \* concurrent calls of FlushNow
    None,         \* no flush
    FlushFails,   \* the update of the row may fail
    MaxLinesRead, \* bound on the lines written
    MaxFlushes    \* bound on the flushes started

ASSUME TailConstants ==
    /\ FlushFails \in BOOLEAN
    /\ MaxLinesRead \in Nat /\ MaxFlushes \in Nat
    /\ None \notin Nat

Flushes == 1..MaxFlushes

VARIABLES
    last,      \* the last complete line of the tail, 0 when t.lines is empty
    gap,       \* minFlushGap has passed since lastFlush
    seq,       \* t.seq
    snap,      \* the copy of the tail each flush was given
    async,     \* goroutines in runFlush, before t.flushMu
    waits,     \* FlushNow callers: the flush they are in, before t.flushMu
    flushedSeq,\* t.flushedSeq
    holder,    \* the flush that holds t.flushMu
    persisted  \* the tail in the row's log_tail column

tailVars == <<last, gap, seq, snap, async, waits, flushedSeq, holder, persisted>>

TailTypeOK ==
    /\ last \in Nat
    /\ gap \in BOOLEAN
    /\ seq \in 0..MaxFlushes
    /\ snap \in [Flushes -> Nat]
    /\ async \in SUBSET Flushes
    /\ waits \in [Callers -> Flushes \cup {None}]
    /\ flushedSeq \in 0..MaxFlushes
    /\ holder \in Flushes \cup {None}
    /\ persisted \in Nat

TailInit ==
    /\ last = 0
    /\ gap = TRUE
    /\ seq = 0
    /\ snap = [i \in Flushes |-> 0]
    /\ async = {}
    /\ waits = [c \in Callers |-> None]
    /\ flushedSeq = 0
    /\ holder = None
    /\ persisted = 0

\* A flush number and a copy of the tail, taken under t.mu.
Number(n) ==
    /\ seq < MaxFlushes
    /\ seq' = seq + 1
    /\ snap' = [snap EXCEPT ![seq + 1] = n]

\* Write reads k more lines (none, when what it gets does not end one), then
\* flushes if there is something to show and the gap has passed.
Write(k) ==
    /\ last + k <= MaxLinesRead
    /\ last' = last + k
    /\ IF last' > 0 /\ gap
         THEN /\ Number(last')
              /\ async' = async \cup {seq + 1}
              /\ gap' = FALSE
         ELSE UNCHANGED <<seq, snap, async, gap>>
    /\ UNCHANGED <<waits, flushedSeq, holder, persisted>>

GapPasses ==
    /\ ~gap
    /\ gap' = TRUE
    /\ UNCHANGED <<last, seq, snap, async, waits, flushedSeq, holder, persisted>>

FlushNow(c) ==
    /\ waits[c] = None
    /\ last > 0
    /\ Number(last)
    /\ waits' = [waits EXCEPT ![c] = seq + 1]
    /\ UNCHANGED <<last, gap, async, flushedSeq, holder, persisted>>

\* runFlush with t.flushMu held: a flush older than one already done is dropped.
MutSuperseded(i) == FALSE          \* every flush is carried out
Superseded(i) == i <= flushedSeq

BeginFlush(i) ==
    /\ holder = None
    /\ i \in async \/ \E c \in Callers : waits[c] = i
    /\ ~Superseded(i)
    /\ holder' = i
    /\ flushedSeq' = i
    /\ UNCHANGED <<last, gap, seq, snap, async, waits, persisted>>

\* The goroutine or the FlushNow call that ran flush i ends.
Return(i) ==
    /\ async' = async \ {i}
    /\ waits' = [c \in Callers |-> IF waits[c] = i THEN None ELSE waits[c]]

MutBlocked(i) == FALSE             \* superseded flushes do not wait for t.flushMu
Blocked(i) == holder # None

SkipFlush(i) ==
    /\ ~Blocked(i)
    /\ i # holder
    /\ i \in async \/ \E c \in Callers : waits[c] = i
    /\ Superseded(i)
    /\ Return(i)
    /\ UNCHANGED <<last, gap, seq, snap, flushedSeq, holder, persisted>>

MutRelease == holder' = holder     \* t.flushMu is not unlocked
Release == holder' = None

\* The UPDATE of the row ends; its error is swallowed by the callback.
EndFlush ==
    /\ holder # None
    /\ persisted' \in {snap[holder]} \cup (IF FlushFails THEN {persisted} ELSE {})
    /\ Release
    /\ Return(holder)
    /\ UNCHANGED <<last, gap, seq, snap, flushedSeq>>

Flush(i) == BeginFlush(i) \/ SkipFlush(i)

TailNext ==
    \/ \E k \in 0..2 : Write(k)
    \/ GapPasses
    \/ \E c \in Callers : FlushNow(c)
    \/ \E i \in Flushes : Flush(i)
    \/ EndFlush

TailSpec == TailInit /\ [][TailNext]_tailVars

\* A goroutine that waits for t.flushMu gets it (sync.Mutex does not starve),
\* and the UPDATE of the row returns.
FairTailSpec ==
    /\ TailSpec
    /\ \A i \in Flushes : SF_tailVars(Flush(i))
    /\ WF_tailVars(EndFlush)

-----------------------------------------------------------------------------

\* The persisted tail never goes back to older lines, whatever order the flush
\* goroutines get the lock in.
NeverOlder == [][persisted' >= persisted]_tailVars

\* When FlushNow returns, every line complete when it was called is persisted:
\* what was printed last is in the row before the final report is written.
FlushNowDurable ==
    [][\A c \in Callers :
          waits[c] # None /\ waits'[c] = None /\ ~FlushFails =>
             persisted' >= snap[waits[c]]]_tailVars

\* Every FlushNow returns, however many flushes it queues behind: the final
\* report waits for it.
FlushNowReturns == \A c \in Callers : waits[c] # None ~> waits[c] = None
=============================================================================
