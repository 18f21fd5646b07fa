---------------------------- MODULE AuditBuffer ----------------------------
(***************************************************************************)
(* The audit buffer (modules/ranking/audit/audit-buffer.service.ts):       *)
(* `record` puts a run in memory and returns, `flush` hands the whole      *)
(* buffer to the writer in one batch while new runs keep arriving, and     *)
(* shutdown makes a last flush.  A run is its position in the order of     *)
(* arrival; the two metrics are counters, to be compared with the rows the *)
(* store holds.                                                            *)
(***************************************************************************)
EXTENDS Integers, Sequences, FiniteSets

CONSTANTS
    MaxRecords,     \* AuditBufferOptions.maxRecords
    MaxRuns         \* bound: how many computations there are to record

ASSUME BufferAssumption == MaxRecords \in Nat \ {0} /\ MaxRuns \in Nat

VARIABLES
    hasWriter,  \* whether a store is configured, fixed at construction
    timer,      \* whether the periodic flush is armed
    buffer,     \* the runs waiting, oldest first
    flushing,   \* the batch the writer has, empty when no flush is under way
    phase,      \* "up", "stopping" (inside onApplicationShutdown), "down"
    accepted,   \* history: how many runs were taken
    written,    \* the metric auditRecordsWritten
    lost,       \* the metric auditRecordsLost
    rows,       \* the runs the store has taken, told so or not
    handed,     \* history: the runs a batch was ever handed with
    fate        \* history: what became of each run, as the buffer was told

vars == <<hasWriter, timer, buffer, flushing, phase, accepted, written, lost,
          rows, handed, fate>>

Runs == 1 .. MaxRuns
SetOf(s) == {s[i] : i \in 1 .. Len(s)}
Held == SetOf(buffer) \cup SetOf(flushing)

\* `fate` with every run of S moved to f.
Moved(S, f) == [r \in Runs |-> IF r \in S THEN f ELSE fate[r]]

TypeOK ==
    /\ hasWriter \in BOOLEAN
    /\ timer \in BOOLEAN
    /\ buffer \in Seq(Runs)
    /\ flushing \in Seq(Runs)
    /\ phase \in {"up", "stopping", "down"}
    /\ accepted \in 0 .. MaxRuns
    /\ written \in 0 .. MaxRuns
    /\ lost \in 0 .. MaxRuns
    /\ rows \subseteq Runs
    /\ handed \subseteq Runs
    /\ fate \in [Runs -> {"unseen", "held", "kept", "lost"}]

\* With a writer the timer is armed when the interval is not zero.
Init ==
    /\ hasWriter \in BOOLEAN
    /\ timer \in (IF hasWriter THEN BOOLEAN ELSE {FALSE})
    /\ buffer = << >>
    /\ flushing = << >>
    /\ phase = "up"
    /\ accepted = 0
    /\ written = 0
    /\ lost = 0
    /\ rows = {}
    /\ handed = {}
    /\ fate = [r \in Runs |-> "unseen"]

----------------------------------------------------------------------------
\* Mutants: the newest is refused instead of the oldest dropped; the drop is
\* not counted.
Overflow_DropsNewest(run) ==
    /\ buffer' = [buffer EXCEPT ![Len(buffer)] = run]
    /\ lost' = lost + 1
    /\ fate' = [Moved({buffer[Len(buffer)]}, "lost") EXCEPT ![run] = "held"]

Overflow_Uncounted(run) ==
    /\ buffer' = Append(Tail(buffer), run)
    /\ UNCHANGED lost
    /\ fate' = [Moved({Head(buffer)}, "lost") EXCEPT ![run] = "held"]

\* At the bound the oldest goes and is counted, and the new run is taken.
Overflow(run) ==
    /\ buffer' = Append(Tail(buffer), run)
    /\ lost' = lost + 1
    /\ fate' = [Moved({Head(buffer)}, "lost") EXCEPT ![run] = "held"]

Push(run) ==
    /\ buffer' = Append(buffer, run)
    /\ UNCHANGED lost
    /\ fate' = Moved({run}, "held")

\* Mutant: the bound is one too many.
Full_OffByOne == Len(buffer) > MaxRecords

Full == Len(buffer) >= MaxRecords

\* A run may still arrive while the process stops, and after.
Record ==
    /\ hasWriter
    /\ accepted < MaxRuns
    /\ accepted' = accepted + 1
    /\ IF Full THEN Overflow(accepted + 1) ELSE Push(accepted + 1)
    /\ UNCHANGED <<hasWriter, timer, flushing, phase, written, rows, handed>>

\* Without a writer a run is not taken, and not lost either.
RecordNowhere ==
    /\ ~hasWriter
    /\ UNCHANGED vars

----------------------------------------------------------------------------
CanFlush == flushing = << >> /\ hasWriter /\ buffer # << >>

\* Mutant: the batch stays in the buffer while it is being written.
TakeBatch_KeepsBuffer ==
    /\ flushing' = buffer
    /\ handed' = handed \cup SetOf(buffer)
    /\ UNCHANGED buffer

\* The batch is taken out of the buffer before the write.
TakeBatch ==
    /\ flushing' = buffer
    /\ handed' = handed \cup SetOf(buffer)
    /\ buffer' = << >>

TimerFlush ==
    /\ timer
    /\ CanFlush
    /\ TakeBatch
    /\ UNCHANGED <<hasWriter, timer, phase, accepted, written, lost, rows, fate>>

\* The transaction committed and the driver said so.
WriteSucceeds ==
    /\ flushing # << >>
    /\ rows' = rows \cup SetOf(flushing)
    /\ written' = written + Len(flushing)
    /\ fate' = Moved(SetOf(flushing), "kept")
    /\ flushing' = << >>
    /\ UNCHANGED <<hasWriter, timer, buffer, phase, accepted, lost, handed>>

\* Mutant: a failed batch goes back to the front of the buffer.
FailedBatch_Requeued ==
    /\ buffer' = flushing \o buffer
    /\ UNCHANGED <<lost, fate>>

FailedBatch ==
    /\ lost' = lost + Len(flushing)
    /\ fate' = Moved(SetOf(flushing), "lost")
    /\ UNCHANGED buffer

\* The write rejected: the transaction is rolled back, or it committed and
\* only the answer to the commit was lost.
WriteFails ==
    /\ flushing # << >>
    /\ rows' \in {rows, rows \cup SetOf(flushing)}
    /\ FailedBatch
    /\ flushing' = << >>
    /\ UNCHANGED <<hasWriter, timer, phase, accepted, written, handed>>

----------------------------------------------------------------------------
\* onApplicationShutdown up to its await: the timer goes, and `flush` either
\* takes what there is or returns the promise of the flush under way.
ShutdownBegins ==
    /\ phase = "up"
    /\ phase' = "stopping"
    /\ timer' = FALSE
    /\ IF CanFlush THEN TakeBatch ELSE UNCHANGED <<buffer, flushing, handed>>
    /\ UNCHANGED <<hasWriter, accepted, written, lost, rows, fate>>

CountRemainder ==
    /\ lost' = lost + Len(buffer)
    /\ fate' = Moved(SetOf(buffer), "lost")

\* Mutant: shutdown goes on only when nothing is left, which no flush sees to.
ShutdownEnds_WhenDrained ==
    /\ phase = "stopping"
    /\ flushing = << >>
    /\ buffer = << >>
    /\ phase' = "down"
    /\ UNCHANGED <<hasWriter, timer, buffer, flushing, accepted, written, lost,
                   rows, handed, fate>>

\* The awaited promise has settled: whatever is left is counted as lost.
ShutdownEnds ==
    /\ phase = "stopping"
    /\ flushing = << >>
    /\ phase' = "down"
    /\ CountRemainder
    /\ buffer' = << >>
    /\ UNCHANGED <<hasWriter, timer, flushing, accepted, written, rows, handed>>

Next ==
    \/ Record \/ RecordNowhere
    \/ TimerFlush \/ WriteSucceeds \/ WriteFails
    \/ ShutdownBegins \/ ShutdownEnds

Spec == Init /\ [][Next]_vars

(***************************************************************************)
(* The interval fires and shutdown goes on once its await is over.  There  *)
(* is no fairness on the writer: the pool is made with a connection string *)
(* and nothing else (database.module.ts), so no timeout turns a silent     *)
(* server into a rejection.  Nothing obliges anybody to compute a ranking  *)
(* or to stop the process.                                                 *)
(***************************************************************************)
Fairness == WF_vars(TimerFlush) /\ WF_vars(ShutdownEnds)

FairSpec == Spec /\ Fairness

----------------------------------------------------------------------------
\* The metrics bound what the store has: no more was counted as written than
\* there are rows, and every run that was taken and is neither a row nor in
\* memory was counted as lost.  No run is counted twice, and none that still
\* waits is counted or stored.  A run whose commit went through unheard is a row
\* and counted as lost: the metrics may overstate the loss, and never hide one.
Missing == (1 .. accepted) \ (rows \cup Held)

CountsBoundTheStore ==
    /\ written <= Cardinality(rows)
    /\ Cardinality(Missing) <= lost
    /\ Held \cap rows = {}
    /\ written + lost + Cardinality(Held) = accepted

\* The memory audit costs is bounded: the buffer, and the batch that was one,
\* are each within maxRecords whatever the writer does.
HeldIsBounded == Len(buffer) <= MaxRecords /\ Len(flushing) <= MaxRecords

\* "The newest is the one an incident is about": what waits is the newest
\* runs there are, in order and without a gap, and the batch under way is
\* older than all of it.
NewestAreKept ==
    /\ \A i \in 1 .. Len(buffer) : buffer[i] = accepted - Len(buffer) + i
    /\ \A i \in 1 .. Len(flushing) - 1 : flushing[i + 1] = flushing[i] + 1
    /\ flushing # << >> =>
          flushing[Len(flushing)] <= accepted - Len(buffer)

\* A run is in at most one batch: no outcome row is inserted twice, although
\* records arrive, flushes overlap and writes fail.
NoRunHandedTwice ==
    [][flushing' # flushing /\ flushing' # << >> => SetOf(flushing') \cap handed = {}]_vars

\* The buffer is an implementation of the lossy log.
Log == INSTANCE LossyLog WITH Runs <- Runs, fate <- fate
ImplementsLossyLog == Log!Spec

\* What the code takes for granted of the store: a write that was started
\* comes back, one way or the other.
EveryWriteComesBack == flushing # << >> ~> flushing = << >>

\* As long as writes come back, and while the periodic flush is armed, no run
\* waits in memory for ever: a flush that finds another under way is not lost.
NoRunWaitsForever ==
    EveryWriteComesBack => \A r \in Runs : (timer /\ r \in Held) ~> (r \notin Held)

\* As long as writes come back, a process that was asked to stop stops
\* auditing, whatever its shutdown found under way.
ShutdownCompletes ==
    EveryWriteComesBack => (phase = "stopping" ~> phase = "down")
=============================================================================
