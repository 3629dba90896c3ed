------------------------------ MODULE BatchLog ------------------------------
(***************************************************************************)
(* The batching writer behind both audit tables: a BullMQ worker that      *)
(* collects the payloads of its jobs in memory and writes them with one    *)
(* multi-row INSERT (eligibility-log.processor.ts, and the same code in    *)
(* activity-log.processor.ts and notification.processor.ts).               *)
(*                                                                         *)
(* A job that is only buffered is completed at once: from then until the   *)
(* INSERT commits, its payload exists in the memory of the worker alone.   *)
(* The job that fills the batch, or the timer, runs the INSERT, and other  *)
(* jobs may be processed while the timer's INSERT is under way.            *)
(*                                                                         *)
(* The module is instantiated once per table; Insert(table, batch) is what *)
(* the table's INSERT does.                                                *)
(***************************************************************************)
EXTENDS Integers, Sequences, FiniteSets

CONSTANTS
    Jobs,           \* job ids of the queue
    Payloads,       \* what a job carries
    Tables,         \* values of the table
    Insert(_, _),   \* the table after an INSERT of a batch
    BatchSize,      \* BATCH_SIZE
    Attempts,       \* BullMQ attempts of a job
    Concurrency,    \* jobs that a worker has under way at once
    MaxFaults,      \* bound: failed INSERTs, lost payloads and restarts
    NoJob, NoFlush

VARIABLES
    job,        \* the queue: NoJob (none, or completed), or state, attempts, payload
    buffer,     \* batchBuffer
    flushing,   \* NoFlush, or the INSERT that holds lock.locked
    timer,      \* batchTimeout is armed
    closing,    \* onModuleDestroy has run, the process is about to exit
    table,      \* the rows committed
    faults

logVars == <<job, buffer, flushing, timer, closing, table, faults>>

JobStates == {"waiting", "active", "failed"}

\* What starts an INSERT: the job that filled the batch, the timer, shutdown.
Triggers == {"job", "timer", "shutdown"}

LogTypeOK ==
    /\ job \in [Jobs -> [st : JobStates, tries : 0 .. Attempts, data : Payloads]
                          \union {NoJob}]
    /\ buffer \in Seq(Payloads)
    /\ flushing \in [by : Triggers, batch : Seq(Payloads)] \union {NoFlush}
    /\ timer \in BOOLEAN /\ closing \in BOOLEAN
    /\ table \in Tables
    /\ faults \in 0 .. MaxFaults

LogInit ==
    /\ job = [j \in Jobs |-> NoJob]
    /\ buffer = <<>> /\ flushing = NoFlush /\ timer = FALSE /\ closing = FALSE
    /\ faults = 0

Locked == flushing # NoFlush
Job(st, tries, data) == [st |-> st, tries |-> tries, data |-> data]
Waiting(j) == job[j] # NoJob /\ job[j].st = "waiting"

\* The job that waits for the INSERT it began, and keeps a part of the worker
\* busy.  All the others are done with at once.
Active == {j \in Jobs : job[j] # NoJob /\ job[j].st = "active"}

\* The queue when jobs have begun, and when they are completed and removed.
Started(j) == [job EXCEPT ![j] = Job("active", job[j].tries, job[j].data)]
Completed(js) == [j \in Jobs |-> IF j \in js THEN NoJob ELSE job[j]]

WorkerFree == Cardinality(Active) < Concurrency

\* queue.add; a failed add is logged and swallowed by the caller.
addJob(j, data) == job[j] = NoJob /\ job' = [job EXCEPT ![j] = Job("waiting", 0, data)]

\* flushBatch when lock.locked is free: the buffer is emptied before the INSERT.
Begin(trigger, batch) ==
    /\ flushing' = [by |-> trigger, batch |-> batch]
    /\ buffer' = <<>> /\ timer' = FALSE

-----------------------------------------------------------------------------
\* process(job), by what it finds: a full batch and a free lock, a full batch
\* while another INSERT runs, or room in the buffer.
processFull(j) ==
    /\ Waiting(j) /\ WorkerFree /\ ~Locked
    /\ Len(buffer) + 1 >= BatchSize
    /\ Begin("job", Append(buffer, job[j].data))
    /\ job' = Started(j)
    /\ UNCHANGED <<closing, table, faults>>

\* flushBatch returns at once, and no timer is armed.
processFullLocked(j) ==
    /\ Waiting(j) /\ WorkerFree /\ Locked
    /\ Len(buffer) + 1 >= BatchSize
    /\ buffer' = Append(buffer, job[j].data)
    /\ timer' = FALSE
    /\ job' = Completed({j})
    /\ UNCHANGED <<flushing, closing, table, faults>>

\* Mutant: the lock is looked at before the payload is buffered.
processBuffered_lockFirst(j) ==
    /\ Waiting(j) /\ WorkerFree
    /\ Len(buffer) + 1 < BatchSize
    /\ buffer' = IF Locked THEN buffer ELSE Append(buffer, job[j].data)
    /\ timer' = (timer \/ ~Locked)
    /\ job' = Completed({j})
    /\ UNCHANGED <<flushing, closing, table, faults>>

\* The timer is armed again, unless an INSERT is running.
processBuffered(j) ==
    /\ Waiting(j) /\ WorkerFree
    /\ Len(buffer) + 1 < BatchSize
    /\ buffer' = Append(buffer, job[j].data)
    /\ timer' = (timer \/ ~Locked)
    /\ job' = Completed({j})
    /\ UNCHANGED <<flushing, closing, table, faults>>

process(j) == processFull(j) \/ processFullLocked(j) \/ processBuffered(j)

\* BATCH_TIMEOUT_MS after the last job was buffered.
timerFires ==
    /\ timer /\ ~Locked /\ buffer # <<>>
    /\ Begin("timer", buffer)
    /\ UNCHANGED <<job, closing, table, faults>>

\* The INSERT commits; the job that ran it is completed.
flushDone ==
    /\ Locked
    /\ table' = Insert(table, flushing.batch)
    /\ flushing' = NoFlush
    /\ job' = Completed(Active)
    /\ UNCHANGED <<buffer, timer, closing, faults>>

\* A failed attempt of an active job: BullMQ runs it again or gives it up.
Retried(js) ==
    [j \in Jobs |-> IF j \notin js THEN job[j]
                    ELSE Job(IF job[j].tries + 1 < Attempts THEN "waiting" ELSE "failed",
                             job[j].tries + 1, job[j].data)]

\* The INSERT fails: its batch is gone.  The error reaches the job that ran
\* it, which is retried with its own payload only; the timer's is logged.
flushFails ==
    /\ Locked /\ faults < MaxFaults
    /\ faults' = faults + 1
    /\ flushing' = NoFlush
    /\ job' = Retried(Active)
    /\ UNCHANGED <<buffer, timer, closing, table>>

-----------------------------------------------------------------------------
\* app.close(): what is buffered is written, unless an INSERT is running, and
\* the worker is closed after that.  Jobs may still be processed in between.
onModuleDestroy ==
    /\ ~closing /\ faults < MaxFaults
    /\ closing' = TRUE /\ faults' = faults + 1
    /\ IF buffer # <<>> /\ ~Locked
       THEN Begin("shutdown", buffer)
       ELSE UNCHANGED <<buffer, flushing, timer>>
    /\ UNCHANGED <<job, table>>

\* The memory of the process is gone.  An INSERT that was running commits or
\* not; its job is found stalled and runs again.
Restart ==
    /\ buffer' = <<>> /\ timer' = FALSE /\ flushing' = NoFlush /\ closing' = FALSE
    /\ \/ UNCHANGED table
       \/ Locked /\ table' = Insert(table, flushing.batch)
    /\ job' = [j \in Jobs |-> IF job[j] # NoJob /\ job[j].st = "active"
                              THEN Job("waiting", job[j].tries, job[j].data)
                              ELSE job[j]]

exit ==
    /\ closing /\ Active = {} /\ (Locked => flushing.by # "shutdown")
    /\ Restart /\ UNCHANGED faults

crash == faults < MaxFaults /\ faults' = faults + 1 /\ Restart

LogNext ==
    \/ \E j \in Jobs : process(j)
    \/ timerFires \/ flushDone \/ flushFails
    \/ onModuleDestroy \/ exit \/ crash

\* Payloads still on their way: in the queue, in memory, or in the INSERT.
InFlight ==
    {job[j].data : j \in {k \in Jobs : job[k] # NoJob /\ job[k].st # "failed"}}
    \union {buffer[i] : i \in DOMAIN buffer}
    \union (IF Locked THEN {flushing.batch[i] : i \in DOMAIN flushing.batch} ELSE {})
=============================================================================
