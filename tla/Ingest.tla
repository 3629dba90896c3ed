------------------------------- MODULE Ingest -------------------------------
(***************************************************************************)
(* csdp-ingest: files of the operator are received, parsed by a BullMQ     *)
(* worker in chunks of BATCH_SIZE rows and stored; csdp-linking then joins *)
(* eligibility decisions with the loans that followed them.                *)
(*                                                                         *)
(* A line is a record of the fields its parser looks at: Missing is an     *)
(* empty value, Bad one that does not parse.  A file is known by its       *)
(* content, as the code knows it by its SHA-256.                           *)
(***************************************************************************)
EXTENDS Integers, Sequences, FiniteSets

CONSTANTS
    Content,        \* file -> [source, date, headers, lines]
    Logs,           \* eligibility decisions older than 30 minutes: log -> [who, at, ref]
    Msisdns,
    BATCH_SIZE,
    Attempts,       \* of a parse job
    Together,       \* bound: the sets of files sent in one behaviour
    MaxJobs,        \* bound: parse jobs enqueued
    MaxReplays,     \* bound: replays asked for
    MaxFaults,      \* bound: failing statements and dying processes
    Missing, Bad

Files == DOMAIN Content
Lines(f) == Content[f].lines
Source(f) == Content[f].source
Good(v) == v \notin {Missing, Bad}

ASSUME IngestAssumption ==
    /\ {BATCH_SIZE, Attempts} \subseteq Nat \ {0}
    /\ {MaxJobs, MaxReplays, MaxFaults} \subseteq Nat
    /\ Together \subseteq SUBSET Files
    /\ \A f \in Files :
         /\ Source(f) \in {"refill", "sdp", "vendor", "airtel-activation"}
         /\ Lines(f) \in Seq({Lines(f)[n] : n \in DOMAIN Lines(f)})

Statuses == {"RECEIVED", "PARSING", "PARSED", "FAILED"}
BatchRows == [status : Statuses, total : Nat, ok : Nat]

\* A null is not a row, nor a step of a request.
ASSUME NullAssumption == Missing \notin BatchRows \union {"found", "saved"}
-----------------------------------------------------------------------------
\* The parsers: which lines give a row.

parseRefill(l) == Good(l.who) /\ Good(l.when) /\ Good(l.amount) /\ l.amount >= 0

\* No normalisation of the subscriber, no check of the sign.
parseSdp(l) == l.who # Missing /\ Good(l.when) /\ Good(l.amount)

\* A line of another width than the header has no kind.
parseVendor(l) == l.kind \in {"loan", "recovery"}

parseActivation(l) == Good(l.who) /\ Good(l.when) /\ l.class # Bad

Accepted(f, n) ==
    LET l == Lines(f)[n]
    IN  CASE Source(f) = "refill" -> parseRefill(l)
          [] Source(f) = "sdp" -> parseSdp(l)
          [] Source(f) = "vendor" -> parseVendor(l)
          [] OTHER -> parseActivation(l)

\* Msisdns has every number an activation file is accepted for.
ASSUME MsisdnsAssumption ==
    \A f \in Files : Source(f) = "airtel-activation" =>
        \A n \in DOMAIN Lines(f) : Accepted(f, n) => Lines(f)[n].who \in Msisdns

\* readCsv throws at the first record when a required header is missing; the
\* readers of sdp and vendor files have no such check.
HeadersMissing(f) == Source(f) \in {"refill", "airtel-activation"} /\ ~Content[f].headers

\* The first of the columns that the file has at all, be its value empty.
FirstColumn(l, columns, otherwise) ==
    LET present == {i \in DOMAIN columns : columns[i] \in DOMAIN l.ids}
    IN  IF present = {} THEN otherwise
        ELSE l.ids[columns[CHOOSE i \in present : \A j \in present : i <= j]]

externalId(f, n) ==
    LET l == Lines(f)[n]
    IN  IF ~Accepted(f, n) THEN <<"error-line", n>>
        ELSE CASE Source(f) \in {"refill", "sdp"} -> <<l.who, l.when, l.amount>>
               [] Source(f) = "vendor" ->
                    <<"id", FirstColumn(l, <<"loan_id", "recovery_id", "id">>, n)>>
               [] OTHER -> <<l.who, l.when>>

\* uq_ingest_row_source_date_ext.
RowKey(f, n) == <<Source(f), Content[f].date, externalId(f, n)>>

mapVendorLoan(l) ==
    [id |-> FirstColumn(l, <<"loan_id", "id">>, Missing), who |-> l.who, ref |-> l.ref,
     issuedAt |-> l.when, recovered |-> l.recovered]

vendorRecoveryId(l) == FirstColumn(l, <<"recovery_id", "id">>, Missing)

IsKind(f, n, kind) == Lines(f)[n].kind = kind
-----------------------------------------------------------------------------
VARIABLES
    batches,        \* csdp_ingest_batch: file -> row
    jobs,           \* the queue csdp-ingest
    worker,         \* IngestProcessor, concurrency 1
    upload,         \* file -> how far receive has come
    replaying,      \* file -> how far replay has come
    marks,          \* onFailed updates on their way, one per file
    rows,           \* csdp_ingest_row, by its unique key
    cdr,            \* csdp_cdr_*: how often a line is stored
    loans,          \* csdp_loan, by id
    recoveries,     \* csdp_recovery, ids
    subscribers,    \* csdp_subscriber: activated_at and service_class_id
    discrepancies,  \* csdp_subscriber_discrepancy_log
    sweeps,         \* linking jobs: those ever added, those waiting
    outcomes,       \* csdp_eligibility_outcome, by log
    orphans,        \* batches saved by a process that died before queue.add
    replays, faults

fileVars == <<rows, cdr, loans, recoveries, subscribers, discrepancies>>
linkVars == <<sweeps, outcomes>>
vars == <<batches, jobs, worker, upload, replaying, marks, fileVars, linkVars, orphans, replays, faults>>

Idle == Missing
NoSubscriber == [activated |-> Missing, class |-> Missing]
LineIds == UNION {{<<f, n>> : n \in DOMAIN Lines(f)} : f \in Files}

Batch(status, total, ok) == [status |-> status, total |-> total, ok |-> ok]

Init ==
    /\ batches = [f \in Files |-> Missing]
    /\ jobs = <<>> /\ worker = Idle
    /\ upload = [f \in Files |-> Idle] /\ replaying = [f \in Files |-> Idle]
    /\ marks = {} /\ orphans = {}
    /\ rows = {} /\ cdr = [i \in LineIds |-> 0]
    /\ loans = {} /\ recoveries = {}
    /\ subscribers = [s \in Msisdns |-> NoSubscriber] /\ discrepancies = {}
    /\ sweeps = [added |-> {}, waiting |-> {}]
    /\ outcomes = [g \in DOMAIN Logs |-> Missing]
    /\ replays = 0 /\ faults = 0
-----------------------------------------------------------------------------
\* IngestService.

SetStatus(f, status) == batches' = [batches EXCEPT ![f].status = status]

\* queue.add: a job of its own for every call.
AddJob(f) == jobs' = Append(jobs, [file |-> f, attempts |-> 0, stalls |-> 0, state |-> "waiting"])

\* Requests whose job is still to be added keep their place within the bound.
InFlight == {f \in Files : upload[f] # Idle} \union {f \in Files : replaying[f] # Idle}
RoomForJob == Len(jobs) + Cardinality(InFlight) < MaxJobs

\* receive: a file that is known is answered with the batch there is, whatever
\* its status; a new one is moved to its place and its batch saved.
receive(f) ==
    /\ upload[f] = Idle /\ batches[f] = Missing
    /\ RoomForJob
    /\ \E S \in Together : {f} \union {g \in Files : batches[g] # Missing} \subseteq S
    /\ batches' = [batches EXCEPT ![f] = Batch("RECEIVED", 0, 0)]
    /\ upload' = [upload EXCEPT ![f] = "saved"]
    /\ UNCHANGED <<jobs, worker, replaying, marks, fileVars, linkVars, orphans, replays, faults>>

enqueueParse(f) ==
    /\ upload[f] = "saved"
    /\ AddJob(f)
    /\ upload' = [upload EXCEPT ![f] = Idle]
    /\ UNCHANGED <<batches, worker, replaying, marks, fileVars, linkVars, orphans, replays, faults>>

\* replay: refused while PARSING; the status may change before the save.
replay(f) ==
    /\ replaying[f] = Idle /\ batches[f] # Missing /\ batches[f].status # "PARSING"
    /\ replays < MaxReplays /\ RoomForJob
    /\ replays' = replays + 1
    /\ replaying' = [replaying EXCEPT ![f] = "found"]
    /\ UNCHANGED <<batches, jobs, worker, upload, marks, fileVars, linkVars, orphans, faults>>

replaySave(f) ==
    /\ replaying[f] = "found"
    /\ batches' = [batches EXCEPT ![f] = Batch("RECEIVED", 0, 0)]
    /\ replaying' = [replaying EXCEPT ![f] = "saved"]
    /\ UNCHANGED <<jobs, worker, upload, marks, fileVars, linkVars, orphans, replays, faults>>

\* Mutant: the job is named after the batch, and the queue keeps finished jobs.
replayEnqueue_named(f) ==
    /\ replaying[f] = "saved"
    /\ IF \E i \in DOMAIN jobs : jobs[i].file = f THEN UNCHANGED jobs ELSE AddJob(f)
    /\ replaying' = [replaying EXCEPT ![f] = Idle]
    /\ orphans' = orphans \ {f}
    /\ UNCHANGED <<batches, worker, upload, marks, fileVars, linkVars, replays, faults>>

replayEnqueue(f) ==
    /\ replaying[f] = "saved"
    /\ AddJob(f)
    /\ replaying' = [replaying EXCEPT ![f] = Idle]
    /\ orphans' = orphans \ {f}
    /\ UNCHANGED <<batches, worker, upload, marks, fileVars, linkVars, replays, faults>>

\* The process dies between the save and queue.add; no later upload of the
\* same content enqueues the batch.
apiDies(f) ==
    /\ faults < MaxFaults
    /\ \/ upload[f] = "saved" \/ replaying[f] = "saved"
    /\ faults' = faults + 1
    /\ upload' = [upload EXCEPT ![f] = Idle]
    /\ replaying' = [replaying EXCEPT ![f] = Idle]
    /\ orphans' = orphans \union {f}
    /\ UNCHANGED <<batches, jobs, worker, marks, fileVars, linkVars, replays>>
-----------------------------------------------------------------------------
\* IngestProcessor.  worker: the job, the next line, the accepted lines and
\* all lines not yet stored, the subscribers read, the statements to do.

File == jobs[worker.job].file

Working(next, buffer, rowBuffer, found, todo) ==
    worker' = [job |-> worker.job, next |-> next, buffer |-> buffer, rowBuffer |-> rowBuffer,
               found |-> found, todo |-> todo]

process(i) ==
    /\ worker = Idle /\ jobs[i].state = "waiting"
    /\ jobs' = [jobs EXCEPT ![i].state = "active"]
    /\ worker' = [job |-> i, next |-> 1, buffer |-> {}, rowBuffer |-> {}, found |-> Missing, todo |-> <<>>]
    /\ SetStatus(jobs[i].file, "PARSING")
    /\ UNCHANGED <<upload, replaying, marks, fileVars, linkVars, orphans, replays, faults>>

\* What flush, flushActivation and flushIngestRows send, in their order.
DetailStatements(f) ==
    CASE Source(f) \in {"refill", "sdp"} -> <<"cdr">>
      [] Source(f) = "vendor" -> <<"loans", "recoveries">>
      [] OTHER -> <<"select", "upsert", "discrepancies">>

\* Empty buffers send nothing.  The activation parser counts its two buffers
\* apart, the others flush both when the rows reach BATCH_SIZE.
Flush(f, buffer, rowBuffer) ==
    (IF buffer = {} THEN <<>> ELSE DetailStatements(f)) \o (IF rowBuffer = {} THEN <<>> ELSE <<"rows">>)

FlushAt(f, buffer, rowBuffer) ==
    LET Full(lines) == Cardinality(lines) >= BATCH_SIZE
    IN  IF Source(f) = "airtel-activation"
        THEN Flush(f, IF Full(buffer) THEN buffer ELSE {}, IF Full(rowBuffer) THEN rowBuffer ELSE {})
        ELSE IF Full(rowBuffer) THEN Flush(f, buffer, rowBuffer) ELSE <<>>

nextLine ==
    /\ worker # Idle /\ worker.todo = <<>> /\ worker.next \in DOMAIN Lines(File)
    /\ ~HeadersMissing(File)
    /\ LET n         == worker.next
           buffer    == worker.buffer \union {m \in {n} : Accepted(File, m)}
           rowBuffer == worker.rowBuffer \union {n}
       IN  Working(n + 1, buffer, rowBuffer, Missing, FlushAt(File, buffer, rowBuffer))
    /\ UNCHANGED <<batches, jobs, upload, replaying, marks, fileVars, linkVars, orphans, replays, faults>>

\* Mutant: what is left in the buffers at the end of the file is not flushed.
lastFlush_forgotten ==
    /\ worker # Idle /\ worker.todo = <<>> /\ worker.next = Len(Lines(File)) + 1
    /\ Working(worker.next + 1, worker.buffer, worker.rowBuffer, Missing, <<"parsed", "link">>)
    /\ UNCHANGED <<batches, jobs, upload, replaying, marks, fileVars, linkVars, orphans, replays, faults>>

lastFlush ==
    /\ worker # Idle /\ worker.todo = <<>> /\ worker.next = Len(Lines(File)) + 1
    /\ Working(worker.next + 1, worker.buffer, worker.rowBuffer, Missing,
               Flush(File, worker.buffer, worker.rowBuffer) \o <<"parsed", "link">>)
    /\ UNCHANGED <<batches, jobs, upload, replaying, marks, fileVars, linkVars, orphans, replays, faults>>

Doing(statement) == worker # Idle /\ worker.todo # <<>> /\ Head(worker.todo) = statement
Done(buffer, rowBuffer) == Working(worker.next, buffer, rowBuffer, worker.found, Tail(worker.todo))

\* The tables have a generated key: orIgnore has nothing to ignore.
insertCdr ==
    /\ Doing("cdr")
    /\ cdr' = [i \in LineIds |-> IF i[1] = File /\ i[2] \in worker.buffer THEN cdr[i] + 1 ELSE cdr[i]]
    /\ Done({}, worker.rowBuffer)
    /\ UNCHANGED <<batches, jobs, upload, replaying, marks, rows, loans, recoveries, subscribers,
                   discrepancies, linkVars, orphans, replays, faults>>

\* A loan there is already stays as it is.
insertLoans ==
    /\ Doing("loans")
    /\ LET lines == {n \in worker.buffer : IsKind(File, n, "loan")}
           fresh == {n \in lines : \A m \in lines : m < n =>
                        mapVendorLoan(Lines(File)[m]).id # mapVendorLoan(Lines(File)[n]).id}
       IN  /\ loans' = loans \union
                       {l \in {mapVendorLoan(Lines(File)[n]) : n \in fresh} :
                            \A k \in loans : k.id # l.id}
           /\ Done(worker.buffer \ lines, worker.rowBuffer)
    /\ UNCHANGED <<batches, jobs, upload, replaying, marks, rows, cdr, recoveries, subscribers,
                   discrepancies, linkVars, orphans, replays, faults>>

insertRecoveries ==
    /\ Doing("recoveries")
    /\ recoveries' = recoveries \union {vendorRecoveryId(Lines(File)[n]) : n \in worker.buffer}
    /\ Done({}, worker.rowBuffer)
    /\ UNCHANGED <<batches, jobs, upload, replaying, marks, rows, cdr, loans, subscribers,
                   discrepancies, linkVars, orphans, replays, faults>>

insertRows ==
    /\ Doing("rows")
    /\ rows' = rows \union {RowKey(File, n) : n \in worker.rowBuffer}
    /\ Done(worker.buffer, {})
    /\ UNCHANGED <<batches, jobs, upload, replaying, marks, cdr, loans, recoveries, subscribers,
                   discrepancies, linkVars, orphans, replays, faults>>

selectSubscribers ==
    /\ Doing("select")
    /\ Working(worker.next, worker.buffer, worker.rowBuffer, subscribers, Tail(worker.todo))
    /\ UNCHANGED <<batches, jobs, upload, replaying, marks, fileVars, linkVars, orphans, replays, faults>>

\* Mutant: the incoming value wins.
Filled_overwrites(current, l) ==
    [activated |-> l.when, class |-> IF l.class = Missing THEN current.class ELSE l.class]

\* What is unknown is filled from the line.
Filled(current, l) ==
    [activated |-> IF current.activated = Missing THEN l.when ELSE current.activated,
     class     |-> IF current.class = Missing THEN l.class ELSE current.class]

\* The lines that give an upsert; a subscriber who is not there has nothing
\* filled either.
Upserting ==
    {n \in worker.buffer : LET s == worker.found[Lines(File)[n].who]
                           IN  s.activated = Missing \/ s.class = Missing}

\* ON CONFLICT DO UPDATE refuses to touch a row twice in one statement.
TwiceInStatement ==
    \E m, n \in Upserting : m # n /\ Lines(File)[m].who = Lines(File)[n].who

upsertSubscribers ==
    /\ Doing("upsert") /\ ~TwiceInStatement
    /\ subscribers' =
         [s \in Msisdns |->
            LET of == {n \in Upserting : Lines(File)[n].who = s}
            IN  IF of = {} THEN subscribers[s]
                ELSE Filled(worker.found[s], Lines(File)[CHOOSE n \in of : TRUE])]
    /\ Done(worker.buffer, worker.rowBuffer)
    /\ UNCHANGED <<batches, jobs, upload, replaying, marks, rows, cdr, loans, recoveries,
                   discrepancies, linkVars, orphans, replays, faults>>

Conflict(f, n, field) == <<f, n, field>>

logDiscrepancies ==
    /\ Doing("discrepancies")
    /\ LET Differs(known, given) == known # Missing /\ given # Missing /\ known # given
           Found(n) == worker.found[Lines(File)[n].who]
       IN  discrepancies' = discrepancies
               \union {Conflict(File, n, "activated_at") : n \in
                         {m \in worker.buffer : Differs(Found(m).activated, Lines(File)[m].when)}}
               \union {Conflict(File, n, "service_class_id") : n \in
                         {m \in worker.buffer : Differs(Found(m).class, Lines(File)[m].class)}}
    /\ Done({}, worker.rowBuffer)
    /\ UNCHANGED <<batches, jobs, upload, replaying, marks, rows, cdr, loans, recoveries, subscribers,
                   linkVars, orphans, replays, faults>>

parsed ==
    /\ Doing("parsed")
    /\ batches' = [batches EXCEPT ![File] =
                     Batch("PARSED", Len(Lines(File)),
                           Cardinality({n \in DOMAIN Lines(File) : Accepted(File, n)}))]
    /\ Done(worker.buffer, worker.rowBuffer)
    /\ UNCHANGED <<jobs, upload, replaying, marks, fileVars, linkVars, orphans, replays, faults>>

\* The linking job is named after the batch and kept when it is done: only the
\* first one of a batch is ever added.
link ==
    /\ Doing("link")
    /\ sweeps' = [added   |-> sweeps.added \union {File},
                  waiting |-> sweeps.waiting \union ({File} \ sweeps.added)]
    /\ jobs' = [jobs EXCEPT ![worker.job].state = "completed"]
    /\ worker' = Idle
    /\ UNCHANGED <<batches, upload, replaying, marks, fileVars, outcomes, orphans, replays, faults>>

\* The catch block marks the batch, BullMQ runs the job again or gives it up,
\* and its failed event marks the batch once more, a little later.
attemptFails ==
    /\ worker # Idle
    /\ \/ /\ \/ worker.todo = <<>> /\ worker.next = 1 /\ HeadersMissing(File)
             \/ Doing("upsert") /\ TwiceInStatement
          /\ UNCHANGED faults
       \/ /\ worker.todo # <<>> /\ faults < MaxFaults
          /\ faults' = faults + 1
    /\ SetStatus(File, "FAILED")
    /\ LET j == jobs[worker.job]
       IN  jobs' = [jobs EXCEPT ![worker.job] =
                      [file |-> j.file, attempts |-> j.attempts + 1, stalls |-> j.stalls,
                       state |-> IF j.attempts + 1 < Attempts THEN "waiting" ELSE "failed"]]
    /\ marks' = marks \union {File}
    /\ worker' = Idle
    /\ UNCHANGED <<upload, replaying, fileVars, linkVars, orphans, replays>>

onFailed(f) ==
    /\ f \in marks
    /\ marks' = marks \ {f}
    /\ SetStatus(f, "FAILED")
    /\ UNCHANGED <<jobs, worker, upload, replaying, fileVars, linkVars, orphans, replays, faults>>

\* The worker dies: its job stalls and is run again, once; the second time it
\* is failed, with the event.  Updates on their way are lost with the process.
workerDies ==
    /\ worker # Idle /\ worker.todo # <<>> /\ faults < MaxFaults
    /\ faults' = faults + 1
    /\ LET j == jobs[worker.job]
       IN  /\ jobs' = [jobs EXCEPT ![worker.job] =
                         [file |-> j.file, attempts |-> j.attempts, stalls |-> j.stalls + 1,
                          state |-> IF j.stalls = 0 THEN "waiting" ELSE "failed"]]
           /\ marks' = IF j.stalls = 0 THEN {} ELSE {j.file}
    /\ worker' = Idle
    /\ UNCHANGED <<batches, upload, replaying, fileVars, linkVars, orphans, replays>>
-----------------------------------------------------------------------------
\* EligibilityLinkingProcessor.runSweep, one transaction.

Abs(x) == IF x < 0 THEN -x ELSE x

\* The loan a decision led to: of those of the subscriber issued within five
\* minutes, one with its trans_ref before the others, then the nearest.
BestMatch(g) ==
    LET log    == Logs[g]
        near   == {l \in loans : l.who = log.who /\ Abs(l.issuedAt - log.at) <= 5}
        Better(k, l) ==
            \/ k.ref = log.ref /\ l.ref # log.ref
            \/ (k.ref = log.ref <=> l.ref = log.ref) /\ Abs(k.issuedAt - log.at) < Abs(l.issuedAt - log.at)
    IN  IF near = {} THEN Missing
        ELSE CHOOSE l \in near : \A k \in near : ~Better(k, l)

\* Mutant: an outcome once written is left alone.
Swept_once(g) ==
    IF outcomes[g] # Missing THEN outcomes[g]
    ELSE [loan      |-> IF BestMatch(g) = Missing THEN Missing ELSE BestMatch(g).id,
          recovered |-> BestMatch(g) # Missing /\ BestMatch(g).recovered]

\* A decision is linked once, to a loan or to none; the recovery of the loan
\* is caught up with.
Swept(g) ==
    IF outcomes[g] = Missing
    THEN [loan      |-> IF BestMatch(g) = Missing THEN Missing ELSE BestMatch(g).id,
          recovered |-> BestMatch(g) # Missing /\ BestMatch(g).recovered]
    ELSE [loan      |-> outcomes[g].loan,
          recovered |-> outcomes[g].recovered
                        \/ \E l \in loans : l.id = outcomes[g].loan /\ l.recovered]

runSweep == outcomes' = [g \in DOMAIN Logs |-> Swept(g)]

sweepJob(f) ==
    /\ f \in sweeps.waiting
    /\ sweeps' = [added |-> sweeps.added, waiting |-> sweeps.waiting \ {f}]
    /\ runSweep
    /\ UNCHANGED <<batches, jobs, worker, upload, replaying, marks, fileVars, orphans, replays, faults>>

\* materialize-feature-rows, daily at 03:00, begins with a sweep; what follows
\* it is in CsdpLedger.
daily ==
    /\ runSweep /\ outcomes' # outcomes
    /\ UNCHANGED <<batches, jobs, worker, upload, replaying, marks, fileVars, sweeps, orphans, replays, faults>>

\* The recovery webhook, which is in CsdpLedger.
loanRecovered(l) ==
    /\ ~l.recovered
    /\ loans' = (loans \ {l}) \union {[l EXCEPT !.recovered = TRUE]}
    /\ UNCHANGED <<batches, jobs, worker, upload, replaying, marks, rows, cdr, recoveries, subscribers,
                   discrepancies, linkVars, orphans, replays, faults>>
-----------------------------------------------------------------------------
Statement ==
    \/ insertCdr \/ insertLoans \/ insertRecoveries \/ insertRows
    \/ selectSubscribers \/ upsertSubscribers \/ logDiscrepancies
    \/ parsed \/ link

\* A failure that is due, not one the environment brings about.
OwnFailure == attemptFails /\ UNCHANGED faults

Next ==
    \/ \E f \in Files : receive(f) \/ enqueueParse(f) \/ apiDies(f)
    \/ \E f \in Files : replay(f) \/ replaySave(f) \/ replayEnqueue(f) \/ onFailed(f)
    \/ \E i \in DOMAIN jobs : process(i)
    \/ nextLine \/ lastFlush \/ Statement \/ attemptFails \/ workerDies
    \/ \E f \in Files : sweepJob(f)
    \/ daily
    \/ \E l \in loans : loanRecovered(l)

\* Requests that began go on, the worker works, the daily job runs.
Spec ==
    /\ Init /\ [][Next]_vars
    /\ WF_vars(\E f \in Files : enqueueParse(f) \/ replaySave(f) \/ replayEnqueue(f))
    /\ WF_vars(\E f \in Files : onFailed(f))
    /\ WF_vars((\E i \in DOMAIN jobs : process(i)) \/ nextLine \/ lastFlush \/ Statement \/ OwnFailure)
    /\ WF_vars(daily)
-----------------------------------------------------------------------------
\* A batch shown as PARSED is complete, whatever crashed, was retried or
\* replayed on the way: its counts are right, each of its lines has its row,
\* each accepted line its record, and the date and service class of each
\* activation line are what is stored, or a discrepancy tells of it
\* (processRefill, processSdp, processVendor, processActivation).
Accounted ==
    \A f \in Files : batches[f] # Missing /\ batches[f].status = "PARSED" =>
        LET accepted == {n \in DOMAIN Lines(f) : Accepted(f, n)}
        IN  /\ batches[f].total = Len(Lines(f)) /\ batches[f].ok = Cardinality(accepted)
            /\ \A n \in DOMAIN Lines(f) : RowKey(f, n) \in rows
            /\ \A n \in accepted :
                 LET l == Lines(f)[n]
                 IN  CASE Source(f) \in {"refill", "sdp"} -> cdr[<<f, n>>] >= 1
                       [] Source(f) = "vendor" ->
                            IF l.kind = "loan" THEN \E k \in loans : k.id = mapVendorLoan(l).id
                            ELSE vendorRecoveryId(l) \in recoveries
                       [] OTHER ->
                            /\ \/ subscribers[l.who].activated = l.when
                               \/ Conflict(f, n, "activated_at") \in discrepancies
                            /\ \/ l.class \in {Missing, subscribers[l.who].class}
                               \/ Conflict(f, n, "service_class_id") \in discrepancies

\* What is known of a subscriber's activation is never overwritten, by another
\* line, another file, a retry or a replay (flushActivation: "Fill nulls only").
TrustedKept ==
    [][\A s \in Msisdns :
         /\ subscribers[s].activated # Missing => subscribers'[s].activated = subscribers[s].activated
         /\ subscribers[s].class # Missing => subscribers'[s].class = subscribers[s].class]_vars

Open(f) == batches[f] # Missing /\ batches[f].status \in {"RECEIVED", "PARSING"}

\* When no more files are sent, every batch is parsed or failed in the end, and
\* so is every replay of it, through retries, stalls and late marks; only a
\* batch whose process died before queue.add waits for a replay.
BatchesSettle == []<>(\A f \in Files : Open(f) => f \in orphans)

\* The recovery of a loan reaches the outcome of the decision it is linked to,
\* be it recovered before or after the decision was linked (runSweep).
RecoveryReachesOutcome ==
    \A g \in DOMAIN Logs :
        (outcomes[g] # Missing /\ \E l \in loans : l.id = outcomes[g].loan /\ l.recovered)
            ~> outcomes[g] # Missing /\ outcomes[g].recovered
=============================================================================
