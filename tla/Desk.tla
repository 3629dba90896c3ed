-------------------------------- MODULE Desk --------------------------------
(***************************************************************************)
(* Support tickets (SupportService) and the notifications they send        *)
(* (NotificationService, its queue, and the batching writer that BatchLog  *)
(* describes, in the same process).  A request reads first and sends its   *)
(* statements one by one; bulk updates save whole rows that were read.     *)
(*                                                                         *)
(* Left out: names beside ids, departments, listing, e-mail, the mark that *)
(* a notification was read, and tickets of another year.                   *)
(***************************************************************************)
EXTENDS Integers, FiniteSets, Sequences

CONSTANTS
    Agents, Admins,                 \* whom a ticket can be assigned to
    Slots,
    MaxTickets, MaxRequests,        \* bounds: ever created, ever begun
    MaxOverlaps, MaxFailures,       \* bounds: overlapping requests, faults
    BatchSize, Attempts, Concurrency,   \* of the notification worker
    Missing, NoJob, NoFlush

ASSUME DeskAssumption ==
    /\ {MaxTickets, MaxRequests, MaxOverlaps, MaxFailures} \subseteq Nat
    /\ {BatchSize, Attempts, Concurrency} \subseteq Nat \ {0}

Tickets == 1 .. MaxTickets      \* a ticket is named by its number
People == Agents \union Admins
Statuses == {"open", "in-progress", "resolved", "closed", "escalated"}
Done == {"resolved", "closed"}
Rows == [status : Statuses, assignee : People \union {Missing}, dated : BOOLEAN, count : Nat]
Notices == [kind : {"created", "assigned", "escalated"}, ticket : Tickets, to : Admins]

VARIABLES
    tickets,        \* SUPPORT_TICKETS: number -> row, or Missing
    load,           \* activeTickets of an agent
    messages,       \* CHAT_MESSAGES of a ticket
    history,        \* actions in TICKET_HISTORY of a ticket
    calls,          \* requests in flight: slot -> statements to send
    begun, overlaps,
    asked,          \* notifications handed to the queue, by what they say
    noticeJob, buffer, flushing, timer, closing, table, failures    \* of BatchLog

desk == <<tickets, load, messages, history>>
requests == <<calls, begun, overlaps>>

\* bulkCreate: the rows of a batch, each with a fresh id.
Insert(rows, batch) ==
    [n \in Notices |-> rows[n] + Cardinality({i \in DOMAIN batch : batch[i] = n})]

\* A notification has at most one unfinished job in these instances.
Log == INSTANCE BatchLog WITH
    Jobs <- Notices, Payloads <- Notices, Tables <- [Notices -> Nat],
    job <- noticeJob, faults <- failures, MaxFaults <- MaxFailures

\* The nulls are none of the values they stand beside.
ASSUME NullsNotRows ==
    /\ Missing \notin Rows
    /\ NoJob \notin [st : Log!JobStates, tries : Nat, data : Notices]
    /\ NoFlush \notin [by : Log!Triggers, batch : Seq(Notices)]

log == <<noticeJob, buffer, flushing, timer, closing, table>>
deskVars == <<desk, requests, asked, log, failures>>

Idle == <<>>

DeskInit ==
    /\ tickets = [t \in Tickets |-> Missing] /\ load = [a \in Agents |-> 0]
    /\ messages = [t \in Tickets |-> 0] /\ history = [t \in Tickets |-> {}]
    /\ calls = [c \in Slots |-> Idle] /\ begun = 0 /\ overlaps = 0
    /\ asked = [n \in Notices |-> 0] /\ table = [n \in Notices |-> 0]
    /\ Log!LogInit
-----------------------------------------------------------------------------
Do(what, arg) == [what |-> what, arg |-> arg]

Begin(c, todo) ==
    /\ ~closing /\ calls[c] = Idle /\ begun < MaxRequests
    /\ begun' = begun + 1
    /\ calls' = [calls EXCEPT ![c] = todo]
    /\ \/ (\A d \in Slots : calls[d] = Idle) /\ UNCHANGED overlaps
       \/ overlaps < MaxOverlaps /\ (\E d \in Slots : calls[d] # Idle) /\ overlaps' = overlaps + 1
    /\ UNCHANGED <<desk, asked, log, failures>>

\* A row, or rows by number, with what a statement sets.
Patched(old, new) == [k \in DOMAIN old |-> IF k \in DOMAIN new THEN new[k] ELSE old[k]]

\* getTicketById
Exists(t) == tickets[t] # Missing

Update(t, patch) == <<Do("updateRow", <<t, patch>>)>>
Note(t, action) == <<Do("saveHistory", <<t, action>>)>>
Notify(recipients, kind, t) ==
    <<Do("enqueue", {[kind |-> kind, ticket |-> t, to |-> a] : a \in recipients})>>

\* One more or one less ticket for whom it is assigned to, if that is an agent.
Adjust(who, by) == IF who \in Agents THEN <<Do("readAgent", <<who, by>>)>> ELSE <<>>

\* NotificationConfigService looks for an admin with the id: an agent has none.
Recipients(who) == {who} \intersect Admins

createTicket(c, who) ==
    LET n == Cardinality({t \in Tickets : Exists(t)}) + 1     \* generateTicketNumber
        row == [status |-> IF who = Missing THEN "open" ELSE "in-progress",
                assignee |-> who, dated |-> FALSE, count |-> 0]
    IN  /\ n \in Tickets
        /\ Begin(c, Adjust(who, 1) \o <<Do("insertTicket", <<n, row>>)>> \o Note(n, "created")
                    \o (IF who = Missing THEN <<>>
                        ELSE Note(n, "assigned") \o Notify(Recipients(who), "assigned", n))
                    \o Notify(Admins, "created", n))

\* Mutant: the history is written before the ticket.
Recorded_first(t, patch, action) == Note(t, action) \o Update(t, patch)

Recorded(t, patch, action) == Update(t, patch) \o Note(t, action)

\* resolvedAt is set by the first change to resolved.
updateTicket(c, t, status) ==
    /\ Exists(t)
    /\ LET row == tickets[t]
           patch == [status |-> status, dated |-> row.dated \/ status = "resolved"]
       IN  Begin(c, IF status = row.status THEN Update(t, patch)
                    ELSE Recorded(t, patch, status)
                         \o (IF status \in Done THEN Adjust(row.assignee, -1) ELSE <<>>))

\* The same request with assignedTo: neither agents nor history change.
reassignTicket(c, t, who) == Exists(t) /\ Begin(c, Update(t, [assignee |-> who]))

assignTicket(c, t, who) ==
    /\ Exists(t)
    /\ LET status == IF tickets[t].status = "open" THEN "in-progress" ELSE tickets[t].status
       IN  Begin(c, Adjust(who, 1)
                    \o Recorded(t, [assignee |-> who, status |-> status], "assigned")
                    \o Notify(Recipients(who), "assigned", t))

\* The new agent was read before the ticket is updated and the other one saved.
escalateTicket(c, t, who) ==
    /\ Exists(t)
    /\ Begin(c, Update(t, [status |-> "escalated"]) \o Adjust(tickets[t].assignee, -1)
                \o (IF who \in Agents THEN <<Do("saveAgent", <<who, load[who] + 1>>)>> ELSE <<>>)
                \o Note(t, "escalated") \o Notify(Recipients(who), "escalated", t))

\* Mutant: the counter is moved before the message is saved.
Sent_early(t) == Update(t, [count |-> tickets[t].count + 1]) \o <<Do("saveMessage", t)>>

Sent(t) == <<Do("saveMessage", t)>> \o Update(t, [count |-> tickets[t].count + 1])

sendMessage(c, t) == Exists(t) /\ Begin(c, Sent(t) \o Note(t, "message"))

\* bulkUpdate: rows are read, patched, and saved in one transaction.
Bulk(c, ts, patch) ==
    /\ ts # {} /\ \A t \in ts : Exists(t)
    /\ Begin(c, <<Do("saveTickets", [t \in ts |-> Patched(tickets[t], patch)])>>)

bulkAssign(c, ts, who) == Bulk(c, ts, [assignee |-> who, status |-> "in-progress"])
bulkResolve(c, ts) == Bulk(c, ts, [status |-> "resolved", dated |-> TRUE])
bulkStatus(c, ts, status) == Bulk(c, ts, [status |-> status])
bulkEscalate(c, ts) == Bulk(c, ts, [status |-> "escalated"])
-----------------------------------------------------------------------------
Sends(c, what) == calls[c] # Idle /\ Head(calls[c]).what = what
Arg(c) == Head(calls[c]).arg
Answered(c) ==
    /\ calls' = [calls EXCEPT ![c] = Tail(@)]
    /\ UNCHANGED <<begun, overlaps>>
Elsewhere == UNCHANGED <<asked, log, failures>>

readAgent(c) ==
    /\ Sends(c, "readAgent")
    /\ LET a == Arg(c)[1]
           n == load[a] + Arg(c)[2]
       IN  calls' = [calls EXCEPT ![c] =
                       <<Do("saveAgent", <<a, IF n < 0 THEN 0 ELSE n>>)>> \o Tail(@)]
    /\ UNCHANGED <<desk, begun, overlaps>> /\ Elsewhere

saveAgent(c) ==
    /\ Sends(c, "saveAgent") /\ Answered(c)
    /\ load' = [load EXCEPT ![Arg(c)[1]] = Arg(c)[2]]
    /\ UNCHANGED <<tickets, messages, history>> /\ Elsewhere

\* The number is unique: a request that read the same count before fails.
insertTicket(c) ==
    /\ Sends(c, "insertTicket")
    /\ IF Exists(Arg(c)[1])
       THEN /\ calls' = [calls EXCEPT ![c] = Idle]
            /\ UNCHANGED <<tickets, begun, overlaps>>
       ELSE /\ Answered(c)
            /\ tickets' = [tickets EXCEPT ![Arg(c)[1]] = Arg(c)[2]]
    /\ UNCHANGED <<load, messages, history>> /\ Elsewhere

updateRow(c) ==
    /\ Sends(c, "updateRow") /\ Answered(c)
    /\ tickets' = [tickets EXCEPT ![Arg(c)[1]] = Patched(@, Arg(c)[2])]
    /\ UNCHANGED <<load, messages, history>> /\ Elsewhere

saveTickets(c) ==
    /\ Sends(c, "saveTickets") /\ Answered(c)
    /\ tickets' = Patched(tickets, Arg(c))
    /\ UNCHANGED <<load, messages, history>> /\ Elsewhere

saveMessage(c) ==
    /\ Sends(c, "saveMessage") /\ Answered(c)
    /\ messages' = [messages EXCEPT ![Arg(c)] = @ + 1]
    /\ UNCHANGED <<tickets, load, history>> /\ Elsewhere

saveHistory(c) ==
    /\ Sends(c, "saveHistory") /\ Answered(c)
    /\ history' = [history EXCEPT ![Arg(c)[1]] = @ \union {Arg(c)[2]}]
    /\ UNCHANGED <<tickets, load, messages>> /\ Elsewhere

\* addBulk; when Redis fails, the error is logged and nothing is queued.
enqueueBulk(c) ==
    /\ Sends(c, "enqueue") /\ Answered(c)
    /\ \/ /\ \A n \in Arg(c) : noticeJob[n] = NoJob
          /\ noticeJob' = [n \in Notices |-> IF n \in Arg(c) THEN Log!Job("waiting", 0, n) ELSE noticeJob[n]]
          /\ asked' = [n \in Notices |-> IF n \in Arg(c) THEN asked[n] + 1 ELSE asked[n]]
          /\ UNCHANGED failures
       \/ /\ Arg(c) # {} /\ failures < MaxFailures
          /\ failures' = failures + 1
          /\ UNCHANGED <<noticeJob, asked>>
    /\ UNCHANGED <<desk, buffer, flushing, timer, closing, table>>

Statement(c) ==
    \/ readAgent(c) \/ saveAgent(c) \/ insertTicket(c) \/ updateRow(c) \/ saveTickets(c)
    \/ saveMessage(c) \/ saveHistory(c) \/ enqueueBulk(c)
-----------------------------------------------------------------------------
\* The worker lives in the API process.
processNotification(n) == Log!process(n) /\ UNCHANGED <<desk, requests, asked>>

flush ==
    /\ Log!timerFires \/ Log!flushDone \/ Log!flushFails
    /\ UNCHANGED <<desk, requests, asked>>

\* app.close(): requests go on until the process exits.
shutdown == Log!onModuleDestroy /\ UNCHANGED <<desk, requests, asked>>

\* The end of the process, or its death: what was in flight is gone.
ends ==
    /\ \/ Log!exit /\ \A c \in Slots : calls[c] = Idle
       \/ Log!crash
    /\ calls' = [c \in Slots |-> Idle]
    /\ UNCHANGED <<desk, begun, overlaps, asked>>

Request(c) ==
    \/ \E who \in People \union {Missing} : createTicket(c, who)
    \/ \E t \in Tickets, s \in Statuses : updateTicket(c, t, s)
    \/ \E t \in Tickets, who \in People :
          reassignTicket(c, t, who) \/ assignTicket(c, t, who) \/ escalateTicket(c, t, who)
    \/ \E t \in Tickets : sendMessage(c, t)
    \/ \E ts \in SUBSET Tickets :
          \/ \E who \in People : bulkAssign(c, ts, who)
          \/ \E s \in Statuses : bulkStatus(c, ts, s)
          \/ bulkResolve(c, ts) \/ bulkEscalate(c, ts)

DeskNext ==
    \/ \E c \in Slots : Request(c) \/ Statement(c)
    \/ \E n \in Notices : processNotification(n)
    \/ flush \/ shutdown \/ ends

DeskSpec == DeskInit /\ [][DeskNext]_deskVars
-----------------------------------------------------------------------------
Quiet == \A c \in Slots : calls[c] = Idle
Undisturbed == overlaps = 0 /\ failures = 0

\* A ticket never counts messages it does not have, however requests overlap,
\* save old rows, or die; one request at a time counts them all (sendMessage,
\* bulkUpdate).
MessagesCounted ==
    \A t \in Tickets : Exists(t) =>
        /\ tickets[t].count <= messages[t]
        /\ Undisturbed /\ Quiet => tickets[t].count = messages[t]

\* Requests that come one after the other, some of which died half-way: a
\* ticket whose history says it was resolved has a date of that (updateTicket
\* against the bulk updates, which write rows and no history).
ResolvedIsDated ==
    overlaps = 0 => \A t \in Tickets : "resolved" \in history[t] => tickets[t].dated

\* Notifications are about what the history of the ticket tells, also when a
\* request died; and as long as nothing fails each one that was queued is on
\* its way or stored, exactly once, whatever batches fill up while another
\* INSERT runs (NotificationService, NotificationProcessor).
NoticesAccounted ==
    \A n \in Notices :
        /\ asked[n] > 0 => n.kind \in history[n.ticket]
        /\ failures = 0 =>
              asked[n] = table[n] + (IF noticeJob[n] # NoJob /\ noticeJob[n].st = "waiting" THEN 1 ELSE 0)
                         + Cardinality({i \in DOMAIN buffer : buffer[i] = n})
                         + (IF flushing = NoFlush THEN 0
                            ELSE Cardinality({i \in DOMAIN flushing.batch : flushing.batch[i] = n}))

=============================================================================
