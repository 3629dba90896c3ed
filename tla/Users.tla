-------------------------------- MODULE Users --------------------------------
(***************************************************************************)
(* Borrowers (UsersService, UserRepository) and the copies of them that    *)
(* Redis keeps (UsersCacheService).  A request reads first and then sends  *)
(* its statements one by one; save(user) writes the whole row that was     *)
(* read, and a failing cache command is logged and forgotten.              *)
(*                                                                         *)
(* Left out: e-mail, repayment status, filters and pages of the list (one  *)
(* list stands for all), loans in the eligible amount (LoanBook and        *)
(* UssdLoans have them), configuration that cannot be read when a user is  *)
(* created, and the copy of the credit score, which nothing fills.         *)
(***************************************************************************)
EXTENDS Integers, FiniteSets, Sequences

CONSTANTS
    Ids, Legacy,            \* users; the one stored before numbers were normalised
    Numbers, OldNumber,     \* telephone numbers; that of Legacy
    Slots,
    Amounts,                \* score -> amount of its threshold
    MaxRequests, MaxOverlaps, MaxFaults,    \* bounds: begun, overlapping, faults
    All, Missing

ASSUME UsersAssumption ==
    /\ Legacy \in Ids /\ OldNumber \in Numbers
    /\ Amounts \in [{0, 1} -> Nat] /\ IsFiniteSet(Ids)
    /\ {MaxRequests, MaxOverlaps, MaxFaults} \subseteq Nat

Statuses == {"active", "suspended"}
Scores == DOMAIN Amounts
Limits == {Amounts[s] : s \in Scores}
Forms == {"id", "userId"}           \* the two names a user is asked for by
Prefixes == {"0", "+234"}           \* the two spellings of a number

\* Rows of USERS; the null is none of them, nor a status.
UserRows ==
    [phone : Numbers \X Prefixes, status : Statuses, score : Scores, limit : Nat, auto : BOOLEAN]
ASSUME NullAssumption == Missing \notin UserRows /\ Missing \notin Statuses \union {"gone"}

\* Keys of the cache: users:<id>, users:<userId>, users:<id>:eligible-amount,
\* users:list:* and users:stats.
getUserListKey == <<All, "list">>
getUserStatsKey == <<All, "stats">>
getEligibleAmountKey(u) == <<u, "eligible">>
getUserKey(u, form) == <<u, form>>
Keys == (Ids \X (Forms \union {"eligible"})) \union {getUserListKey, getUserStatsKey}

VARIABLES
    users,          \* USERS: id -> row, or Missing
    born,           \* ids ever given
    cache,          \* Redis: key -> copy, or Missing
    calls,          \* requests in flight: slot -> statements to send
    begun, overlaps,
    excused,        \* keys whose copy may be old, and why is written at each place
    loose,          \* numbers a PATCH typed, or an older copy of a row still has
    word,           \* last status of a user that no other request could undo
    faults

requests == <<calls, begun, overlaps>>
vars == <<users, born, cache, requests, excused, loose, word, faults>>

Idle == <<>>

Init ==
    /\ users = [u \in Ids |-> IF u # Legacy THEN Missing
                              ELSE [phone |-> <<OldNumber, "+234">>, status |-> "active",
                                    score |-> 0, limit |-> Amounts[0], auto |-> FALSE]]
    /\ born = {Legacy}
    /\ cache = [k \in Keys |-> Missing]
    /\ calls = [c \in Slots |-> Idle] /\ begun = 0 /\ overlaps = 0
    /\ excused = {} /\ loose = {}
    /\ word = [u \in Ids |-> Missing] /\ faults = 0
-----------------------------------------------------------------------------
(* What the database answers, for each key of the cache.                   *)
Exists(u) == users[u] # Missing

\* findById; a custom userId and an id lead to the same row.
\* Mutant: the copy in the cache is taken for the row.
findById_cached(u, form) ==
    IF cache[getUserKey(u, form)] # Missing THEN cache[getUserKey(u, form)] ELSE users[u]

findById(u, form) == users[u]

\* calculateEligibleLoanAmount, for a user without loans.
EligibleAmount(row) ==
    LET amount == Amounts[row.score]
    IN  IF ~row.auto /\ row.limit > 0 /\ amount > row.limit THEN row.limit ELSE amount

getStats == [s \in Statuses |-> Cardinality({u \in Ids : Exists(u) /\ users[u].status = s})]

Answer(k) ==
    CASE k = getUserListKey -> users
      [] k = getUserStatsKey -> getStats
      [] OTHER -> IF ~Exists(k[1]) THEN Missing
                  ELSE IF k[2] = "eligible" THEN EligibleAmount(users[k[1]])
                  ELSE users[k[1]]

\* findByPhone: the normalised number, then every way it may have been stored.
\* Mutant: only the normalised number is looked for.
findByPhone_exact(number) == {u \in Ids : Exists(u) /\ users[u].phone = <<number, "0">>}

findByPhone(number) == {u \in Ids : Exists(u) /\ users[u].phone[1] = number}
-----------------------------------------------------------------------------
(* Statements of a request.                                                *)
Fill(k, copy) == <<[what |-> "fill", key |-> k, copy |-> copy]>>
Drop(k) == <<[what |-> "drop", key |-> k]>>
\* Mutant: the stats are forgotten.
DropShared_list == <<[what |-> "keys", key |-> getUserListKey]>>

\* The list and the stats; the keys of the lists are looked up before they go.
DropShared == <<[what |-> "keys", key |-> getUserListKey]>> \o Drop(getUserStatsKey)

\* covers: the copies that the request drops when it has saved.
Save(u, row, asked, covers) ==
    <<[what |-> "save", user |-> u, row |-> row, asked |-> asked, covers |-> covers]>>

Shared == {getUserListKey, getUserStatsKey}
Covers(u, form) == Shared \union {getUserKey(u, form)}
Invalidate(u, form) == Drop(getUserKey(u, form)) \o DropShared

Begin(c, todo) ==
    /\ calls[c] = Idle /\ begun < MaxRequests
    /\ begun' = begun + 1
    /\ calls' = [calls EXCEPT ![c] = todo]
    /\ \/ (\A d \in Slots : calls[d] = Idle) /\ UNCHANGED overlaps
       \/ overlaps < MaxOverlaps /\ (\E d \in Slots : calls[d] # Idle) /\ overlaps' = overlaps + 1
    /\ UNCHANGED <<users, cache, excused, word>>

\* findOne, findAll and getStats on a miss, or when Redis does not answer.
Look(c, k) ==
    /\ \/ cache[k] = Missing /\ UNCHANGED faults
       \/ cache[k] # Missing /\ faults < MaxFaults /\ faults' = faults + 1
    /\ Answer(k) # Missing
    /\ Begin(c, Fill(k, Answer(k)))
    /\ UNCHANGED <<born, loose>>

findOne(c, u, form) == Look(c, getUserKey(u, form))
findAll(c) == Look(c, getUserListKey)
stats(c) == Look(c, getUserStatsKey)
getEligibleLoanAmount(c, u) == Look(c, getEligibleAmountKey(u))

NewRow(number, status, score) ==
    [phone |-> <<number, "0">>, status |-> status, score |-> score, limit |-> Amounts[score],
     auto |-> FALSE]

create(c, u, number, status, score) ==
    /\ u \notin born /\ findByPhone(number) = {}
    /\ born' = born \union {u}
    /\ Begin(c, Save(u, NewRow(number, status, score), status, Shared) \o DropShared)
    /\ UNCHANGED <<loose, faults>>

Change(c, u, form, row, asked) ==
    /\ Exists(u)
    /\ Begin(c, Save(u, row, asked, Covers(u, form)) \o Invalidate(u, form))
    /\ UNCHANGED <<born, faults>>

\* update with a phone: it is stored as it was typed.
updatePhone(c, u, form, number, prefix) ==
    /\ Exists(u)
    /\ Change(c, u, form, [findById(u, form) EXCEPT !.phone = <<number, prefix>>], Missing)
    /\ loose' = loose \union {number}

updateStatus(c, u, form, status) ==
    /\ Exists(u)
    /\ Change(c, u, form, [findById(u, form) EXCEPT !.status = status], status)
    /\ UNCHANGED loose

setCreditLimit(c, u, form, limit) ==
    /\ Exists(u)
    /\ Change(c, u, form, [findById(u, form) EXCEPT !.limit = limit, !.auto = FALSE], Missing)
    /\ UNCHANGED loose

\* updateCreditLimit with autoLimitEnabled: the amount may come from the cache,
\* and is kept there when it does not.
autoCreditLimit(c, u, form) ==
    /\ Exists(u)
    /\ LET k == getEligibleAmountKey(u)
           hit == cache[k] # Missing
           amount == IF hit THEN cache[k] ELSE EligibleAmount(users[u])
           row == [findById(u, form) EXCEPT !.limit = amount, !.auto = TRUE]
       IN  Begin(c, (IF hit THEN <<>> ELSE Fill(k, amount))
                    \o Save(u, row, Missing, Covers(u, form)) \o Invalidate(u, form))
    /\ UNCHANGED <<born, loose, faults>>

\* Two ids; when one is unknown the other is saved and no copy is dropped.
bulkUpdateStatus(c, u, v, status) ==
    LET Set(w) == [findById(w, "id") EXCEPT !.status = status]
        all == Shared \union {getUserKey(u, "id"), getUserKey(v, "id")}
    IN  /\ u # v /\ Exists(u)
        /\ Begin(c, IF Exists(v)
                    THEN Save(u, Set(u), status, all) \o Save(v, Set(v), status, all)
                         \o Drop(getUserKey(u, "id")) \o Invalidate(v, "id")
                    ELSE Save(u, Set(u), status, {}))
        /\ UNCHANGED <<born, loose, faults>>

\* By id: the DELETE of a custom userId is refused by the type of the column.
remove(c, u) ==
    /\ Exists(u)
    /\ Begin(c, <<[what |-> "delete", user |-> u]>> \o Invalidate(u, "id"))
    /\ UNCHANGED <<born, loose, faults>>

\* CreditScoreService: a better score, and the limit with it when it is automatic.
awardPoints(c, u) ==
    /\ Exists(u) /\ users[u].score = 0
    /\ LET row == [users[u] EXCEPT !.score = 1, !.limit = IF users[u].auto THEN Amounts[1] ELSE @]
       IN  Begin(c, Save(u, row, Missing, Covers(u, "id") \union {getEligibleAmountKey(u)})
                    \o Invalidate(u, "id") \o Drop(getEligibleAmountKey(u)))
    /\ UNCHANGED <<born, loose, faults>>
-----------------------------------------------------------------------------
(* One statement of a request.                                             *)
Head1(c, what) == calls[c] # Idle /\ Head(calls[c]).what = what
Proceed(c) == calls' = [calls EXCEPT ![c] = Tail(@)] /\ UNCHANGED <<begun, overlaps>>

Saves(todo, u) == \E i \in DOMAIN todo : todo[i].what \in {"save", "delete"} /\ todo[i].user = u
\* Another request holds a copy of the row that it will write.
Rival(c, u) == \E d \in Slots \ {c} : Saves(calls[d], u)

\* Numbers that other requests will write back, when these are those of the row.
Overtaken(c, u, phones) ==
    {n \in Numbers : \E d \in Slots \ {c} : \E i \in DOMAIN calls[d] :
        LET s == calls[d][i]
        IN  s.what = "save" /\ s.user = u /\ s.row.phone \notin phones /\ s.row.phone[1] = n}

Old(k) == cache[k] \notin {Missing, Answer(k)}

\* Copies that are old now and that the request does not mean to drop.
Stale(covers) == excused' = excused \union {k \in Keys \ covers : Old(k)'}

Taken(u, phone) == \E v \in Ids \ {u} : Exists(v) /\ users[v].phone = phone

\* save: the columns of the copy; a row that is gone is inserted again.
save(c) ==
    /\ Head1(c, "save")
    /\ LET s == Head(calls[c])
       IN  /\ ~Taken(s.user, s.row.phone)
           /\ users' = [users EXCEPT ![s.user] = s.row]
           /\ loose' = loose \union Overtaken(c, s.user, {s.row.phone})
           /\ word' = [word EXCEPT ![s.user] = IF Rival(c, s.user) THEN Missing
                                               ELSE IF s.asked # Missing THEN s.asked
                                               ELSE IF @ = "gone" THEN Missing ELSE @]
           /\ cache' = cache /\ Stale(s.covers)
    /\ Proceed(c)
    /\ UNCHANGED <<born, faults>>

\* Copies that the statements left are to drop, and that a fault leaves.
Undropped(todo) == {todo[i].key : i \in {j \in DOMAIN todo : todo[j].what \in {"drop", "keys"}}}
Breaks(c, rest) ==
    /\ calls' = [calls EXCEPT ![c] = rest]
    /\ excused' = excused \union {k \in Undropped(calls[c]) \ Undropped(rest) : Old(k)}

\* The rest of the request when a statement on the database fails: the other
\* save of a bulk update goes on, and no copy is dropped.
Abandoned(todo) ==
    IF Len(todo) > 1 /\ todo[2].what = "save" THEN <<[todo[2] EXCEPT !.covers = {}]>> ELSE Idle

refused(c) ==
    /\ \/ Head1(c, "save") /\ Taken(Head(calls[c]).user, Head(calls[c]).row.phone) /\ UNCHANGED faults
       \/ calls[c] # Idle /\ Head(calls[c]).what \in {"save", "delete"}
          /\ faults < MaxFaults /\ faults' = faults + 1
    /\ Breaks(c, Abandoned(calls[c]))
    /\ UNCHANGED <<users, born, cache, begun, overlaps, loose, word>>

delete(c) ==
    /\ Head1(c, "delete")
    /\ LET u == Head(calls[c]).user
       IN  /\ users' = [users EXCEPT ![u] = Missing]
           /\ loose' = loose \union Overtaken(c, u, {})
           /\ word' = [word EXCEPT ![u] = IF Rival(c, u) THEN Missing ELSE "gone"]
           /\ cache' = cache /\ Stale(Covers(u, "id"))
    /\ Proceed(c)
    /\ UNCHANGED <<born, faults>>

\* A copy that was read before a change is excused for what it is.
fill(c) ==
    /\ Head1(c, "fill")
    /\ LET s == Head(calls[c])
       IN  /\ cache' = [cache EXCEPT ![s.key] = s.copy]
           /\ excused' = IF s.copy # Answer(s.key) THEN excused \union {s.key} ELSE excused \ {s.key}
    /\ Proceed(c)
    /\ UNCHANGED <<users, born, loose, word, faults>>

drop(c) ==
    /\ Head1(c, "drop")
    /\ cache' = [cache EXCEPT ![Head(calls[c]).key] = Missing]
    /\ excused' = excused \ {Head(calls[c]).key}
    /\ Proceed(c)
    /\ UNCHANGED <<users, born, loose, word, faults>>

\* KEYS of delPattern; its DEL comes when the answer is there.
keys(c) ==
    /\ Head1(c, "keys")
    /\ calls' = [calls EXCEPT ![c] =
                   Tail(@) \o (IF cache[getUserListKey] = Missing THEN <<>> ELSE Drop(getUserListKey))]
    /\ UNCHANGED <<users, born, cache, begun, overlaps, excused, loose, word, faults>>

\* A cache command fails: the eligible amount of a user comes last and is not
\* tried when the user could not be dropped.
cacheFails(c) ==
    /\ calls[c] # Idle /\ Head(calls[c]).what \in {"fill", "drop", "keys"}
    /\ faults < MaxFaults /\ faults' = faults + 1
    /\ LET s == Head(calls[c])
           last == calls[c][Len(calls[c])]
           skipped == s.what = "drop" /\ last.what = "drop" /\ s # last
                      /\ last.key = getEligibleAmountKey(s.key[1])
       IN  Breaks(c, SubSeq(calls[c], 2, Len(calls[c]) - (IF skipped THEN 1 ELSE 0)))
    /\ UNCHANGED <<users, born, cache, begun, overlaps, loose, word>>

\* The process that serves a request dies.
dies(c) ==
    /\ calls[c] # Idle /\ faults < MaxFaults /\ faults' = faults + 1
    /\ Breaks(c, Idle)
    /\ UNCHANGED <<users, born, cache, begun, overlaps, loose, word>>

\* The time to live of a copy ends.
expires(k) ==
    /\ cache[k] # Missing
    /\ cache' = [cache EXCEPT ![k] = Missing]
    /\ excused' = excused \ {k}
    /\ UNCHANGED <<users, born, requests, loose, word, faults>>

Request(c) ==
    \/ findAll(c) \/ stats(c)
    \/ \E u \in Ids :
        \/ getEligibleLoanAmount(c, u) \/ remove(c, u) \/ awardPoints(c, u)
        \/ \E n \in Numbers, s \in Statuses, score \in Scores : create(c, u, n, s, score)
        \/ \E v \in Ids, s \in Statuses : bulkUpdateStatus(c, u, v, s)
        \/ \E form \in Forms :
            \/ findOne(c, u, form) \/ autoCreditLimit(c, u, form)
            \/ \E n \in Numbers, p \in Prefixes : updatePhone(c, u, form, n, p)
            \/ \E s \in Statuses : updateStatus(c, u, form, s)
            \/ \E l \in Limits : setCreditLimit(c, u, form, l)

Statement(c) == save(c) \/ delete(c) \/ fill(c) \/ drop(c) \/ keys(c)
Fault(c) == refused(c) \/ cacheFails(c) \/ dies(c)

Next ==
    \/ \E c \in Slots : Request(c) \/ Statement(c) \/ Fault(c)
    \/ \E k \in Keys : expires(k)

Spec == Init /\ [][Next]_vars
-----------------------------------------------------------------------------
\* create never gives one telephone number to two users, however the older row
\* spells it and whatever else is being created: two users share a number only
\* when a PATCH typed it, or when a request that had read a row before another
\* changed or removed it wrote it back (users.service.ts:60-70,
\* user.repository.ts:52-112).
OneUserPerNumber ==
    \A u, v \in Ids : u # v /\ Exists(u) /\ Exists(v) /\ users[u].phone[1] = users[v].phone[1]
                      => users[u].phone[1] \in loose

\* A copy in the cache is what the database says, or a request in flight is
\* about to drop it, or it is old for a reason that is known: the change came
\* under the other name of the user or from a request that never drops it, the
\* copy was read before a change and stored after, a cache command failed, a
\* bulk update was refused half way, or a process died (users.service.ts:413-427).
CopiesExplained ==
    \A k \in Keys : \/ cache[k] \in {Missing, Answer(k)}
                    \/ k \in excused
                    \/ \E c \in Slots : k \in Undropped(calls[c])

\* The last status given to a user stands, and a removed user stays removed,
\* unless another request was in flight with an older copy of the row
\* (users.service.ts:440-451, 574-583).
LastWordStands ==
    \A u \in Ids : CASE word[u] = Missing -> TRUE
                     [] word[u] = "gone" -> ~Exists(u)
                     [] OTHER -> Exists(u) /\ users[u].status = word[u]
=============================================================================
