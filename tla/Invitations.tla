----------------------------- MODULE Invitations -----------------------------
(***************************************************************************)
(* Invitations of admins: rows of ADMIN_INVITATIONS, the accounts they     *)
(* lead to, the number of users kept with the role, and the Redis cache of *)
(* what a link was found to be.  Requests overlap, the process may die     *)
(* between their statements, and time passes.  The cached list, which is   *)
(* deleted at every change and kept in the same way, is left out.          *)
(***************************************************************************)
EXTENDS Integers, FiniteSets, Sequences

CONSTANTS
    Emails, Slots,
    MaxInvites,     \* bound: invitations ever created
    MaxTokens,      \* bound: links ever issued
    MaxFaults,      \* bound: dying processes and failing commands
    Missing

ASSUME InvitationsAssumption ==
    /\ {MaxInvites, MaxTokens, MaxFaults} \subseteq Nat
    /\ MaxInvites > 0 /\ MaxTokens > 0
    /\ IsFiniteSet(Slots)

Ids == 1 .. MaxInvites
Tokens == 1 .. MaxTokens

\* Rows of ADMIN_INVITATIONS; the null is none of them.
InvitationRows ==
    [email : Emails, token : Nat, status : {"pending", "accepted", "expired"}, late : BOOLEAN]
ASSUME NullAssumption == Missing \notin InvitationRows

VARIABLES
    invitations,    \* id -> row, or Missing
    made, issued,   \* invitations created and links issued so far
    accounts,       \* emails of ADMIN_USERS
    userCount,      \* of the role the invitations are for
    verified,       \* invitations:verify:<token>
    calls,          \* requests in flight: slot -> the statements to do
    overlapped,     \* two accounts were being set up at once
    faults

tables == <<invitations, made, issued, accounts, userCount>>
vars == <<tables, verified, calls, overlapped, faults>>

Idle == <<>>

Init ==
    /\ invitations = [i \in Ids |-> Missing] /\ made = 0 /\ issued = 0
    /\ accounts = {} /\ userCount = 0
    /\ verified = [t \in Tokens |-> Missing]
    /\ calls = [c \in Slots |-> Idle]
    /\ overlapped = FALSE /\ faults = 0
-----------------------------------------------------------------------------
\* A statement of a request: what it does, and to which row, link or value.
Do(what, arg) == [what |-> what, arg |-> arg]

\* No request begins a row or a link beyond the bounds.
Pending(what) == Cardinality({c \in Slots : \E i \in DOMAIN calls[c] : calls[c][i].what = what})
RoomToInvite == made + Pending("create") < MaxInvites
RoomForToken == issued + Pending("create") + Pending("renew") < MaxTokens

Begin(c, todo) ==
    /\ calls[c] = Idle
    /\ calls' = [calls EXCEPT ![c] = todo]

Exists(i) == invitations[i] # Missing
OfEmail(e, status) == {i \in Ids : Exists(i) /\ invitations[i].email = e /\ invitations[i].status = status}
ByToken(t) == {i \in Ids : Exists(i) /\ invitations[i].token = t}

\* By status or by date.
IsOver(i) == invitations[i].status = "expired" \/ invitations[i].late
MarkExpired(i) == IF invitations[i].status = "expired" THEN <<>> ELSE <<Do("expire", i)>>

\* An invitation that is late but not marked still counts as pending.
inviteAdmin(c, e) ==
    /\ RoomToInvite /\ RoomForToken
    /\ OfEmail(e, "pending") = {} /\ e \notin accounts
    /\ Begin(c, <<Do("create", e)>>)
    /\ UNCHANGED <<tables, verified, overlapped, faults>>

\* What the link is found to be.
Answer(t) == IF \E i \in ByToken(t) : invitations[i].status # "accepted" /\ ~IsOver(i)
             THEN "valid" ELSE "invalid"

\* Invalid answers are cached as well, that of a failing database included.
verifyInviteToken(c, t) ==
    /\ verified[t] = Missing
    /\ \/ /\ Begin(c, (IF \E i \in ByToken(t) : invitations[i].status = "pending" /\ IsOver(i)
                       THEN MarkExpired(CHOOSE i \in ByToken(t) : TRUE) ELSE <<>>)
                      \o <<Do("keepAnswer", <<t, Answer(t)>>)>>)
          /\ UNCHANGED faults
       \/ /\ faults < MaxFaults
          /\ faults' = faults + 1
          /\ Begin(c, <<Do("keepAnswer", <<t, "invalid">>)>>)
    /\ UNCHANGED <<tables, verified, overlapped>>

\* Mutant: the invitation is marked as accepted first.
AccountSteps_early(i, t) ==
    <<Do("accept", i), Do("saveUser", invitations[i].email), Do("count", Missing), Do("saveRole", 0),
      Do("forgetAnswer", t)>>

AccountSteps(i, t) ==
    <<Do("saveUser", invitations[i].email), Do("count", Missing), Do("saveRole", 0), Do("accept", i),
      Do("forgetAnswer", t)>>

\* A call with a link that is used, or whose email has an account, is refused.
setupAdminAccount(c, t) ==
    /\ \E i \in ByToken(t) :
         /\ invitations[i].status # "accepted"
         /\ \/ IsOver(i) /\ MarkExpired(i) # <<>> /\ Begin(c, MarkExpired(i))
            \/ /\ ~IsOver(i) /\ invitations[i].email \notin accounts
               /\ Begin(c, AccountSteps(i, t))
    /\ overlapped' = (overlapped \/ Pending("saveRole") > 0)
    /\ UNCHANGED <<tables, verified, faults>>

resendInvitation(c, i) ==
    /\ RoomForToken
    /\ Exists(i) /\ invitations[i].status = "pending" /\ ~invitations[i].late
    /\ Begin(c, <<Do("renew", i), Do("forgetAnswer", invitations[i].token)>>)
    /\ UNCHANGED <<tables, verified, overlapped, faults>>

\* What is cached of the link is left.
cancelInvitation(c, i) ==
    /\ Exists(i)
    /\ Begin(c, <<Do("delete", i)>>)
    /\ UNCHANGED <<tables, verified, overlapped, faults>>
\* RolesService counts the users of a role again whenever it is looked at.
recount(c) ==
    /\ Begin(c, <<Do("count", Missing), Do("saveRole", 0)>>)
    /\ overlapped' = (overlapped \/ Pending("saveRole") > 0)
    /\ UNCHANGED <<tables, verified, faults>>
-----------------------------------------------------------------------------
Now(c, what) == calls[c] # Idle /\ Head(calls[c]).what = what
Arg(c) == Head(calls[c]).arg
GoOn(c) == calls' = [calls EXCEPT ![c] = Tail(@)]
Refused(c) == calls' = [calls EXCEPT ![c] = Idle]

create(c) ==
    /\ Now(c, "create") /\ GoOn(c)
    /\ made' = made + 1 /\ issued' = issued + 1
    /\ invitations' = [invitations EXCEPT ![made + 1] =
                         [email |-> Arg(c), token |-> issued + 1, status |-> "pending", late |-> FALSE]]
    /\ UNCHANGED <<accounts, userCount, verified, overlapped, faults>>

Row(c) == invitations[Arg(c)]

\* An update of a row that is gone finds nothing to return and throws.  The
\* catch of verifyInviteToken verified an invalid answer then, as is due anyway.
UpdateRow(c, what, row) ==
    /\ Now(c, what)
    /\ IF Exists(Arg(c))
       THEN /\ invitations' = [invitations EXCEPT ![Arg(c)] = row]
            /\ GoOn(c)
       ELSE /\ UNCHANGED invitations
            /\ IF what = "expire" THEN GoOn(c) ELSE Refused(c)

expireRow(c) ==
    /\ UpdateRow(c, "expire", [Row(c) EXCEPT !.status = "expired"])
    /\ UNCHANGED <<made, issued, accounts, userCount, verified, overlapped, faults>>

accept(c) ==
    /\ UpdateRow(c, "accept", [Row(c) EXCEPT !.status = "accepted"])
    /\ UNCHANGED <<made, issued, accounts, userCount, verified, overlapped, faults>>

renew(c) ==
    /\ UpdateRow(c, "renew", [Row(c) EXCEPT !.token = issued + 1, !.late = FALSE])
    /\ issued' = issued + 1
    /\ UNCHANGED <<made, accounts, userCount, verified, overlapped, faults>>

deleteRow(c) ==
    /\ UpdateRow(c, "delete", Missing)
    /\ UNCHANGED <<made, issued, accounts, userCount, verified, overlapped, faults>>

\* The email is unique.
saveUser(c) ==
    /\ Now(c, "saveUser")
    /\ IF Arg(c) \in accounts THEN Refused(c) ELSE GoOn(c)
    /\ accounts' = accounts \union {Arg(c)}
    /\ UNCHANGED <<invitations, made, issued, userCount, verified, overlapped, faults>>

\* The users are counted before the role is saved.
countUsers(c) ==
    /\ Now(c, "count")
    /\ calls' = [calls EXCEPT ![c] = [Tail(@) EXCEPT ![1] = Do("saveRole", Cardinality(accounts))]]
    /\ UNCHANGED <<tables, verified, overlapped, faults>>

saveRole(c) ==
    /\ Now(c, "saveRole") /\ GoOn(c)
    /\ userCount' = Arg(c)
    /\ UNCHANGED <<invitations, made, issued, accounts, verified, overlapped, faults>>

keepAnswer(c) ==
    /\ Now(c, "keepAnswer") /\ GoOn(c)
    /\ verified' = [verified EXCEPT ![Arg(c)[1]] = Arg(c)[2]]
    /\ UNCHANGED <<tables, overlapped, faults>>

\* A failing del is logged and forgotten.
forgetAnswer(c) ==
    /\ Now(c, "forgetAnswer") /\ GoOn(c)
    /\ \/ verified' = [verified EXCEPT ![Arg(c)] = Missing] /\ UNCHANGED faults
       \/ faults < MaxFaults /\ faults' = faults + 1 /\ UNCHANGED verified
    /\ UNCHANGED <<tables, overlapped>>

Statement(c) ==
    \/ create(c) \/ expireRow(c) \/ accept(c) \/ renew(c) \/ deleteRow(c)
    \/ saveUser(c) \/ countUsers(c) \/ saveRole(c)
    \/ keepAnswer(c) \/ forgetAnswer(c)

\* The process dies, and every request with it.
dies ==
    /\ faults < MaxFaults /\ \E c \in Slots : calls[c] # Idle
    /\ faults' = faults + 1
    /\ calls' = [c \in Slots |-> Idle]
    /\ UNCHANGED <<tables, verified, overlapped>>

\* Seven days pass, which matters to a pending invitation only.
getsLate(i) ==
    /\ Exists(i) /\ ~invitations[i].late /\ invitations[i].status = "pending"
    /\ invitations' = [invitations EXCEPT ![i].late = TRUE]
    /\ UNCHANGED <<made, issued, accounts, userCount, verified, calls, overlapped, faults>>

\* Mutant: an answer that the link is good is kept without TTL.
answerExpires_good(t) ==
    /\ verified[t] = "invalid"
    /\ verified' = [verified EXCEPT ![t] = Missing]
    /\ UNCHANGED <<tables, calls, overlapped, faults>>

\* redis.ttl seconds after it was set; a hit does not prolong it.
answerExpires(t) ==
    /\ verified[t] # Missing
    /\ verified' = [verified EXCEPT ![t] = Missing]
    /\ UNCHANGED <<tables, calls, overlapped, faults>>
-----------------------------------------------------------------------------
Request(c) ==
    \/ \E e \in Emails : inviteAdmin(c, e)
    \/ recount(c)
    \/ \E t \in 1 .. issued : verifyInviteToken(c, t) \/ setupAdminAccount(c, t)
    \/ \E i \in Ids : resendInvitation(c, i) \/ cancelInvitation(c, i)

Next ==
    \/ \E c \in Slots : Request(c) \/ Statement(c)
    \/ dies
    \/ \E i \in Ids : getsLate(i)
    \/ \E t \in Tokens : answerExpires(t)

Spec ==
    /\ Init /\ [][Next]_vars
    /\ \A c \in Slots : WF_vars(Statement(c))
    /\ \A t \in Tokens : WF_vars(answerExpires(t))
-----------------------------------------------------------------------------
\* An invitation shown as accepted has led to an account, and unless two
\* accounts were being set up at once the role counts it, whichever request
\* died on the way or was overtaken by a resend, a cancellation or another
\* invitation of the same email (setupAdminAccount).
AcceptedIsComplete ==
    LET accepted == {invitations[i].email : i \in {j \in Ids : Exists(j) /\ invitations[j].status = "accepted"}}
    IN  /\ accepted \subseteq accounts
        /\ ~overlapped => userCount >= Cardinality(accepted)

\* What is cached of a link, by a verification that was overtaken, before a
\* cancellation or an expiry, or for a failing database, is not answered for
\* ever (verifyInviteToken).
AnswersConverge == \A t \in Tokens : []<>(verified[t] \in {Missing, Answer(t)})
=============================================================================
