------------------------------- MODULE Access -------------------------------
(***************************************************************************)
(* Sign-in of an admin (AuthService): password and second factor, pending  *)
(* logins, backup codes, refresh tokens, password reset and profile.  A    *)
(* request reads first and then sends its statements one by one; requests  *)
(* overlap and the process may die between two statements.  save(user) and *)
(* save(session) write the whole row that was read.                        *)
(***************************************************************************)
EXTENDS Integers, FiniteSets, Sequences

CONSTANTS
    Slots, Passwords, FirstPassword,
    MaxSessions, MaxTokens, MaxCodeSets, MaxResets,  \* bounds: ever created
    MaxFaults, MaxOverlaps,                          \* bounds: dying processes, overlapping requests
    Missing

ASSUME AccessAssumption ==
    /\ FirstPassword \in Passwords
    /\ {MaxSessions, MaxTokens, MaxCodeSets, MaxResets, MaxFaults, MaxOverlaps} \subseteq Nat

Sessions == 1 .. MaxSessions

\* Rows of ADMIN_USERS and PENDING_LOGINS, and what a reset promises: the
\* password, and that neither its link nor the tokens of before are any good.
UserRows ==
    [password : Passwords, twoFactor : BOOLEAN, otp : BOOLEAN, refresh : Nat \union {Missing},
     resetHash : Nat \union {Missing}, resetUsed : BOOLEAN, resetLate : BOOLEAN]
SessionRows == [type : {"mfa", "setup"}, used : BOOLEAN, late : BOOLEAN, secret : BOOLEAN]
Promises == [password : Passwords, hash : Nat \union {Missing}, tokens : Nat]

\* The null is none of the values it stands beside.
ASSUME NullsAssumption ==
    Missing \notin Int /\ Missing \notin SessionRows /\ Missing \notin Promises

VARIABLES
    user,           \* the row of ADMIN_USERS
    sessions,       \* PENDING_LOGINS: id -> row, or Missing
    codes,          \* BACKUP_CODES, one for each set of ten
    opened, tokens, codeSets, resets,  \* created so far
    calls,          \* requests in flight: slot -> statements to send
    overlaps,       \* requests that began while another was in flight
    given,          \* sign-ins by pending login, until requests overlap
    spent,          \* sign-ins by backup code, likewise
    promise,        \* of the last password reset that was answered, likewise
    faults

store == <<user, sessions, codes>>
counters == <<opened, tokens, codeSets, resets>>
ghosts == <<given, spent, promise>>
vars == <<store, counters, calls, overlaps, ghosts, faults>>

Idle == <<>>

Init ==
    /\ user = [password |-> FirstPassword, twoFactor |-> FALSE, otp |-> FALSE, refresh |-> Missing,
               resetHash |-> Missing, resetUsed |-> FALSE, resetLate |-> FALSE]
    /\ sessions = [s \in Sessions |-> Missing] /\ codes = {}
    /\ opened = 0 /\ tokens = 0 /\ codeSets = 0 /\ resets = 0
    /\ calls = [c \in Slots |-> Idle] /\ overlaps = 0
    /\ given = [s \in Sessions |-> 0] /\ spent = [k \in 1 .. MaxCodeSets |-> 0]
    /\ promise = Missing /\ faults = 0
-----------------------------------------------------------------------------
Do(what, arg) == [what |-> what, arg |-> arg]

\* Statements of this kind done or to be done, against the bound on them.
Room(what, done, bound) ==
    done + Cardinality({c \in Slots : \E i \in DOMAIN calls[c] : calls[c][i].what = what}) < bound

Begin(c, todo) ==
    /\ calls[c] = Idle
    /\ calls' = [calls EXCEPT ![c] = todo]
    /\ \/ (\A d \in Slots : calls[d] = Idle) /\ UNCHANGED overlaps
       \/ overlaps < MaxOverlaps /\ (\E d \in Slots : calls[d] # Idle) /\ overlaps' = overlaps + 1
    /\ UNCHANGED <<store, counters, faults>>

Active(s, type) == sessions[s] # Missing /\ ~sessions[s].used /\ sessions[s].type = type
InTime(s) == ~sessions[s].late
\* The guards of the routes for an admin who has signed in.
TwoFactorGuard == user.twoFactor /\ user.otp /\ tokens > 0
Promise(p) == promise' = p /\ UNCHANGED <<given, spent>>

\* Statements that end a sign-in; the pending login is used up before.
Tokens(s, k) == <<Do("giveTokens", <<s, k>>)>>

login(c, password) ==
    /\ Room("openSession", opened, MaxSessions)
    /\ password = user.password
    /\ LET type == IF user.twoFactor THEN "mfa" ELSE "setup"
       IN  Begin(c, <<Do("saveUser", user), Do("cleanup", Missing), Do("supersede", type),
                      Do("openSession", type)>>)
    /\ UNCHANGED ghosts

\* Mutant: the pending login is used up after the tokens are stored.
SignedIn_late(s) == Tokens(s, Missing) \o <<Do("markSession", s)>>

SignedIn(s) == <<Do("markSession", s)>> \o Tokens(s, Missing)

\* What the second factor shows: a good code signs in, a wrong one is counted.
completeMfaLogin(c, s, good) ==
    /\ Room("giveTokens", tokens, MaxTokens)
    /\ Active(s, "mfa") /\ InTime(s)
    /\ Begin(c, IF ~user.otp \/ ~user.twoFactor THEN <<Do("markSession", s)>>
                ELSE IF good THEN SignedIn(s) ELSE <<Do("saveSession", <<s, sessions[s]>>)>>)
    /\ UNCHANGED ghosts

start2faSetup(c, s) ==
    /\ Room("saveCodes", codeSets, MaxCodeSets)
    /\ Active(s, "setup")
    /\ Begin(c, IF InTime(s)
                THEN <<Do("saveSession", <<s, [sessions[s] EXCEPT !.secret = TRUE]>>),
                       Do("deleteCodes", Missing), Do("saveCodes", Missing)>>
                ELSE <<Do("markSession", s)>>)
    /\ UNCHANGED ghosts

\* Mutant: the secret and the switch are saved one after the other.
Enrolled_apart == <<Do("saveUser", [user EXCEPT !.twoFactor = TRUE]),
                    Do("saveUser", [user EXCEPT !.twoFactor = TRUE, !.otp = TRUE])>>

Enrolled == <<Do("saveUser", [user EXCEPT !.twoFactor = TRUE, !.otp = TRUE])>>

verify2faSetup(c, s, good) ==
    /\ Room("giveTokens", tokens, MaxTokens)
    /\ Active(s, "setup") /\ sessions[s].secret
    /\ Begin(c, IF ~InTime(s) THEN <<Do("markSession", s)>>
                ELSE IF good THEN Enrolled \o SignedIn(s)
                     ELSE <<Do("saveSession", <<s, sessions[s]>>)>>)
    /\ UNCHANGED ghosts

regenerateBackupCodes(c) ==
    /\ Room("saveCodes", codeSets, MaxCodeSets)
    /\ TwoFactorGuard
    /\ Begin(c, <<Do("deleteCodes", Missing), Do("saveCodes", Missing)>>)
    /\ UNCHANGED ghosts

\* k is the set the code is from; a code that is not there is wrong.
consumeBackupCode(c, s, k) ==
    /\ Room("giveTokens", tokens, MaxTokens)
    /\ Active(s, "mfa")
    /\ Begin(c, IF ~InTime(s) \/ ~user.twoFactor THEN <<Do("markSession", s)>>
                ELSE IF [set |-> k, used |-> FALSE] \in codes
                     THEN <<Do("markCode", k), Do("markSession", s)>> \o Tokens(s, k)
                     ELSE <<Do("saveSession", <<s, sessions[s]>>)>>)
    /\ UNCHANGED ghosts

\* Only the token stored last is accepted.
refreshToken(c) ==
    /\ Room("giveTokens", tokens, MaxTokens)
    /\ user.refresh # Missing
    /\ Begin(c, Tokens(Missing, Missing))
    /\ UNCHANGED ghosts

requestPasswordReset(c) ==
    /\ Room("setReset", resets, MaxResets)
    /\ Begin(c, <<Do("setReset", Missing)>>)
    /\ UNCHANGED ghosts

\* Mutant: tokens of before the reset stay good.
ResetSteps_keep(password) ==
    <<Do("saveUser", [user EXCEPT !.password = password]), Do("markReset", Missing),
      Do("answerReset", password)>>

ResetSteps(password) ==
    <<Do("saveUser", [user EXCEPT !.password = password]), Do("markReset", Missing),
      Do("clearRefresh", Missing), Do("answerReset", password)>>

resetPasswordWithToken(c, hash, password) ==
    /\ user.resetHash = hash /\ ~user.resetUsed /\ ~user.resetLate
    /\ Begin(c, ResetSteps(password))
    /\ Promise(Missing)

updateProfile(c, password) ==
    /\ TwoFactorGuard /\ password # user.password
    /\ Begin(c, <<Do("saveUser", [user EXCEPT !.password = password])>>)
    /\ Promise(Missing)
-----------------------------------------------------------------------------
Sends(c, what) ==
    /\ calls[c] # Idle /\ Head(calls[c]).what = what
    /\ calls' = [calls EXCEPT ![c] = Tail(@)]
    /\ UNCHANGED <<overlaps, faults>>
Arg(c) == Head(calls[c]).arg

\* save(user): the whole row, as it was read.
saveUser(c) ==
    /\ Sends(c, "saveUser")
    /\ user' = Arg(c)
    /\ UNCHANGED <<sessions, codes, counters, ghosts>>

\* Pending logins that are late, and those that are used, are deleted.
cleanupExpiredSessions(c) ==
    /\ Sends(c, "cleanup")
    /\ sessions' = [s \in Sessions |-> IF sessions[s] # Missing /\ (sessions[s].late \/ sessions[s].used)
                                       THEN Missing ELSE sessions[s]]
    /\ UNCHANGED <<user, codes, counters, ghosts>>

\* One active pending login of the type, if there is one, gives way.
supersede(c) ==
    /\ Sends(c, "supersede")
    /\ LET active == {s \in Sessions : Active(s, Arg(c))}
       IN  IF active = {} THEN UNCHANGED sessions
           ELSE \E s \in active : sessions' = [sessions EXCEPT ![s].used = TRUE]
    /\ UNCHANGED <<user, codes, counters, ghosts>>

openSession(c) ==
    /\ Sends(c, "openSession")
    /\ opened' = opened + 1
    /\ sessions' = [sessions EXCEPT ![opened + 1] =
                      [type |-> Arg(c), used |-> FALSE, late |-> FALSE, secret |-> FALSE]]
    /\ UNCHANGED <<user, codes, tokens, codeSets, resets, ghosts>>

\* A row that was deleted meanwhile is there again.
saveSession(c) ==
    /\ Sends(c, "saveSession")
    /\ sessions' = [sessions EXCEPT ![Arg(c)[1]] = Arg(c)[2]]
    /\ UNCHANGED <<user, codes, counters, ghosts>>

markSession(c) ==
    /\ Sends(c, "markSession")
    /\ sessions' = IF sessions[Arg(c)] = Missing THEN sessions ELSE [sessions EXCEPT ![Arg(c)].used = TRUE]
    /\ UNCHANGED <<user, codes, counters, ghosts>>

deleteCodes(c) ==
    /\ Sends(c, "deleteCodes")
    /\ codes' = {}
    /\ UNCHANGED <<user, sessions, counters, ghosts>>

saveCodes(c) ==
    /\ Sends(c, "saveCodes")
    /\ codeSets' = codeSets + 1
    /\ codes' = codes \union {[set |-> codeSets + 1, used |-> FALSE]}
    /\ UNCHANGED <<user, sessions, opened, tokens, resets, ghosts>>

markCode(c) ==
    /\ Sends(c, "markCode")
    /\ codes' = {IF k.set = Arg(c) THEN [k EXCEPT !.used = TRUE] ELSE k : k \in codes}
    /\ UNCHANGED <<user, sessions, counters, ghosts>>

generateTokens(c) ==
    /\ Sends(c, "giveTokens")
    /\ tokens' = tokens + 1
    /\ user' = [user EXCEPT !.refresh = tokens + 1]
    /\ given' = [s \in Sessions |-> IF s = Arg(c)[1] /\ overlaps = 0 THEN given[s] + 1 ELSE given[s]]
    /\ spent' = [k \in DOMAIN spent |-> IF k = Arg(c)[2] /\ overlaps = 0 THEN spent[k] + 1 ELSE spent[k]]
    /\ UNCHANGED <<sessions, codes, opened, codeSets, resets, promise>>

setPasswordResetToken(c) ==
    /\ Sends(c, "setReset")
    /\ resets' = resets + 1
    /\ user' = [user EXCEPT !.resetHash = resets + 1, !.resetUsed = FALSE, !.resetLate = FALSE]
    /\ UNCHANGED <<sessions, codes, opened, tokens, codeSets, ghosts>>

markPasswordResetUsed(c) ==
    /\ Sends(c, "markReset")
    /\ user' = [user EXCEPT !.resetUsed = TRUE]
    /\ UNCHANGED <<sessions, codes, counters, ghosts>>

clearRefreshToken(c) ==
    /\ Sends(c, "clearRefresh")
    /\ user' = [user EXCEPT !.refresh = Missing]
    /\ UNCHANGED <<sessions, codes, counters, ghosts>>

\* The admin is told that the password is the new one.
answerReset(c) ==
    /\ Sends(c, "answerReset")
    /\ IF overlaps > 0 THEN UNCHANGED ghosts
       ELSE Promise([password |-> Arg(c), hash |-> user.resetHash, tokens |-> tokens])
    /\ UNCHANGED <<store, counters>>

Statement(c) ==
    \/ saveUser(c) \/ cleanupExpiredSessions(c) \/ supersede(c) \/ openSession(c)
    \/ saveSession(c) \/ markSession(c) \/ deleteCodes(c) \/ saveCodes(c) \/ markCode(c)
    \/ generateTokens(c) \/ setPasswordResetToken(c) \/ markPasswordResetUsed(c)
    \/ clearRefreshToken(c) \/ answerReset(c)

\* The process dies with every request in flight.
dies ==
    /\ faults < MaxFaults /\ \E c \in Slots : calls[c] # Idle
    /\ faults' = faults + 1
    /\ calls' = [c \in Slots |-> Idle]
    /\ UNCHANGED <<store, counters, overlaps, ghosts>>

\* Ten minutes pass for a pending login, an hour for a reset link.
timePasses ==
    /\ \/ \E s \in Sessions : /\ sessions[s] # Missing /\ ~sessions[s].late /\ ~sessions[s].used
                              /\ sessions' = [sessions EXCEPT ![s].late = TRUE]
                              /\ UNCHANGED user
       \/ /\ user.resetHash # Missing /\ ~user.resetUsed /\ ~user.resetLate
          /\ user' = [user EXCEPT !.resetLate = TRUE]
          /\ UNCHANGED sessions
    /\ UNCHANGED <<codes, counters, calls, overlaps, ghosts, faults>>
-----------------------------------------------------------------------------
Request(c) ==
    \/ \E p \in Passwords : login(c, p) \/ updateProfile(c, p)
    \/ \E s \in Sessions, good \in BOOLEAN : completeMfaLogin(c, s, good) \/ verify2faSetup(c, s, good)
    \/ \E s \in Sessions : start2faSetup(c, s) \/ \E k \in 1 .. codeSets : consumeBackupCode(c, s, k)
    \/ regenerateBackupCodes(c) \/ refreshToken(c) \/ requestPasswordReset(c)
    \/ \E h \in 1 .. resets, p \in Passwords : resetPasswordWithToken(c, h, p)

Next == (\E c \in Slots : Request(c) \/ Statement(c)) \/ dies \/ timePasses

Spec == Init /\ [][Next]_vars
-----------------------------------------------------------------------------
\* The second factor is never switched on without its secret nor off with one,
\* however requests overlap, write back what they read, or die
\* (verify2faSetup): the account could not be signed in to.
NeverHalfEnrolled == user.twoFactor = user.otp

\* Requests that come one after the other, some of which died half-way: a
\* pending login signs in at most once, a backup code too, and of each type at
\* most one pending login is active (createPendingSession, completeMfaLogin,
\* verify2faSetup, consumeBackupCode).
SignsInOnce ==
    overlaps = 0 =>
        /\ \A s \in Sessions : given[s] <= 1
        /\ \A k \in DOMAIN spent : spent[k] <= 1
        /\ \A type \in {"mfa", "setup"} : Cardinality({s \in Sessions : Active(s, type)}) <= 1

\* Requests that come one after the other: once a reset was answered, and until
\* the password is changed again, the password is the new one, the link does
\* not work any more and no token of before it refreshes
\* (resetPasswordWithToken).
ResetSticks ==
    overlaps = 0 /\ promise # Missing =>
        /\ user.password = promise.password
        /\ user.resetHash # promise.hash \/ user.resetUsed
        /\ user.refresh = Missing \/ user.refresh > promise.tokens
=============================================================================
