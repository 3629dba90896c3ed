---------------------------- MODULE Access_proofs ----------------------------
(***************************************************************************)
(* For any number of requests, passwords, sessions, tokens and resets: the *)
(* second factor is never half enrolled, however requests overlap, and     *)
(* while they do not overlap a pending login and a backup code sign in at  *)
(* most once and a password reset is final.                                *)
(*                                                                         *)
(* The first is a matter of what the statements still to be sent carry     *)
(* (Whole rows).  The others need to know how a request that is half done  *)
(* stands to the tables (Entitled): what it is about to grant has been     *)
(* used up, or one of its own statements before that one uses it up.       *)
(***************************************************************************)
EXTENDS Access, FiniteSetTheorems, SequenceTheorems, TLAPS

LoginTypes == {"mfa", "setup"}

\* The second factor and its secret go together.
WholeRows == {u \in UserRows : u.twoFactor = u.otp}

Statements ==
    [what : {"saveUser"}, arg : WholeRows]
    \union [what : {"cleanup", "deleteCodes", "saveCodes", "setReset", "markReset", "clearRefresh"},
            arg : {Missing}]
    \union [what : {"supersede", "openSession"}, arg : LoginTypes]
    \union [what : {"saveSession"}, arg : Sessions \X SessionRows]
    \union [what : {"markSession"}, arg : Sessions]
    \union [what : {"markCode"}, arg : Nat]
    \union [what : {"giveTokens"}, arg : (Sessions \union {Missing}) \X (Nat \union {Missing})]
    \union [what : {"answerReset"}, arg : Passwords]

TypeOK ==
    /\ user \in WholeRows
    /\ sessions \in [Sessions -> SessionRows \union {Missing}]
    /\ codes \in SUBSET [set : Nat, used : BOOLEAN]
    /\ opened \in Nat /\ tokens \in Nat /\ codeSets \in Nat /\ resets \in Nat
    /\ calls \in [Slots -> Seq(Statements)]
    /\ overlaps \in Nat /\ faults \in Nat
    /\ given \in [Sessions -> Nat] /\ spent \in [1 .. MaxCodeSets -> Nat]
    /\ promise \in Promises \union {Missing}

\* A pending login, a backup code, a reset link that can no longer be used.
LoginUsed(s) == s <= opened /\ (sessions[s] = Missing \/ sessions[s].used)
CodeUsed(k) == k <= codeSets /\ [set |-> k, used |-> FALSE] \notin codes

\* What a row that will be saved takes over from the one there is.
AsRead(u) ==
    /\ u.refresh = user.refresh /\ u.resetHash = user.resetHash /\ u.resetUsed = user.resetUsed
    /\ promise # Missing => u.password = user.password

\* One of the first i - 1 statements is this one.
Before(todo, i, what, arg) == \E j \in 1 .. i - 1 : todo[j] = Do(what, arg)

\* Rows that were read are saved first, and what is granted comes last.
Ordered(todo, i) ==
    /\ todo[i].what \in {"saveUser", "saveSession"} => i = 1
    /\ todo[i].what \in {"openSession", "giveTokens", "setReset", "answerReset"} => i = Len(todo)

UserAsRead(todo, i) == todo[i].what = "saveUser" => AsRead(todo[i].arg)

SessionAsRead(todo, i) ==
    todo[i].what = "saveSession" =>
        /\ Active(todo[i].arg[1], todo[i].arg[2].type) /\ ~todo[i].arg[2].used
        /\ todo[i].arg[1] <= opened

LoginSpent(todo, i) ==
    \A s \in Sessions : todo[i].what = "giveTokens" /\ todo[i].arg[1] = s =>
        /\ given[s] = 0 /\ s <= opened
        /\ LoginUsed(s) \/ Before(todo, i, "markSession", s)

CodeSpent(todo, i) ==
    \A k \in DOMAIN spent : todo[i].what = "giveTokens" /\ todo[i].arg[2] = k =>
        /\ spent[k] = 0 /\ k <= codeSets
        /\ CodeUsed(k) \/ Before(todo, i, "markCode", k)

NoneActive(type) == \A s \in Sessions : ~Active(s, type)

AlonePending(todo, i) ==
    todo[i].what = "openSession" =>
        NoneActive(todo[i].arg) \/ Before(todo, i, "supersede", todo[i].arg)

ResetDone(todo, i) ==
    todo[i].what = "answerReset" =>
        /\ todo[1].what = "saveUser" => todo[1].arg.password = todo[i].arg
        /\ todo[1].what = "saveUser" \/ user.password = todo[i].arg
        /\ user.resetUsed \/ Before(todo, i, "markReset", Missing)
        /\ user.refresh = Missing \/ Before(todo, i, "clearRefresh", Missing)

EntitledAt(todo, i) ==
    /\ Ordered(todo, i) /\ UserAsRead(todo, i) /\ SessionAsRead(todo, i)
    /\ LoginSpent(todo, i) /\ CodeSpent(todo, i) /\ AlonePending(todo, i)
    /\ ResetDone(todo, i)

Entitled(todo) == \A i \in DOMAIN todo : EntitledAt(todo, i)

Alone == \A c, d \in Slots : calls[c] # Idle /\ calls[d] # Idle => c = d

LoginsOnce == \A s \in Sessions : given[s] <= 1 /\ (given[s] = 1 => LoginUsed(s))
CodesOnce ==
    /\ \A k \in DOMAIN spent : spent[k] <= 1 /\ (spent[k] = 1 => CodeUsed(k))
    /\ \A k \in codes : k.set <= codeSets
OneActive ==
    /\ \A type \in LoginTypes : \A s, t \in Sessions : Active(s, type) /\ Active(t, type) => s = t
    /\ \A s \in Sessions : s > opened => sessions[s] = Missing
ResetKept ==
    /\ user.resetHash # Missing => user.resetHash <= resets
    /\ promise # Missing =>
         /\ promise.hash # Missing => promise.hash <= resets
         /\ promise.tokens <= tokens
         /\ user.password = promise.password
         /\ user.resetHash # promise.hash \/ user.resetUsed
         /\ user.refresh = Missing \/ user.refresh > promise.tokens

Undisturbed ==
    /\ Alone /\ \A c \in Slots : Entitled(calls[c])
    /\ LoginsOnce /\ CodesOnce /\ OneActive /\ ResetKept

Inv == TypeOK /\ (overlaps = 0 => Undisturbed)
-----------------------------------------------------------------------------
(* Sequences of statements.                                                *)
LEMMA Rest ==
    ASSUME NEW S, NEW s \in Seq(S), s # <<>>
    PROVE  /\ Head(s) = s[1] /\ Head(s) \in S /\ Tail(s) \in Seq(S)
           /\ Len(s) \in Nat \ {0} /\ Len(Tail(s)) = Len(s) - 1
           /\ DOMAIN Tail(s) = 1 .. Len(s) - 1 /\ DOMAIN s = 1 .. Len(s)
           /\ \A i \in 1 .. Len(s) - 1 : i + 1 \in DOMAIN s /\ Tail(s)[i] = s[i + 1]
OBVIOUS

LEMMA JoinOne ==
    ASSUME NEW a, NEW b, NEW c
    PROVE  <<a>> \o <<b>> = <<a, b>> /\ <<a>> \o <<b, c>> = <<a, b, c>>
              /\ <<a, b>> \o <<c>> = <<a, b, c>>
<1> DEFINE S == {a, b, c}
<1>1. /\ <<a>> \in Seq(S) /\ <<b>> \in Seq(S) /\ <<c>> \in Seq(S) /\ <<a, b>> \in Seq(S)
      /\ <<b, c>> \in Seq(S) /\ <<a, b, c>> \in Seq(S)
    OBVIOUS
<1>2. <<a>> \o <<b>> = <<a, b>>
  <2>1. /\ <<a>> \o <<b>> \in Seq(S) /\ Len(<<a>> \o <<b>>) = 2
        /\ \A i \in 1 .. 2 : (<<a>> \o <<b>>)[i] = <<a, b>>[i]
      BY <1>1
  <2> QED
      BY <2>1, <1>1, SeqEqual
<1>3. <<a>> \o <<b, c>> = <<a, b, c>>
  <2>1. /\ <<a>> \o <<b, c>> \in Seq(S) /\ Len(<<a>> \o <<b, c>>) = 3
        /\ \A i \in 1 .. 3 : (<<a>> \o <<b, c>>)[i] = <<a, b, c>>[i]
      BY <1>1
  <2> QED
      BY <2>1, <1>1, SeqEqual
<1>4. <<a, b>> \o <<c>> = <<a, b, c>>
  <2>1. /\ <<a, b>> \o <<c>> \in Seq(S) /\ Len(<<a, b>> \o <<c>>) = 3
        /\ \A i \in 1 .. 3 : (<<a, b>> \o <<c>>)[i] = <<a, b, c>>[i]
      BY <1>1
  <2> QED
      BY <2>1, <1>1, SeqEqual
<1> QED
    BY <1>2, <1>3, <1>4

LEMMA StatementKinds ==
    /\ \A u \in WholeRows : Do("saveUser", u) \in Statements
    /\ \A s \in Sessions : Do("markSession", s) \in Statements
    /\ \A k \in Nat : Do("markCode", k) \in Statements
    /\ \A s \in Sessions \union {Missing}, k \in Nat \union {Missing} : Do("giveTokens", <<s, k>>) \in Statements
    /\ \A p \in Passwords : Do("answerReset", p) \in Statements
    /\ \A what \in {"cleanup", "deleteCodes", "saveCodes", "setReset", "markReset", "clearRefresh"} :
          Do(what, Missing) \in Statements
<1>1. \A u \in WholeRows : Do("saveUser", u) \in Statements
    BY DEF Do, Statements
<1>2. \A s \in Sessions : Do("markSession", s) \in Statements
    BY DEF Do, Statements
<1>3. \A k \in Nat : Do("markCode", k) \in Statements
    BY DEF Do, Statements
<1>4. \A s \in Sessions \union {Missing}, k \in Nat \union {Missing} : Do("giveTokens", <<s, k>>) \in Statements
    BY DEF Do, Statements
<1>5. \A p \in Passwords : Do("answerReset", p) \in Statements
    BY DEF Do, Statements
<1>6. \A what \in {"cleanup", "deleteCodes", "saveCodes", "setReset", "markReset", "clearRefresh"} :
         Do(what, Missing) \in Statements
    BY DEF Do, Statements
<1> QED
    BY <1>1, <1>2, <1>3, <1>4, <1>5, <1>6

\* What came before a statement still does, unless it has just been executed.
LEMMA BeforeInRest ==
    ASSUME NEW todo \in Seq(Statements), todo # <<>>, NEW i \in 1 .. Len(todo) - 1,
           NEW what, NEW arg, Before(todo, i + 1, what, arg)
    PROVE  Before(Tail(todo), i, what, arg) \/ Head(todo) = Do(what, arg)
<1>1. PICK j \in 1 .. i : todo[j] = Do(what, arg)
    BY Rest DEF Before
<1>2. CASE j = 1
    BY <1>1, <1>2, Rest
<1>3. CASE j # 1
  <2>1. j - 1 \in 1 .. i - 1 /\ Tail(todo)[j - 1] = todo[j]
      BY <1>3, Rest
  <2> QED
      BY <2>1, <1>1 DEF Before
<1> QED
    BY <1>2, <1>3

-----------------------------------------------------------------------------
LEMMA InitInv == Init => Inv
<1> SUFFICES ASSUME Init PROVE Inv
    OBVIOUS
<1>1. TypeOK
  <2>1. user \in UserRows /\ user.twoFactor = user.otp
      BY AccessAssumption DEF Init, UserRows
  <2>2. calls \in [Slots -> Seq(Statements)]
      BY DEF Init, Idle
  <2> QED
      BY <2>1, <2>2, AccessAssumption DEF Init, TypeOK, WholeRows
<1>2. Undisturbed
    BY <1>1, NullsAssumption
    DEF Init, TypeOK, Undisturbed, Alone, Entitled, LoginsOnce, CodesOnce, OneActive, ResetKept, Idle,
        LoginUsed, Active
<1> QED
    BY <1>1, <1>2 DEF Inv

\* A request begins with statements it is entitled to.
LEMMA BeginKeeps ==
    ASSUME Inv, NEW c \in Slots, NEW todo \in Seq(Statements), Begin(c, todo),
           given' = given, spent' = spent, promise' \in {promise, Missing},
           overlaps' = 0 => Entitled(todo)'
    PROVE  Inv'
<1>1. TypeOK'
    BY DEF Inv, TypeOK, Begin, store, counters
<1>2. ASSUME overlaps' = 0 PROVE Undisturbed'
  <2>1. overlaps = 0 /\ \A d \in Slots : calls[d] = Idle
      BY <1>2 DEF Begin, Inv, TypeOK
  <2>2. \A d \in Slots : calls'[d] = IF d = c THEN todo ELSE Idle
      BY <2>1 DEF Begin, Inv, TypeOK
  <2>3. Alone' /\ \A d \in Slots : Entitled(calls[d])'
      BY <2>2, <1>2 DEF Alone, Idle, Entitled
  <2>4. LoginsOnce' /\ CodesOnce' /\ OneActive' /\ ResetKept'
      BY <2>1 DEF Inv, Undisturbed, LoginsOnce, CodesOnce, OneActive, ResetKept, Begin, store, counters,
                  LoginUsed, CodeUsed, Active
  <2> QED
      BY <2>3, <2>4 DEF Undisturbed
<1> QED
    BY <1>1, <1>2 DEF Inv

-----------------------------------------------------------------------------
(* What a request is entitled to when it begins.                           *)

LEMMA QuietBefore ==
    ASSUME Inv, NEW c \in Slots, NEW todo, Begin(c, todo), overlaps' = 0
    PROVE  overlaps = 0 /\ Undisturbed
BY DEF Begin, Inv, TypeOK

LEMMA ActiveIsNew ==
    ASSUME Inv, overlaps = 0, NEW s \in Sessions, NEW type \in LoginTypes, Active(s, type)
    PROVE  given[s] = 0 /\ s <= opened
BY DEF Inv, TypeOK, Undisturbed, LoginsOnce, OneActive, LoginUsed, Active, Sessions

\* Requests whose statements grant nothing and save no row.
Harmless == {"cleanup", "supersede", "markSession", "deleteCodes", "saveCodes", "markReset",
             "clearRefresh", "setReset"}

LEMMA HarmlessIsEntitled ==
    ASSUME NEW todo \in Seq(Statements), \A i \in DOMAIN todo : todo[i].what \in Harmless,
           \A i \in DOMAIN todo : todo[i].what = "setReset" => i = Len(todo)
    PROVE  Entitled(todo)'
<1> SUFFICES ASSUME NEW i \in DOMAIN todo PROVE EntitledAt(todo, i)'
    BY DEF Entitled
<1>1. todo[i].what \in Harmless /\ (todo[i].what = "setReset" => i = Len(todo))
    OBVIOUS
<1>2. Ordered(todo, i)' /\ UserAsRead(todo, i)' /\ SessionAsRead(todo, i)'
    BY <1>1 DEF Harmless, Ordered, UserAsRead, SessionAsRead
<1>3. LoginSpent(todo, i)' /\ CodeSpent(todo, i)'
    BY <1>1 DEF Harmless, LoginSpent, CodeSpent
<1>4. AlonePending(todo, i)' /\ ResetDone(todo, i)'
    BY <1>1 DEF Harmless, AlonePending, ResetDone
<1> QED
    BY <1>2, <1>3, <1>4 DEF EntitledAt

\* A pending login is closed, by a request that comes too late.
LEMMA OnlyMark ==
    ASSUME Inv, NEW c \in Slots, NEW s \in Sessions, Begin(c, <<Do("markSession", s)>>),
           UNCHANGED ghosts
    PROVE  Inv'
<1>1. PICK todo : todo = <<Do("markSession", s)>>
    OBVIOUS
<1>2. todo \in Seq(Statements)
    BY <1>1 DEF Do, Statements
<1>3. DOMAIN todo = {1} /\ todo[1].what = "markSession"
    BY <1>1 DEF Do
<1>4. Entitled(todo)'
    BY <1>2, <1>3, HarmlessIsEntitled DEF Harmless
<1> QED
    BY <1>1, <1>2, <1>4, BeginKeeps DEF ghosts

\* A pending login is saved as it was read, but for the number of attempts and
\* the secret; new codes may come after it.
LEMMA OnlySaveSession ==
    ASSUME Inv, NEW c \in Slots, NEW s \in Sessions, NEW row \in SessionRows, NEW type \in LoginTypes,
           Active(s, type), row.type = type, ~row.used,
           NEW todo, Begin(c, todo), UNCHANGED ghosts,
           \/ todo = <<Do("saveSession", <<s, row>>)>>
           \/ todo = <<Do("saveSession", <<s, row>>), Do("deleteCodes", Missing), Do("saveCodes", Missing)>>
    PROVE  Inv'
<1>1. todo \in Seq(Statements)
  <2>1. Do("saveSession", <<s, row>>) \in Statements
      BY DEF Do, Statements
  <2>2. Do("deleteCodes", Missing) \in Statements /\ Do("saveCodes", Missing) \in Statements
      BY DEF Do, Statements
  <2>3. CASE todo = <<Do("saveSession", <<s, row>>)>>
      BY <2>1, <2>3
  <2>4. CASE todo = <<Do("saveSession", <<s, row>>), Do("deleteCodes", Missing), Do("saveCodes", Missing)>>
      BY <2>1, <2>2, <2>4
  <2> QED
      BY <2>3, <2>4
<1>2. ASSUME overlaps' = 0 PROVE Entitled(todo)'
  <2>1. s <= opened
      BY <1>2, QuietBefore, ActiveIsNew
  <2>2. sessions' = sessions /\ opened' = opened
      BY DEF Begin, store, counters
  <2> SUFFICES ASSUME NEW i \in DOMAIN todo PROVE EntitledAt(todo, i)'
      BY DEF Entitled
  <2>3. \/ i = 1 /\ todo[i] = Do("saveSession", <<s, row>>)
        \/ todo[i].what \in {"deleteCodes", "saveCodes"}
      BY DEF Do
  <2>4. SessionAsRead(todo, i)'
      BY <2>1, <2>2, <2>3 DEF Do, SessionAsRead, Active
  <2>5. /\ Ordered(todo, i)' /\ UserAsRead(todo, i)' /\ LoginSpent(todo, i)' /\ CodeSpent(todo, i)'
        /\ AlonePending(todo, i)' /\ ResetDone(todo, i)'
      BY <2>3 DEF Do, Ordered, UserAsRead, LoginSpent, CodeSpent, AlonePending, ResetDone
  <2> QED
      BY <2>4, <2>5 DEF EntitledAt
<1> QED
    BY <1>1, <1>2, BeginKeeps DEF ghosts

LEMMA LoginBegins ==
    ASSUME Inv, NEW c \in Slots, NEW p \in Passwords, login(c, p)
    PROVE  Inv'
<1>1. PICK type, todo :
         /\ type \in LoginTypes
         /\ todo = <<Do("saveUser", user), Do("cleanup", Missing), Do("supersede", type),
                     Do("openSession", type)>>
         /\ Begin(c, todo)
    BY DEF login, LoginTypes
<1>2. todo \in Seq(Statements)
  <2>1. user \in WholeRows
      BY DEF Inv, TypeOK
  <2> QED
      BY <1>1, <2>1 DEF Do, Statements
<1>3. Entitled(todo)'
  <2>1. user' = user /\ promise' = promise
      BY <1>1 DEF Begin, store, ghosts, login
  <2>2. DOMAIN todo = 1 .. 4 /\ Len(todo) = 4
      BY <1>1
  <2> SUFFICES ASSUME NEW i \in 1 .. 4 PROVE EntitledAt(todo, i)'
      BY <2>2 DEF Entitled
  <2>3. Ordered(todo, i)' /\ UserAsRead(todo, i)' /\ SessionAsRead(todo, i)'
      BY <1>1, <2>1, <2>2 DEF Do, Ordered, UserAsRead, SessionAsRead, AsRead
  <2>4. LoginSpent(todo, i)' /\ CodeSpent(todo, i)' /\ ResetDone(todo, i)'
      BY <1>1, <2>1, <2>2 DEF Do, LoginSpent, CodeSpent, ResetDone
  <2>5. AlonePending(todo, i)'
      BY <1>1, <2>2 DEF Do, AlonePending, Before
  <2> QED
      BY <2>3, <2>4, <2>5 DEF EntitledAt
<1> QED
    BY <1>1, <1>2, <1>3, BeginKeeps DEF ghosts, login

LEMMA CompleteMfaLoginBegins ==
    ASSUME Inv, NEW c \in Slots, NEW s \in Sessions, NEW good \in BOOLEAN, completeMfaLogin(c, s, good)
    PROVE  Inv'
<1>1. CASE Begin(c, <<Do("markSession", s)>>)
    BY <1>1, OnlyMark DEF completeMfaLogin
<1>2. CASE Begin(c, <<Do("saveSession", <<s, sessions[s]>>)>>)
  <2>1. PICK row : row = sessions[s] /\ row \in SessionRows /\ row.type = "mfa" /\ ~row.used
      BY DEF completeMfaLogin, Active, Inv, TypeOK
  <2> QED
      BY <2>1, <1>2, OnlySaveSession DEF completeMfaLogin, LoginTypes
<1>3. CASE Begin(c, <<Do("markSession", s), Do("giveTokens", <<s, Missing>>)>>)
  <2>1. PICK todo : todo = <<Do("markSession", s), Do("giveTokens", <<s, Missing>>)>>
      OBVIOUS
  <2>2. todo \in Seq(Statements)
      BY <2>1 DEF Do, Statements
  <2>3. ASSUME overlaps' = 0 PROVE Entitled(todo)'
    <3>1. given[s] = 0 /\ s <= opened
        BY <2>3, <1>3, QuietBefore, ActiveIsNew DEF completeMfaLogin, LoginTypes
    <3>2. given' = given /\ opened' = opened /\ DOMAIN todo = 1 .. 2 /\ Len(todo) = 2
        BY <1>3, <2>1 DEF completeMfaLogin, ghosts, Begin, counters
    <3> SUFFICES ASSUME NEW i \in 1 .. 2 PROVE EntitledAt(todo, i)'
        BY <3>2 DEF Entitled
    <3>3. LoginSpent(todo, i)'
        BY <2>1, <3>1, <3>2 DEF Do, LoginSpent, Before
    <3>4. CodeSpent(todo, i)'
      <4>1. spent' = spent /\ \A k \in DOMAIN spent : k \in Int
          BY AccessAssumption DEF completeMfaLogin, ghosts, Inv, TypeOK
      <4> QED
          BY <2>1, <4>1, NullsAssumption DEF Do, CodeSpent
    <3>5. /\ Ordered(todo, i)' /\ UserAsRead(todo, i)' /\ SessionAsRead(todo, i)'
          /\ AlonePending(todo, i)' /\ ResetDone(todo, i)'
        BY <2>1, <3>2 DEF Do, Ordered, UserAsRead, SessionAsRead, AlonePending, ResetDone
    <3> QED
        BY <3>3, <3>4, <3>5 DEF EntitledAt
  <2> QED
      BY <1>3, <2>1, <2>2, <2>3, BeginKeeps DEF completeMfaLogin, ghosts
<1> QED
    BY <1>1, <1>2, <1>3, JoinOne DEF completeMfaLogin, SignedIn, Tokens

LEMMA RowWithSecret ==
    ASSUME NEW r \in SessionRows
    PROVE  LET row == [r EXCEPT !.secret = TRUE]
           IN  row \in SessionRows /\ row.type = r.type /\ row.used = r.used
BY DEF SessionRows

LEMMA EnrolledIsWhole ==
    ASSUME Inv
    PROVE  LET u == [user EXCEPT !.twoFactor = TRUE, !.otp = TRUE]
           IN  u \in WholeRows /\ AsRead(u)
BY DEF Inv, TypeOK, WholeRows, UserRows, AsRead

LEMMA Start2faSetupBegins ==
    ASSUME Inv, NEW c \in Slots, NEW s \in Sessions, start2faSetup(c, s)
    PROVE  Inv'
<1>1. CASE ~InTime(s)
    BY <1>1, OnlyMark DEF start2faSetup
<1>2. CASE InTime(s)
  <2>1. PICK row : /\ row = [sessions[s] EXCEPT !.secret = TRUE] /\ row \in SessionRows
                   /\ row.type = "setup" /\ ~row.used
    <3>1. sessions[s] \in SessionRows /\ sessions[s].type = "setup" /\ ~sessions[s].used
        BY DEF start2faSetup, Active, Inv, TypeOK
    <3>2. /\ [sessions[s] EXCEPT !.secret = TRUE] \in SessionRows
          /\ [sessions[s] EXCEPT !.secret = TRUE].type = sessions[s].type
          /\ [sessions[s] EXCEPT !.secret = TRUE].used = sessions[s].used
        BY <3>1, RowWithSecret
    <3> QED
        BY <3>1, <3>2
  <2> QED
      BY <2>1, <1>2, OnlySaveSession DEF start2faSetup, LoginTypes
<1> QED
    BY <1>1, <1>2

\* A second factor is shown and the tokens follow, after a backup code was
\* marked or the enrolment saved, if that is how it is shown.
LEMMA SignInBegins ==
    ASSUME Inv, NEW c \in Slots, NEW s \in Sessions, NEW type \in LoginTypes, Active(s, type),
           NEW k \in Nat \union {Missing}, NEW first \in Statements,
           NEW todo, Begin(c, todo), UNCHANGED ghosts,
           todo = <<first, Do("markSession", s), Do("giveTokens", <<s, k>>)>>,
           \/ first.what = "saveUser" /\ AsRead(first.arg) /\ k = Missing
           \/ k # Missing /\ first = Do("markCode", k) /\ [set |-> k, used |-> FALSE] \in codes
    PROVE  Inv'
<1>1. todo \in Seq(Statements)
    BY DEF Do, Statements
<1>2. ASSUME overlaps' = 0 PROVE Entitled(todo)'
  <2>1. given[s] = 0 /\ s <= opened
      BY <1>2, QuietBefore, ActiveIsNew
  <2>2. /\ given' = given /\ opened' = opened /\ spent' = spent /\ codeSets' = codeSets
        /\ DOMAIN todo = 1 .. 3 /\ Len(todo) = 3 /\ user' = user /\ promise' = promise
      BY DEF Begin, store, counters, ghosts
  <2> SUFFICES ASSUME NEW i \in 1 .. 3 PROVE EntitledAt(todo, i)'
      BY <2>2 DEF Entitled
  <2>3. first.what \in {"saveUser", "markCode"}
      BY DEF Do
  <2>4. LoginSpent(todo, i)'
      BY <2>1, <2>2, <2>3 DEF Do, LoginSpent, Before
  <2>5. CodeSpent(todo, i)'
    <3>1. \A m \in DOMAIN spent : m \in Int
        BY AccessAssumption DEF Inv, TypeOK
    <3>2. k \in DOMAIN spent => spent[k] = 0 /\ k <= codeSets /\ todo[1] = Do("markCode", k)
      <4>1. CASE k = Missing
          BY <3>1, <4>1, NullsAssumption
      <4>2. CASE k # Missing /\ k \in DOMAIN spent
        <5>1. CodesOnce
            BY <1>2, QuietBefore DEF Undisturbed
        <5>2. spent[k] \in Nat
            BY <4>2 DEF Inv, TypeOK
        <5>3. k <= codeSets
            BY <4>2, <5>1 DEF CodesOnce
        <5> QED
            BY <4>2, <5>1, <5>2, <5>3 DEF CodesOnce, CodeUsed
      <4> QED
          BY <4>1, <4>2
    <3> QED
        BY <2>2, <2>3, <3>2 DEF Do, CodeSpent, Before
  <2>6. Ordered(todo, i)' /\ UserAsRead(todo, i)' /\ SessionAsRead(todo, i)'
      BY <2>2, <2>3 DEF Do, Ordered, UserAsRead, SessionAsRead, AsRead
  <2>7. AlonePending(todo, i)' /\ ResetDone(todo, i)'
      BY <2>2, <2>3 DEF Do, AlonePending, ResetDone
  <2> QED
      BY <2>4, <2>5, <2>6, <2>7 DEF EntitledAt
<1> QED
    BY <1>1, <1>2, BeginKeeps DEF ghosts

LEMMA Verify2faSetupBegins ==
    ASSUME Inv, NEW c \in Slots, NEW s \in Sessions, NEW good \in BOOLEAN, verify2faSetup(c, s, good)
    PROVE  Inv'
<1>1. CASE Begin(c, <<Do("markSession", s)>>)
    BY <1>1, OnlyMark DEF verify2faSetup
<1>2. CASE Begin(c, <<Do("saveSession", <<s, sessions[s]>>)>>)
  <2>1. PICK row : row = sessions[s] /\ row \in SessionRows /\ row.type = "setup" /\ ~row.used
      BY DEF verify2faSetup, Active, Inv, TypeOK
  <2> QED
      BY <2>1, <1>2, OnlySaveSession DEF verify2faSetup, LoginTypes
<1>3. CASE Begin(c, Enrolled \o SignedIn(s))
  <2>1. PICK u : u = [user EXCEPT !.twoFactor = TRUE, !.otp = TRUE] /\ u \in WholeRows /\ AsRead(u)
      BY EnrolledIsWhole
  <2>2. PICK first : first = Do("saveUser", u) /\ first \in Statements
      BY <2>1, StatementKinds
  <2>3. Begin(c, <<first, Do("markSession", s), Do("giveTokens", <<s, Missing>>)>>)
    <3>1. Enrolled = <<first>>
        BY <2>1, <2>2 DEF Enrolled
    <3>2. PICK mark, give : mark = Do("markSession", s) /\ give = Do("giveTokens", <<s, Missing>>)
        OBVIOUS
    <3>3. SignedIn(s) = <<mark>> \o <<give>>
        BY <3>2 DEF SignedIn, Tokens
    <3>4. <<mark>> \o <<give>> = <<mark, give>> /\ <<first>> \o <<mark, give>> = <<first, mark, give>>
        BY JoinOne
    <3>5. Enrolled \o SignedIn(s) = <<first, mark, give>>
        BY <3>1, <3>3, <3>4
    <3> QED
        BY <1>3, <3>2, <3>5
  <2>4. first.what = "saveUser" /\ AsRead(first.arg)
      BY <2>1, <2>2 DEF Do
  <2> QED
      BY <2>2, <2>3, <2>4, SignInBegins DEF verify2faSetup, LoginTypes
<1> QED
    BY <1>1, <1>2, <1>3 DEF verify2faSetup

LEMMA ConsumeBackupCodeBegins ==
    ASSUME Inv, NEW c \in Slots, NEW s \in Sessions, NEW k \in 1 .. codeSets, consumeBackupCode(c, s, k)
    PROVE  Inv'
<1>1. CASE Begin(c, <<Do("markSession", s)>>)
    BY <1>1, OnlyMark DEF consumeBackupCode
<1>2. CASE Begin(c, <<Do("saveSession", <<s, sessions[s]>>)>>)
  <2>1. PICK row : row = sessions[s] /\ row \in SessionRows /\ row.type = "mfa" /\ ~row.used
      BY DEF consumeBackupCode, Active, Inv, TypeOK
  <2> QED
      BY <2>1, <1>2, OnlySaveSession DEF consumeBackupCode, LoginTypes
<1>3. CASE /\ [set |-> k, used |-> FALSE] \in codes
           /\ Begin(c, <<Do("markCode", k), Do("markSession", s)>> \o Tokens(s, k))
  <2>1. k \in Nat /\ k # Missing
      BY NullsAssumption DEF Inv, TypeOK
  <2>2. PICK first : first = Do("markCode", k) /\ first \in Statements
      BY <2>1, StatementKinds
  <2>3. Begin(c, <<first, Do("markSession", s), Do("giveTokens", <<s, k>>)>>)
      BY <1>3, <2>2, JoinOne DEF Tokens
  <2> QED
      BY <1>3, <2>1, <2>2, <2>3, SignInBegins DEF consumeBackupCode, LoginTypes
<1> QED
    BY <1>1, <1>2, <1>3 DEF consumeBackupCode

LEMMA RegenerateBackupCodesBegins ==
    ASSUME Inv, NEW c \in Slots, regenerateBackupCodes(c)
    PROVE  Inv'
<1>1. PICK todo : todo = <<Do("deleteCodes", Missing), Do("saveCodes", Missing)>>
    OBVIOUS
<1>2. todo \in Seq(Statements)
    BY <1>1 DEF Do, Statements
<1>3. DOMAIN todo = 1 .. 2 /\ \A i \in 1 .. 2 : todo[i].what \in {"deleteCodes", "saveCodes"}
    BY <1>1 DEF Do
<1>4. Entitled(todo)'
    BY <1>2, <1>3, HarmlessIsEntitled DEF Harmless
<1> QED
    BY <1>1, <1>2, <1>4, BeginKeeps DEF ghosts, regenerateBackupCodes

LEMMA RefreshTokenBegins ==
    ASSUME Inv, NEW c \in Slots, refreshToken(c)
    PROVE  Inv'
<1>1. PICK todo : todo = <<Do("giveTokens", <<Missing, Missing>>)>>
    OBVIOUS
<1>2. todo \in Seq(Statements)
  <2>1. Do("giveTokens", <<Missing, Missing>>) \in Statements
      BY DEF Do, Statements
  <2> QED
      BY <1>1, <2>1
<1>3. Begin(c, todo) /\ UNCHANGED ghosts
    BY <1>1 DEF refreshToken, Tokens
<1>4. \A n \in Sessions \union DOMAIN spent' : n # Missing
    BY <1>3, NullsAssumption, AccessAssumption DEF Sessions, ghosts, Inv, TypeOK
<1>5. Entitled(todo)'
    BY <1>1, <1>4
    DEF Do, Entitled, EntitledAt, Ordered, UserAsRead, SessionAsRead, LoginSpent, CodeSpent,
        AlonePending, ResetDone
<1> QED
    BY <1>2, <1>3, <1>5, BeginKeeps DEF ghosts

LEMMA RequestPasswordResetBegins ==
    ASSUME Inv, NEW c \in Slots, requestPasswordReset(c)
    PROVE  Inv'
<1>1. PICK todo : todo = <<Do("setReset", Missing)>>
    OBVIOUS
<1>2. todo \in Seq(Statements)
    BY <1>1, StatementKinds
<1>3. DOMAIN todo = {1} /\ Len(todo) = 1 /\ todo[1].what = "setReset"
    BY <1>1 DEF Do
<1>4. Entitled(todo)'
    BY <1>2, <1>3, HarmlessIsEntitled DEF Harmless
<1> QED
    BY <1>1, <1>2, <1>4, BeginKeeps DEF ghosts, requestPasswordReset

\* Until it is answered nothing is promised, so that any row with another
\* password may be saved.
LEMMA NewPassword ==
    ASSUME Inv, NEW p \in Passwords, promise' = Missing, user' = user
    PROVE  LET u == [user EXCEPT !.password = p]
           IN  u \in WholeRows /\ AsRead(u)' /\ u.password = p
BY DEF Inv, TypeOK, WholeRows, UserRows, AsRead

LEMMA UpdateProfileBegins ==
    ASSUME Inv, NEW c \in Slots, NEW p \in Passwords, updateProfile(c, p)
    PROVE  Inv'
<1>1. promise' = Missing /\ user' = user /\ given' = given /\ spent' = spent
    BY DEF updateProfile, Promise, Begin, store
<1>2. PICK u : u = [user EXCEPT !.password = p] /\ u \in WholeRows /\ AsRead(u)'
    BY <1>1, NewPassword
<1>3. PICK todo : todo = <<Do("saveUser", u)>>
    OBVIOUS
<1>4. todo \in Seq(Statements)
    BY <1>2, <1>3, StatementKinds
<1>5. Begin(c, todo)
    BY <1>2, <1>3 DEF updateProfile
<1>6. Entitled(todo)'
    BY <1>2, <1>3
    DEF Do, Entitled, EntitledAt, Ordered, UserAsRead, SessionAsRead, LoginSpent, CodeSpent,
        AlonePending, ResetDone
<1> QED
    BY <1>1, <1>4, <1>5, <1>6, BeginKeeps

LEMMA ResetPasswordBegins ==
    ASSUME Inv, NEW c \in Slots, NEW h, NEW p \in Passwords, resetPasswordWithToken(c, h, p)
    PROVE  Inv'
<1>1. promise' = Missing /\ user' = user /\ given' = given /\ spent' = spent
    BY DEF resetPasswordWithToken, Promise, Begin, store
<1>2. PICK u : u = [user EXCEPT !.password = p] /\ u \in WholeRows /\ AsRead(u)' /\ u.password = p
    BY <1>1, NewPassword
<1>3. PICK todo : todo = <<Do("saveUser", u), Do("markReset", Missing), Do("clearRefresh", Missing),
                           Do("answerReset", p)>>
    OBVIOUS
<1>4. todo \in Seq(Statements)
    BY <1>2, <1>3, StatementKinds
<1>5. Begin(c, todo)
    BY <1>2, <1>3 DEF resetPasswordWithToken, ResetSteps
<1>6. Entitled(todo)'
  <2>1. DOMAIN todo = 1 .. 4 /\ Len(todo) = 4
      BY <1>3
  <2> SUFFICES ASSUME NEW i \in 1 .. 4 PROVE EntitledAt(todo, i)'
      BY <2>1 DEF Entitled
  <2>2. Ordered(todo, i)' /\ UserAsRead(todo, i)' /\ SessionAsRead(todo, i)'
      BY <1>2, <1>3, <2>1 DEF Do, Ordered, UserAsRead, SessionAsRead
  <2>3. LoginSpent(todo, i)' /\ CodeSpent(todo, i)' /\ AlonePending(todo, i)'
      BY <1>3, <2>1 DEF Do, LoginSpent, CodeSpent, AlonePending
  <2>4. CASE i # 4
      BY <1>3, <2>2, <2>3, <2>4 DEF Do, ResetDone, EntitledAt
  <2>5. CASE i = 4
    <3>1. /\ todo[1] = Do("saveUser", u) /\ todo[2] = Do("markReset", Missing)
          /\ todo[3] = Do("clearRefresh", Missing) /\ todo[4] = Do("answerReset", p)
        BY <1>3
    <3>2. Before(todo, 4, "markReset", Missing)' /\ Before(todo, 4, "clearRefresh", Missing)'
        BY <3>1 DEF Before
    <3>3. todo[1].what = "saveUser" /\ todo[1].arg = u /\ todo[4].arg = p
        BY <3>1 DEF Do
    <3>4. ResetDone(todo, 4)'
        BY <1>2, <3>2, <3>3 DEF ResetDone
    <3> QED
        BY <2>2, <2>3, <2>5, <3>4 DEF EntitledAt
  <2> QED
      BY <2>4, <2>5
<1> QED
    BY <1>1, <1>4, <1>5, <1>6, BeginKeeps

LEMMA RequestKeeps ==
    ASSUME Inv, NEW c \in Slots, Request(c)
    PROVE  Inv'
BY LoginBegins, CompleteMfaLoginBegins, Verify2faSetupBegins, Start2faSetupBegins,
   ConsumeBackupCodeBegins, RegenerateBackupCodesBegins, RefreshTokenBegins,
   RequestPasswordResetBegins, UpdateProfileBegins, ResetPasswordBegins
DEF Request
-----------------------------------------------------------------------------
(* What a statement leaves as it was for the statements after it.          *)

LoginsStay(first) ==
    /\ opened' \in Nat /\ opened' >= opened /\ given' = given
    /\ \A s \in Sessions :
         LoginUsed(s) \/ (s <= opened /\ first = Do("markSession", s)) => LoginUsed(s)'
CodesStay(first) ==
    /\ codeSets' \in Nat /\ codeSets' >= codeSets /\ spent' = spent
    /\ \A k \in DOMAIN spent :
         CodeUsed(k) \/ (k <= codeSets /\ first = Do("markCode", k)) => CodeUsed(k)'
NoneStays(first) ==
    \A type \in LoginTypes :
        NoneActive(type) \/ first = Do("supersede", type) => NoneActive(type)'
UserStays(first) ==
    /\ user'.password = IF first.what = "saveUser" THEN first.arg.password ELSE user.password
    /\ user.resetUsed \/ first = Do("markReset", Missing) => user'.resetUsed
    /\ user.refresh = Missing \/ first = Do("clearRefresh", Missing) => user'.refresh = Missing

Stays(first) == LoginsStay(first) /\ CodesStay(first) /\ NoneStays(first) /\ UserStays(first)

\* Before(todo, i + 1, ...) in terms of the statements that are left.
LEMMA RestIsEntitled ==
    ASSUME Inv, NEW todo \in Seq(Statements), todo # <<>>, NEW rest, rest = Tail(todo),
           Entitled(todo), Stays(Head(todo))
    PROVE  Entitled(rest)'
<1> SUFFICES ASSUME NEW i \in DOMAIN rest PROVE EntitledAt(rest, i)'
    BY DEF Entitled
<1>1. /\ i \in 1 .. Len(todo) - 1 /\ i + 1 \in DOMAIN todo /\ rest[i] = todo[i + 1]
      /\ Len(rest) = Len(todo) - 1 /\ Len(todo) \in Nat /\ Head(todo) = todo[1] /\ 1 \in DOMAIN todo
      /\ DOMAIN rest = 1 .. Len(todo) - 1 /\ todo[i + 1] \in Statements
    BY Rest
<1>2. EntitledAt(todo, i + 1)
    BY <1>1 DEF Entitled
<1>3. todo[i + 1].what \notin {"saveUser", "saveSession"}
    BY <1>1, <1>2 DEF EntitledAt, Ordered
<1>4. Ordered(rest, i)' /\ UserAsRead(rest, i)' /\ SessionAsRead(rest, i)'
    BY <1>1, <1>2, <1>3 DEF EntitledAt, Ordered, UserAsRead, SessionAsRead
<1>5. \A what, arg : Before(todo, i + 1, what, arg) =>
                       Before(rest, i, what, arg) \/ Head(todo) = Do(what, arg)
    BY <1>1, BeforeInRest
<1>6. LoginSpent(rest, i)'
  <2> SUFFICES ASSUME NEW s \in Sessions, todo[i + 1].what = "giveTokens", todo[i + 1].arg[1] = s
               PROVE  given'[s] = 0 /\ s <= opened' /\ (LoginUsed(s)' \/ Before(rest, i, "markSession", s)')
      BY <1>1 DEF LoginSpent
  <2>1. given[s] = 0 /\ s <= opened /\ (LoginUsed(s) \/ Before(todo, i + 1, "markSession", s))
      BY <1>2 DEF EntitledAt, LoginSpent
  <2>2. given'[s] = 0 /\ s <= opened'
      BY <2>1 DEF Stays, LoginsStay, Sessions, Inv, TypeOK
  <2>3. CASE LoginUsed(s) \/ Head(todo) = Do("markSession", s)
      BY <2>1, <2>2, <2>3 DEF Stays, LoginsStay
  <2>4. CASE Before(rest, i, "markSession", s)
      BY <2>2, <2>4 DEF Before
  <2> QED
      BY <2>1, <2>3, <2>4, <1>5
<1>7. CodeSpent(rest, i)'
  <2> SUFFICES ASSUME NEW k \in DOMAIN spent', todo[i + 1].what = "giveTokens", todo[i + 1].arg[2] = k
               PROVE  spent'[k] = 0 /\ k <= codeSets' /\ (CodeUsed(k)' \/ Before(rest, i, "markCode", k)')
      BY <1>1 DEF CodeSpent
  <2>1. k \in DOMAIN spent /\ spent' = spent
      BY DEF Stays, CodesStay
  <2>2. spent[k] = 0 /\ k <= codeSets /\ (CodeUsed(k) \/ Before(todo, i + 1, "markCode", k))
      BY <1>2, <2>1 DEF EntitledAt, CodeSpent
  <2>3. k \in Int
      BY <2>1, AccessAssumption DEF Inv, TypeOK
  <2>4. spent'[k] = 0 /\ k <= codeSets'
      BY <2>1, <2>2, <2>3 DEF Stays, CodesStay, Inv, TypeOK
  <2>5. CASE CodeUsed(k) \/ Head(todo) = Do("markCode", k)
      BY <2>1, <2>2, <2>4, <2>5 DEF Stays, CodesStay
  <2>6. CASE Before(rest, i, "markCode", k)
      BY <2>4, <2>6 DEF Before
  <2> QED
      BY <2>2, <2>5, <2>6, <1>5
<1>8. AlonePending(rest, i)'
  <2> SUFFICES ASSUME todo[i + 1].what = "openSession"
               PROVE  NoneActive(todo[i + 1].arg)' \/ Before(rest, i, "supersede", todo[i + 1].arg)'
      BY <1>1 DEF AlonePending
  <2>1. PICK type : type = todo[i + 1].arg /\ type \in LoginTypes
      BY <1>1 DEF Statements
  <2>2. NoneActive(type) \/ Before(todo, i + 1, "supersede", type)
      BY <1>2, <2>1 DEF EntitledAt, AlonePending
  <2>3. CASE NoneActive(type) \/ Head(todo) = Do("supersede", type)
      BY <2>1, <2>3 DEF Stays, NoneStays
  <2>4. CASE Before(rest, i, "supersede", type)
      BY <2>1, <2>4 DEF Before
  <2> QED
      BY <2>2, <2>3, <2>4, <1>5
<1>9. ResetDone(rest, i)'
  <2> SUFFICES ASSUME todo[i + 1].what = "answerReset" PROVE ResetDone(rest, i)'
      BY <1>1 DEF ResetDone
  <2>1. /\ todo[1].what = "saveUser" => todo[1].arg.password = todo[i + 1].arg
        /\ todo[1].what = "saveUser" \/ user.password = todo[i + 1].arg
        /\ user.resetUsed \/ Before(todo, i + 1, "markReset", Missing)
        /\ user.refresh = Missing \/ Before(todo, i + 1, "clearRefresh", Missing)
      BY <1>2 DEF EntitledAt, ResetDone
  <2>2. user'.password = todo[i + 1].arg
      BY <2>1, <1>1 DEF Stays, UserStays
  <2>3. rest[1].what # "saveUser"
    <3>1. 1 + 1 \in DOMAIN todo /\ rest[1] = todo[1 + 1]
        BY <1>1, Rest
    <3> QED
        BY <3>1 DEF Entitled, EntitledAt, Ordered
  <2>4. user'.resetUsed \/ Before(rest, i, "markReset", Missing)
      BY <2>1, <1>5 DEF Stays, UserStays
  <2>5. user'.refresh = Missing \/ Before(rest, i, "clearRefresh", Missing)
      BY <2>1, <1>5 DEF Stays, UserStays
  <2> QED
      BY <1>1, <2>2, <2>3, <2>4, <2>5 DEF ResetDone, Before
<1> QED
    BY <1>4, <1>6, <1>7, <1>8, <1>9 DEF EntitledAt

\* The statement that is sent.
LEMMA Sending ==
    ASSUME Inv, NEW c \in Slots, NEW what, Sends(c, what)
    PROVE  /\ calls[c] \in Seq(Statements) /\ calls[c] # <<>>
           /\ Head(calls[c]) \in Statements /\ Head(calls[c]).what = what
           /\ calls' \in [Slots -> Seq(Statements)]
           /\ overlaps' = overlaps /\ faults' = faults
           /\ overlaps = 0 => EntitledAt(calls[c], 1) /\ Head(calls[c]) = calls[c][1]
<1>1. calls[c] \in Seq(Statements) /\ calls[c] # <<>>
    BY DEF Inv, TypeOK, Sends, Idle
<1>2. Head(calls[c]) = calls[c][1] /\ Head(calls[c]) \in Statements /\ Tail(calls[c]) \in Seq(Statements)
      /\ 1 \in DOMAIN calls[c]
    BY <1>1, Rest
<1>3. overlaps = 0 => EntitledAt(calls[c], 1)
    BY <1>2 DEF Inv, Undisturbed, Entitled
<1> QED
    BY <1>1, <1>2, <1>3 DEF Sends, Inv, TypeOK

LEMMA StatementKeeps ==
    ASSUME Inv, NEW c \in Slots, NEW what, Sends(c, what), TypeOK',
           overlaps = 0 =>
             /\ Len(calls[c]) = 1 \/ Stays(Head(calls[c]))
             /\ LoginsOnce' /\ CodesOnce' /\ OneActive' /\ ResetKept'
    PROVE  Inv'
<1> SUFFICES ASSUME overlaps = 0 PROVE Undisturbed'
    BY Sending DEF Inv
<1>1. PICK todo : todo = calls[c]
    OBVIOUS
<1>2. PICK rest : rest = Tail(todo)
    OBVIOUS
<1>3. todo \in Seq(Statements) /\ todo # <<>> /\ Entitled(todo)
    BY <1>1, Sending DEF Inv, Undisturbed
<1>4. \A d \in Slots : calls'[d] = IF d = c THEN rest ELSE Idle
    BY <1>1, <1>2 DEF Sends, Inv, TypeOK, Undisturbed, Alone
<1>5. Entitled(rest)'
  <2>1. CASE Len(todo) = 1
      BY <1>2, <1>3, <2>1, Rest DEF Entitled
  <2>2. CASE Stays(Head(todo))
      BY <1>2, <1>3, <2>2, RestIsEntitled
  <2> QED
      BY <1>1, <2>1, <2>2
<1>6. Alone' /\ \A d \in Slots : Entitled(calls[d])'
    BY <1>4, <1>5 DEF Alone, Entitled, Idle
<1> QED
    BY <1>6 DEF Undisturbed
-----------------------------------------------------------------------------
(* The statements.                                                         *)

LEMMA SaveUserKeeps ==
    ASSUME Inv, NEW c \in Slots, saveUser(c)
    PROVE  Inv'
<1>1. PICK first : first = Head(calls[c])
    OBVIOUS
<1>2. first \in Statements /\ first.what = "saveUser"
    BY <1>1, Sending DEF saveUser
<1>3. user' = first.arg /\ first.arg \in WholeRows
    BY <1>1, <1>2 DEF saveUser, Arg, Statements
<1>4. TypeOK'
    BY <1>3, Sending DEF saveUser, counters, ghosts, Inv, TypeOK
<1>5. ASSUME overlaps = 0
      PROVE  Stays(first) /\ LoginsOnce' /\ CodesOnce' /\ OneActive' /\ ResetKept'
  <2>1. AsRead(first.arg)
      BY <1>1, <1>2, <1>5, Sending DEF saveUser, EntitledAt, UserAsRead
  <2>2. UserStays(first)
      BY <1>2, <1>3, <2>1 DEF UserStays, AsRead, Do
  <2>3. LoginsStay(first) /\ CodesStay(first) /\ NoneStays(first)
      BY <1>2 DEF LoginsStay, CodesStay, NoneStays, NoneActive, Active, LoginUsed, CodeUsed, saveUser,
                  counters, ghosts, Do, Inv, TypeOK
  <2>4. LoginsOnce' /\ CodesOnce' /\ OneActive'
      BY <1>5 DEF LoginsOnce, CodesOnce, OneActive, Active, LoginUsed, CodeUsed, saveUser, counters, ghosts,
                  Inv, Undisturbed
  <2>5. ResetKept'
      BY <1>3, <1>5, <2>1 DEF ResetKept, AsRead, saveUser, counters, ghosts, Inv, Undisturbed
  <2> QED
      BY <2>2, <2>3, <2>4, <2>5 DEF Stays
<1> QED
    BY <1>1, <1>4, <1>5, StatementKeeps DEF saveUser

\* A statement that changes PENDING_LOGINS alone.
LEMMA SessionsOnly ==
    ASSUME Inv, NEW c \in Slots, NEW what, Sends(c, what),
           what \in {"cleanup", "supersede", "saveSession", "markSession"},
           UNCHANGED <<user, codes, counters, ghosts>>,
           sessions' \in [Sessions -> SessionRows \union {Missing}],
           overlaps = 0 =>
             /\ LoginsStay(Head(calls[c])) /\ NoneStays(Head(calls[c]))
             /\ \A s \in Sessions : /\ \A type \in LoginTypes : Active(s, type)' => Active(s, type)
                                    /\ s > opened => sessions'[s] = Missing
    PROVE  Inv'
<1>1. TypeOK'
    BY Sending DEF counters, ghosts, Inv, TypeOK
<1>2. ASSUME overlaps = 0
      PROVE  Stays(Head(calls[c])) /\ LoginsOnce' /\ CodesOnce' /\ OneActive' /\ ResetKept'
  <2>1. CodesStay(Head(calls[c])) /\ UserStays(Head(calls[c]))
      BY Sending DEF CodesStay, UserStays, CodeUsed, counters, ghosts, Do, Inv, TypeOK
  <2>2. LoginsOnce'
      BY <1>2 DEF LoginsOnce, LoginsStay, Inv, Undisturbed
  <2>3. CodesOnce' /\ ResetKept'
      BY <1>2 DEF CodesOnce, CodeUsed, ResetKept, counters, ghosts, Inv, Undisturbed
  <2>4. OneActive'
      BY <1>2 DEF OneActive, counters, Inv, Undisturbed
  <2> QED
      BY <1>2, <2>1, <2>2, <2>3, <2>4 DEF Stays
<1> QED
    BY <1>1, <1>2, StatementKeeps

LEMMA CleanupKeeps ==
    ASSUME Inv, NEW c \in Slots, cleanupExpiredSessions(c)
    PROVE  Inv'
<1>1. Head(calls[c]).what = "cleanup"
    BY Sending DEF cleanupExpiredSessions
<1>2. sessions' \in [Sessions -> SessionRows \union {Missing}]
    BY DEF cleanupExpiredSessions, Inv, TypeOK
<1>3. \A s \in Sessions : sessions'[s] = sessions[s] \/ (sessions'[s] = Missing /\ sessions[s] # Missing)
    BY DEF cleanupExpiredSessions
<1>4. LoginsStay(Head(calls[c])) /\ NoneStays(Head(calls[c]))
    BY <1>1, <1>3 DEF LoginsStay, NoneStays, NoneActive, Active, LoginUsed, Do, cleanupExpiredSessions,
                      counters, ghosts, Inv, TypeOK
<1>5. overlaps = 0 =>
        \A s \in Sessions : /\ \A type \in LoginTypes : Active(s, type)' => Active(s, type)
                            /\ s > opened => sessions'[s] = Missing
    BY <1>3 DEF Active, Inv, Undisturbed, OneActive
<1> QED
    BY <1>2, <1>4, <1>5, SessionsOnly DEF cleanupExpiredSessions

\* A pending login that is used up.
LEMMA UsedRow ==
    ASSUME Inv, NEW s \in Sessions, sessions[s] # Missing, sessions' = [sessions EXCEPT ![s].used = TRUE]
    PROVE  /\ sessions' \in [Sessions -> SessionRows \union {Missing}]
           /\ sessions'[s] # Missing /\ sessions'[s].used /\ sessions'[s].type = sessions[s].type
           /\ \A t \in Sessions : t # s => sessions'[t] = sessions[t]
<1>1. sessions[s] \in SessionRows
    BY DEF Inv, TypeOK
<1>2. PICK row : row = [sessions[s] EXCEPT !.used = TRUE]
    OBVIOUS
<1>3. row \in SessionRows /\ row.used /\ row.type = sessions[s].type
    BY <1>1, <1>2 DEF SessionRows
<1>4. sessions' = [sessions EXCEPT ![s] = row]
    BY <1>2
<1> QED
    BY <1>3, <1>4, NullsAssumption DEF Inv, TypeOK

LEMMA UsedStays ==
    ASSUME Inv, NEW s \in Sessions, sessions[s] # Missing, sessions' = [sessions EXCEPT ![s].used = TRUE],
           UNCHANGED <<counters, ghosts>>
    PROVE  /\ opened' \in Nat /\ opened' >= opened /\ given' = given
           /\ \A t \in Sessions : LoginUsed(t) \/ (t <= opened /\ t = s) => LoginUsed(t)'
           /\ \A t \in Sessions, type \in LoginTypes : Active(t, type)' => Active(t, type) /\ t # s
           /\ \A t \in Sessions : sessions[t] = Missing => sessions'[t] = Missing
<1>1. /\ sessions'[s] # Missing /\ sessions'[s].used
      /\ \A t \in Sessions : t # s => sessions'[t] = sessions[t]
    BY UsedRow
<1> QED
    BY <1>1 DEF counters, ghosts, LoginUsed, Active, Inv, TypeOK

LEMMA SupersedeKeeps ==
    ASSUME Inv, NEW c \in Slots, supersede(c)
    PROVE  Inv'
<1>1. PICK first : first = Head(calls[c])
    OBVIOUS
<1>2. first \in Statements /\ first.what = "supersede"
    BY <1>1, Sending DEF supersede
<1>3. PICK type \in LoginTypes : type = first.arg
    BY <1>2 DEF Statements
<1>4. CASE sessions' = sessions /\ NoneActive(type)
  <2>1. LoginsStay(first)
      BY <1>2, <1>4 DEF LoginsStay, LoginUsed, Do, supersede, counters, ghosts, Inv, TypeOK
  <2>2. NoneStays(first)
      BY <1>3, <1>4 DEF NoneStays, NoneActive, Active, Do
  <2>3. overlaps = 0 => \A s \in Sessions : s > opened => sessions'[s] = Missing
      BY <1>4 DEF Inv, Undisturbed, OneActive
  <2> QED
      BY <1>1, <1>4, <2>1, <2>2, <2>3, SessionsOnly DEF supersede, Active, Inv, TypeOK
<1>5. CASE \E s \in Sessions : Active(s, type) /\ sessions' = [sessions EXCEPT ![s].used = TRUE]
  <2>1. PICK s \in Sessions : Active(s, type) /\ sessions' = [sessions EXCEPT ![s].used = TRUE]
      BY <1>5
  <2>2. sessions[s] # Missing /\ sessions' \in [Sessions -> SessionRows \union {Missing}]
      BY <2>1, UsedRow DEF Active
  <2>3. /\ opened' \in Nat /\ opened' >= opened /\ given' = given
        /\ \A t \in Sessions : LoginUsed(t) => LoginUsed(t)'
        /\ \A t \in Sessions, y \in LoginTypes : Active(t, y)' => Active(t, y) /\ t # s
        /\ \A t \in Sessions : sessions[t] = Missing => sessions'[t] = Missing
      BY <2>1, <2>2, UsedStays DEF supersede
  <2>4. LoginsStay(first)
      BY <1>2, <2>3 DEF LoginsStay, Do
  <2>5. overlaps = 0 => NoneStays(first)
    <3> SUFFICES ASSUME overlaps = 0, NEW y \in LoginTypes, NoneActive(y) \/ first = Do("supersede", y)
                 PROVE  NoneActive(y)'
        BY DEF NoneStays
    <3>1. NoneActive(y) \/ y = type
        BY <1>3 DEF Do
    <3> QED
        BY <2>1, <2>3, <3>1 DEF NoneActive, Inv, Undisturbed, OneActive
  <2>6. overlaps = 0 => \A t \in Sessions : t > opened => sessions'[t] = Missing
      BY <2>3 DEF Inv, Undisturbed, OneActive
  <2> QED
      BY <1>1, <2>2, <2>3, <2>4, <2>5, <2>6, SessionsOnly DEF supersede
<1> QED
    BY <1>1, <1>3, <1>4, <1>5 DEF supersede, Arg, NoneActive

LEMMA MarkSessionKeeps ==
    ASSUME Inv, NEW c \in Slots, markSession(c)
    PROVE  Inv'
<1>1. PICK first : first = Head(calls[c])
    OBVIOUS
<1>2. first \in Statements /\ first.what = "markSession"
    BY <1>1, Sending DEF markSession
<1>3. PICK s \in Sessions : s = first.arg
    BY <1>2 DEF Statements
<1>4. \A t : first = Do("markSession", t) => t = s
    BY <1>3 DEF Do
<1>5. CASE sessions[s] = Missing /\ sessions' = sessions
  <2>1. LoginsStay(first) /\ NoneStays(first)
      BY <1>2, <1>4, <1>5 DEF LoginsStay, LoginUsed, NoneStays, NoneActive, Active, Do, markSession,
                              counters, ghosts, Inv, TypeOK
  <2>2. overlaps = 0 => \A t \in Sessions : t > opened => sessions'[t] = Missing
      BY <1>5 DEF Inv, Undisturbed, OneActive
  <2> QED
      BY <1>1, <1>5, <2>1, <2>2, SessionsOnly DEF markSession, Active, Inv, TypeOK
<1>6. CASE sessions[s] # Missing /\ sessions' = [sessions EXCEPT ![s].used = TRUE]
  <2>1. /\ opened' \in Nat /\ opened' >= opened /\ given' = given
        /\ \A t \in Sessions : LoginUsed(t) \/ (t <= opened /\ t = s) => LoginUsed(t)'
        /\ \A t \in Sessions, y \in LoginTypes : Active(t, y)' => Active(t, y) /\ t # s
        /\ \A t \in Sessions : sessions[t] = Missing => sessions'[t] = Missing
      BY <1>6, UsedStays DEF markSession
  <2>2. LoginsStay(first) /\ NoneStays(first)
      BY <1>2, <1>4, <2>1 DEF LoginsStay, NoneStays, NoneActive, Do
  <2>3. overlaps = 0 => \A t \in Sessions : t > opened => sessions'[t] = Missing
      BY <2>1 DEF Inv, Undisturbed, OneActive
  <2> QED
      BY <1>1, <1>6, <2>1, <2>2, <2>3, UsedRow, SessionsOnly DEF markSession
<1> QED
    BY <1>1, <1>3, <1>5, <1>6 DEF markSession, Arg

LEMMA SaveSessionKeeps ==
    ASSUME Inv, NEW c \in Slots, saveSession(c)
    PROVE  Inv'
<1>1. PICK first : first = Head(calls[c])
    OBVIOUS
<1>2. first \in Statements /\ first.what = "saveSession"
    BY <1>1, Sending DEF saveSession
<1>3. PICK s \in Sessions, row \in SessionRows : first.arg[1] = s /\ first.arg[2] = row
    BY <1>2 DEF Statements
<1>4. sessions' = [sessions EXCEPT ![s] = row] /\ sessions' \in [Sessions -> SessionRows \union {Missing}]
    BY <1>1, <1>3 DEF saveSession, Arg, Inv, TypeOK
<1>5. ASSUME overlaps = 0
      PROVE  /\ LoginsStay(first) /\ NoneStays(first)
             /\ \A t \in Sessions : /\ \A type \in LoginTypes : Active(t, type)' => Active(t, type)
                                    /\ t > opened => sessions'[t] = Missing
  <2>1. Active(s, row.type) /\ ~row.used /\ s <= opened
      BY <1>1, <1>2, <1>3, <1>5, Sending DEF saveSession, EntitledAt, SessionAsRead
  <2>2. \A t \in Sessions : t # s => sessions'[t] = sessions[t]
      BY <1>4 DEF Inv, TypeOK
  <2>3. sessions'[s] = row
      BY <1>4 DEF Inv, TypeOK
  <2>4. \A t \in Sessions, type \in LoginTypes : Active(t, type)' => Active(t, type)
      BY <2>1, <2>2, <2>3 DEF Active
  <2>5. LoginsStay(first)
      BY <1>2, <2>1, <2>2 DEF LoginsStay, LoginUsed, Active, Do, saveSession, counters, ghosts, Inv, TypeOK
  <2>6. NoneStays(first)
      BY <1>2, <2>4 DEF NoneStays, NoneActive, Do
  <2>7. \A t \in Sessions : t > opened => sessions'[t] = Missing
    <3>1. opened \in Nat /\ s \in Int
        BY DEF Inv, TypeOK, Sessions
    <3> QED
        BY <1>5, <2>1, <2>2, <3>1 DEF Inv, Undisturbed, OneActive
  <2> QED
      BY <2>4, <2>5, <2>6, <2>7
<1> QED
    BY <1>1, <1>4, <1>5, SessionsOnly DEF saveSession

LEMMA OpenSessionKeeps ==
    ASSUME Inv, NEW c \in Slots, openSession(c)
    PROVE  Inv'
<1>1. PICK first : first = Head(calls[c])
    OBVIOUS
<1>2. first \in Statements /\ first.what = "openSession"
    BY <1>1, Sending DEF openSession
<1>3. PICK type \in LoginTypes : type = first.arg
    BY <1>2 DEF Statements
<1>4. PICK row : row = [type |-> type, used |-> FALSE, late |-> FALSE, secret |-> FALSE]
    OBVIOUS
<1>5. row \in SessionRows /\ row # Missing /\ ~row.used /\ row.type = type
  <2>1. row \in SessionRows /\ ~row.used /\ row.type = type
      BY <1>4 DEF SessionRows, LoginTypes
  <2> QED
      BY <2>1, NullsAssumption
<1>6. sessions' = [sessions EXCEPT ![opened + 1] = row] /\ opened' = opened + 1 /\ opened \in Nat
    BY <1>1, <1>3, <1>4 DEF openSession, Arg, Inv, TypeOK
<1>7. \A s \in Sessions : sessions'[s] = IF s = opened + 1 THEN row ELSE sessions[s]
  <2>1. sessions \in [Sessions -> SessionRows \union {Missing}]
      BY DEF Inv, TypeOK
  <2> QED
      BY <1>6, <2>1
<1>8. TypeOK'
  <2>1. sessions' \in [Sessions -> SessionRows \union {Missing}]
      BY <1>5, <1>6 DEF Inv, TypeOK
  <2> QED
      BY <1>6, <2>1, Sending DEF openSession, ghosts, Inv, TypeOK
<1>9. ASSUME overlaps = 0
      PROVE  Len(calls[c]) = 1 /\ LoginsOnce' /\ CodesOnce' /\ OneActive' /\ ResetKept'
  <2>1. EntitledAt(calls[c], 1) /\ calls[c][1] = first
      BY <1>1, <1>9, Sending DEF openSession
  <2>2. Len(calls[c]) = 1
      BY <1>2, <2>1 DEF EntitledAt, Ordered
  <2>3. NoneActive(type)
      BY <1>2, <1>3, <2>1 DEF EntitledAt, AlonePending, Before
  <2>4. LoginsOnce'
    <3>1. \A s \in Sessions : s \in Int
        BY DEF Sessions
    <3> QED
        BY <1>6, <1>7, <1>9, <3>1 DEF openSession, ghosts, LoginsOnce, LoginUsed, Inv, Undisturbed
  <2>5. OneActive'
    <3>1. \A s \in Sessions : s \in Int
        BY DEF Sessions
    <3>2. \A s \in Sessions : s > opened + 1 => sessions'[s] = Missing
        BY <1>6, <1>7, <1>9, <3>1 DEF OneActive, Inv, Undisturbed
    <3>3. \A s \in Sessions, y \in LoginTypes :
             Active(s, y)' => (s = opened + 1 /\ y = type) \/ (Active(s, y) /\ s # opened + 1)
        BY <1>5, <1>7 DEF Active
    <3>4. \A y \in LoginTypes : \A s, t \in Sessions : Active(s, y)' /\ Active(t, y)' => s = t
        BY <1>9, <2>3, <3>3 DEF OneActive, NoneActive, Inv, Undisturbed
    <3> QED
        BY <1>6, <3>2, <3>4 DEF OneActive
  <2>6. CodesOnce' /\ ResetKept'
      BY <1>9 DEF openSession, ghosts, CodesOnce, CodeUsed, ResetKept, Inv, Undisturbed
  <2> QED
      BY <2>2, <2>4, <2>5, <2>6
<1> QED
    BY <1>8, <1>9, StatementKeeps DEF openSession

\* A statement that changes BACKUP_CODES alone.
LEMMA CodesOnly ==
    ASSUME Inv, NEW c \in Slots, NEW what, Sends(c, what),
           what \in {"deleteCodes", "saveCodes", "markCode"},
           UNCHANGED <<user, sessions, opened, tokens, resets, ghosts>>,
           codes' \in SUBSET [set : Nat, used : BOOLEAN], codeSets' \in Nat, codeSets' >= codeSets,
           overlaps = 0 =>
             /\ \A k \in DOMAIN spent :
                  CodeUsed(k) \/ (k <= codeSets /\ Head(calls[c]) = Do("markCode", k)) => CodeUsed(k)'
             /\ \A k \in codes' : k.set <= codeSets'
    PROVE  Inv'
<1>1. TypeOK'
    BY Sending DEF ghosts, Inv, TypeOK
<1>2. ASSUME overlaps = 0
      PROVE  Stays(Head(calls[c])) /\ LoginsOnce' /\ CodesOnce' /\ OneActive' /\ ResetKept'
  <2>1. LoginsStay(Head(calls[c])) /\ UserStays(Head(calls[c])) /\ NoneStays(Head(calls[c]))
      BY Sending DEF LoginsStay, NoneStays, NoneActive, Active, UserStays, LoginUsed, ghosts, Do, Inv, TypeOK
  <2>2. CodesStay(Head(calls[c]))
      BY <1>2 DEF CodesStay, ghosts
  <2>3. CodesOnce'
      BY <1>2 DEF CodesOnce, ghosts, Inv, Undisturbed
  <2>4. LoginsOnce' /\ OneActive' /\ ResetKept'
      BY <1>2 DEF LoginsOnce, LoginUsed, OneActive, Active, ResetKept, ghosts, Inv, Undisturbed
  <2> QED
      BY <2>1, <2>2, <2>3, <2>4 DEF Stays
<1> QED
    BY <1>1, <1>2, StatementKeeps

LEMMA DeleteCodesKeeps ==
    ASSUME Inv, NEW c \in Slots, deleteCodes(c)
    PROVE  Inv'
<1>1. Head(calls[c]).what = "deleteCodes"
    BY Sending DEF deleteCodes
<1>2. codes' = {} /\ codeSets' = codeSets /\ codeSets \in Nat
    BY DEF deleteCodes, counters, Inv, TypeOK
<1>3. \A k \in DOMAIN spent :
         CodeUsed(k) \/ (k <= codeSets /\ Head(calls[c]) = Do("markCode", k)) => CodeUsed(k)'
    BY <1>1, <1>2 DEF CodeUsed, Do
<1> QED
    BY <1>2, <1>3, CodesOnly DEF deleteCodes, counters

LEMMA SaveCodesKeeps ==
    ASSUME Inv, NEW c \in Slots, saveCodes(c)
    PROVE  Inv'
<1>1. Head(calls[c]).what = "saveCodes"
    BY Sending DEF saveCodes
<1>2. PICK n \in Nat : n = codeSets
    BY DEF Inv, TypeOK
<1>3. PICK new : new = [set |-> n + 1, used |-> FALSE]
    OBVIOUS
<1>4. codes' = codes \union {new} /\ codeSets' = n + 1 /\ new.set = n + 1
    BY <1>2, <1>3 DEF saveCodes
<1>5. new \in [set : Nat, used : BOOLEAN]
    BY <1>3
<1>6. \A k \in DOMAIN spent : k \in Int
    BY AccessAssumption DEF Inv, TypeOK
<1>7. \A k \in DOMAIN spent :
         CodeUsed(k) \/ (k <= codeSets /\ Head(calls[c]) = Do("markCode", k)) => CodeUsed(k)'
  <2> SUFFICES ASSUME NEW k \in DOMAIN spent, CodeUsed(k) PROVE CodeUsed(k)'
      BY <1>1 DEF Do
  <2>1. [set |-> k, used |-> FALSE] # new
    <3>1. PICK old : old = [set |-> k, used |-> FALSE]
        OBVIOUS
    <3>2. old.set = k /\ k <= n
        BY <1>2, <3>1 DEF CodeUsed
    <3> QED
        BY <1>4, <1>6, <3>1, <3>2
  <2> QED
      BY <1>2, <1>4, <1>6, <2>1 DEF CodeUsed
<1>8. overlaps = 0 => \A k \in codes' : k.set <= codeSets'
    BY <1>2, <1>4 DEF CodesOnce, Inv, TypeOK, Undisturbed
<1> QED
    BY <1>2, <1>4, <1>5, <1>7, <1>8, CodesOnly DEF saveCodes, Inv, TypeOK

LEMMA MarkCodeKeeps ==
    ASSUME Inv, NEW c \in Slots, markCode(c)
    PROVE  Inv'
<1>1. PICK first : first = Head(calls[c])
    OBVIOUS
<1>2. first \in Statements /\ first.what = "markCode"
    BY <1>1, Sending DEF markCode
<1>3. PICK m : m = first.arg
    OBVIOUS
<1>4. /\ codeSets' = codeSets /\ codeSets \in Nat /\ codes \in SUBSET [set : Nat, used : BOOLEAN]
      /\ codes' = {IF k.set = m THEN [k EXCEPT !.used = TRUE] ELSE k : k \in codes}
    BY <1>1, <1>3 DEF markCode, Arg, counters, Inv, TypeOK
<1>5. \A k \in [set : Nat, used : BOOLEAN] :
         /\ [k EXCEPT !.used = TRUE] \in [set : Nat, used : BOOLEAN]
         /\ [k EXCEPT !.used = TRUE].set = k.set /\ [k EXCEPT !.used = TRUE].used
    OBVIOUS
<1>6. codes' \in SUBSET [set : Nat, used : BOOLEAN]
    BY <1>4, <1>5
<1>7. \A k \in codes' : \E o \in codes : k.set = o.set /\ (k = o \/ k.used) /\ (k.set = m => k.used)
    BY <1>4, <1>5
<1>8. overlaps = 0 => \A k \in codes' : k.set <= codeSets'
    BY <1>4, <1>7 DEF CodesOnce, Inv, Undisturbed
<1>9. \A k \in DOMAIN spent : CodeUsed(k) \/ (k <= codeSets /\ first = Do("markCode", k)) => CodeUsed(k)'
  <2> SUFFICES ASSUME NEW k \in DOMAIN spent, CodeUsed(k) \/ (k <= codeSets /\ first = Do("markCode", k))
               PROVE  [set |-> k, used |-> FALSE] \notin codes'
      BY <1>4 DEF CodeUsed
  <2>0. PICK old : old = [set |-> k, used |-> FALSE]
      OBVIOUS
  <2>1. old = [set |-> k, used |-> FALSE] /\ old.set = k /\ old.used = FALSE
      BY <2>0
  <2>2. SUFFICES ASSUME old \in codes' PROVE FALSE
      BY <2>1
  <2>3. PICK o \in codes : old.set = o.set /\ (old = o \/ old.used) /\ (old.set = m => old.used)
      BY <1>7, <2>2
  <2>4. old \in codes /\ k # m
      BY <2>1, <2>3
  <2>5. first # Do("markCode", k)
      BY <1>3, <2>4 DEF Do
  <2> QED
      BY <2>1, <2>4, <2>5 DEF CodeUsed
<1> QED
    BY <1>1, <1>4, <1>6, <1>8, <1>9, CodesOnly DEF markCode, counters

LEMMA GenerateTokensKeeps ==
    ASSUME Inv, NEW c \in Slots, generateTokens(c)
    PROVE  Inv'
<1>1. PICK first : first = Head(calls[c])
    OBVIOUS
<1>2. first \in Statements /\ first.what = "giveTokens"
    BY <1>1, Sending DEF generateTokens
<1>3. tokens \in Nat /\ tokens' = tokens + 1 /\ user' = [user EXCEPT !.refresh = tokens + 1]
    BY DEF generateTokens, Inv, TypeOK
<1>4. user' \in WholeRows
  <2>1. PICK n \in Nat : n = tokens + 1
      BY <1>3
  <2>2. user' = [user EXCEPT !.refresh = n]
      BY <1>3, <2>1
  <2> QED
      BY <2>2 DEF WholeRows, UserRows, Inv, TypeOK
<1>5. /\ user'.refresh = tokens + 1 /\ user'.password = user.password
      /\ user'.resetHash = user.resetHash /\ user'.resetUsed = user.resetUsed
    BY <1>3 DEF WholeRows, UserRows, Inv, TypeOK
<1>6. \A s \in Sessions :
         given'[s] = IF s = first.arg[1] /\ overlaps = 0 THEN given[s] + 1 ELSE given[s]
    BY <1>1 DEF generateTokens, Arg
<1>7. DOMAIN spent' = DOMAIN spent /\ \A k \in DOMAIN spent :
         spent'[k] = IF k = first.arg[2] /\ overlaps = 0 THEN spent[k] + 1 ELSE spent[k]
    BY <1>1 DEF generateTokens, Arg
<1>8. TypeOK'
  <2>1. given' \in [Sessions -> Nat]
      BY DEF generateTokens, Inv, TypeOK
  <2>2. spent' \in [1 .. MaxCodeSets -> Nat]
      BY DEF generateTokens, Inv, TypeOK
  <2> QED
      BY <1>3, <1>4, <2>1, <2>2, Sending DEF generateTokens, Inv, TypeOK
<1>9. ASSUME overlaps = 0
      PROVE  Len(calls[c]) = 1 /\ LoginsOnce' /\ CodesOnce' /\ OneActive' /\ ResetKept'
  <2>1. EntitledAt(calls[c], 1) /\ calls[c][1] = first
      BY <1>1, <1>9, Sending DEF generateTokens
  <2>2. Len(calls[c]) = 1
      BY <1>2, <2>1 DEF EntitledAt, Ordered
  <2>3. \A s \in Sessions : s = first.arg[1] => given[s] = 0 /\ LoginUsed(s)
      BY <1>2, <2>1 DEF EntitledAt, LoginSpent, Before
  <2>4. \A k \in DOMAIN spent : k = first.arg[2] => spent[k] = 0 /\ CodeUsed(k)
      BY <1>2, <2>1 DEF EntitledAt, CodeSpent, Before
  <2>5. LoginsOnce'
      BY <1>6, <1>9, <2>3 DEF generateTokens, LoginsOnce, LoginUsed, Inv, Undisturbed
  <2>6. CodesOnce'
      BY <1>7, <1>9, <2>4 DEF generateTokens, CodesOnce, CodeUsed, Inv, Undisturbed
  <2>7. OneActive'
      BY <1>9 DEF generateTokens, OneActive, Active, Inv, Undisturbed
  <2>8. ResetKept'
    <3>1. promise # Missing => promise.tokens \in Nat
        BY DEF Inv, TypeOK, Promises
    <3> QED
        BY <1>3, <1>5, <1>9, <3>1 DEF generateTokens, ResetKept, Inv, Undisturbed
  <2> QED
      BY <2>2, <2>5, <2>6, <2>7, <2>8
<1> QED
    BY <1>8, <1>9, StatementKeeps DEF generateTokens

\* A statement that changes columns of the admin other than the secret.
LEMMA UserOnly ==
    ASSUME Inv, NEW c \in Slots, NEW what, Sends(c, what),
           UNCHANGED <<sessions, codes, opened, tokens, codeSets, given, spent>>,
           user' \in WholeRows, resets' \in Nat, promise' \in Promises \union {Missing},
           overlaps = 0 =>
             /\ \/ Len(calls[c]) = 1
                \/ what \notin {"markSession", "markCode", "supersede"} /\ UserStays(Head(calls[c]))
             /\ ResetKept'
    PROVE  Inv'
<1>1. TypeOK'
    BY Sending DEF Inv, TypeOK
<1>2. ASSUME overlaps = 0
      PROVE  /\ Len(calls[c]) = 1 \/ Stays(Head(calls[c]))
             /\ LoginsOnce' /\ CodesOnce' /\ OneActive' /\ ResetKept'
  <2>1. ASSUME what \notin {"markSession", "markCode", "supersede"}
        PROVE  LoginsStay(Head(calls[c])) /\ CodesStay(Head(calls[c])) /\ NoneStays(Head(calls[c]))
      BY <2>1, Sending DEF LoginsStay, CodesStay, NoneStays, NoneActive, Active, LoginUsed, CodeUsed, Do,
                           Inv, TypeOK
  <2>2. LoginsOnce' /\ CodesOnce' /\ OneActive'
      BY <1>2 DEF LoginsOnce, LoginUsed, CodesOnce, CodeUsed, OneActive, Active, Inv, Undisturbed
  <2> QED
      BY <1>2, <2>1, <2>2 DEF Stays
<1> QED
    BY <1>1, <1>2, StatementKeeps

LEMMA SetPasswordResetTokenKeeps ==
    ASSUME Inv, NEW c \in Slots, setPasswordResetToken(c)
    PROVE  Inv'
<1>1. Head(calls[c]).what = "setReset"
    BY Sending DEF setPasswordResetToken
<1>2. resets \in Nat /\ resets' = resets + 1
    BY DEF setPasswordResetToken, Inv, TypeOK
<1>3. user' \in WholeRows
  <2>1. PICK n \in Nat : n = resets + 1
      BY <1>2
  <2>2. user' = [user EXCEPT !.resetHash = n, !.resetUsed = FALSE, !.resetLate = FALSE]
      BY <2>1 DEF setPasswordResetToken
  <2> QED
      BY <2>2 DEF WholeRows, UserRows, Inv, TypeOK
<1>4. user'.password = user.password /\ user'.refresh = user.refresh /\ user'.resetHash = resets + 1
    BY <1>2 DEF setPasswordResetToken, WholeRows, UserRows, Inv, TypeOK
<1>5. ASSUME overlaps = 0 PROVE Len(calls[c]) = 1 /\ ResetKept'
  <2>1. Len(calls[c]) = 1
      BY <1>1, <1>5, Sending DEF setPasswordResetToken, EntitledAt, Ordered
  <2>2. promise # Missing => promise.hash \in Nat \union {Missing}
      BY DEF Inv, TypeOK, Promises
  <2>3. promise # Missing => resets + 1 # promise.hash
      BY <1>2, <1>5, <2>2, NullsAssumption DEF ResetKept, Inv, Undisturbed
  <2> QED
      BY <1>2, <1>4, <1>5, <2>1, <2>2, <2>3
      DEF setPasswordResetToken, ghosts, ResetKept, Inv, Undisturbed
<1> QED
    BY <1>2, <1>3, <1>5, UserOnly DEF setPasswordResetToken, ghosts, Inv, TypeOK

LEMMA MarkPasswordResetUsedKeeps ==
    ASSUME Inv, NEW c \in Slots, markPasswordResetUsed(c)
    PROVE  Inv'
<1>1. Head(calls[c]).what = "markReset"
    BY Sending DEF markPasswordResetUsed
<1>2. user' \in WholeRows
    BY DEF markPasswordResetUsed, WholeRows, UserRows, Inv, TypeOK
<1>3. /\ user'.password = user.password /\ user'.refresh = user.refresh
      /\ user'.resetHash = user.resetHash /\ user'.resetUsed
    BY DEF markPasswordResetUsed, WholeRows, UserRows, Inv, TypeOK
<1>4. UserStays(Head(calls[c]))
    BY <1>1, <1>3 DEF UserStays, Do
<1>5. overlaps = 0 => ResetKept'
    BY <1>3 DEF markPasswordResetUsed, ghosts, counters, ResetKept, Inv, Undisturbed
<1> QED
    BY <1>2, <1>4, <1>5, UserOnly DEF markPasswordResetUsed, ghosts, counters, Inv, TypeOK

LEMMA ClearRefreshTokenKeeps ==
    ASSUME Inv, NEW c \in Slots, clearRefreshToken(c)
    PROVE  Inv'
<1>1. Head(calls[c]).what = "clearRefresh"
    BY Sending DEF clearRefreshToken
<1>2. user' \in WholeRows
    BY DEF clearRefreshToken, WholeRows, UserRows, Inv, TypeOK
<1>3. /\ user'.password = user.password /\ user'.refresh = Missing
      /\ user'.resetHash = user.resetHash /\ user'.resetUsed = user.resetUsed
    BY DEF clearRefreshToken, WholeRows, UserRows, Inv, TypeOK
<1>4. UserStays(Head(calls[c]))
    BY <1>1, <1>3 DEF UserStays, Do
<1>5. overlaps = 0 => ResetKept'
    BY <1>3 DEF clearRefreshToken, ghosts, counters, ResetKept, Inv, Undisturbed
<1> QED
    BY <1>2, <1>4, <1>5, UserOnly DEF clearRefreshToken, ghosts, counters, Inv, TypeOK

LEMMA AnswerResetKeeps ==
    ASSUME Inv, NEW c \in Slots, answerReset(c)
    PROVE  Inv'
<1>1. PICK first : first = Head(calls[c])
    OBVIOUS
<1>2. first \in Statements /\ first.what = "answerReset"
    BY <1>1, Sending DEF answerReset
<1>3. first.arg \in Passwords
    BY <1>2 DEF Statements
<1>4. UNCHANGED <<user, sessions, codes, opened, tokens, codeSets, resets, given, spent>>
    BY DEF answerReset, store, counters, ghosts, Promise
<1>5. CASE overlaps > 0
    BY <1>4, <1>5, UserOnly DEF answerReset, ghosts, Inv, TypeOK
<1>6. CASE ~(overlaps > 0)
  <2>1. PICK p : p = [password |-> first.arg, hash |-> user.resetHash, tokens |-> tokens]
      OBVIOUS
  <2>2. p \in Promises
      BY <1>3, <2>1 DEF Promises, WholeRows, UserRows, Inv, TypeOK
  <2>3. promise' = p
      BY <1>1, <1>6, <2>1 DEF answerReset, Promise, Arg
  <2>4. overlaps = 0
      BY <1>6 DEF Inv, TypeOK
  <2>5. EntitledAt(calls[c], 1) /\ calls[c][1] = first
      BY <1>1, <2>4, Sending DEF answerReset
  <2>6. Len(calls[c]) = 1
      BY <1>2, <2>5 DEF EntitledAt, Ordered
  <2>7. user.password = first.arg /\ user.resetUsed /\ user.refresh = Missing
      BY <1>2, <2>5 DEF EntitledAt, ResetDone, Before
  <2>8. p.password = first.arg /\ p.hash = user.resetHash /\ p.tokens = tokens
      BY <2>1
  <2>9. ResetKept'
    <3>1. tokens \in Nat
        BY DEF Inv, TypeOK
    <3> QED
        BY <1>4, <2>3, <2>4, <2>7, <2>8, <3>1 DEF ResetKept, Inv, Undisturbed
  <2> QED
      BY <1>4, <2>2, <2>3, <2>6, <2>9, UserOnly DEF answerReset, Inv, TypeOK
<1> QED
    BY <1>5, <1>6

LEMMA StatementStep ==
    ASSUME Inv, NEW c \in Slots, Statement(c)
    PROVE  Inv'
BY SaveUserKeeps, CleanupKeeps, SupersedeKeeps, OpenSessionKeeps, SaveSessionKeeps, MarkSessionKeeps,
   DeleteCodesKeeps, SaveCodesKeeps, MarkCodeKeeps, GenerateTokensKeeps, SetPasswordResetTokenKeeps,
   MarkPasswordResetUsedKeeps, ClearRefreshTokenKeeps, AnswerResetKeeps
DEF Statement

-----------------------------------------------------------------------------
(* The process dies, time passes.                                          *)

LEMMA DiesKeeps == ASSUME Inv, dies PROVE Inv'
<1>1. TypeOK'
    BY DEF dies, store, counters, ghosts, Idle, Inv, TypeOK
<1>2. ASSUME overlaps = 0 PROVE Undisturbed'
  <2>1. \A d \in Slots : calls'[d] = Idle
      BY DEF dies
  <2>2. Alone' /\ \A d \in Slots : Entitled(calls[d])'
      BY <2>1 DEF Alone, Entitled, Idle
  <2>3. LoginsOnce' /\ CodesOnce' /\ OneActive' /\ ResetKept'
      BY <1>2 DEF dies, store, counters, ghosts, LoginsOnce, LoginUsed, CodesOnce, CodeUsed, OneActive, Active,
                  ResetKept, Inv, Undisturbed
  <2> QED
      BY <2>2, <2>3 DEF Undisturbed
<1> QED
    BY <1>1, <1>2 DEF Inv, dies

LEMMA TimePassesKeeps == ASSUME Inv, timePasses PROVE Inv'
<1>1. /\ user' \in WholeRows /\ user'.password = user.password /\ user'.refresh = user.refresh
      /\ user'.resetHash = user.resetHash /\ user'.resetUsed = user.resetUsed
    BY DEF timePasses, WholeRows, UserRows, Inv, TypeOK
<1>2. /\ sessions' \in [Sessions -> SessionRows \union {Missing}]
      /\ \A s \in Sessions : /\ sessions'[s] = Missing <=> sessions[s] = Missing
                             /\ sessions[s] # Missing => /\ sessions'[s].used = sessions[s].used
                                                         /\ sessions'[s].type = sessions[s].type
  <2>1. CASE sessions' = sessions
      BY <2>1 DEF Inv, TypeOK
  <2>2. CASE \E s \in Sessions : sessions[s] # Missing /\ sessions' = [sessions EXCEPT ![s].late = TRUE]
    <3>1. PICK s \in Sessions : sessions[s] # Missing /\ sessions' = [sessions EXCEPT ![s].late = TRUE]
        BY <2>2
    <3>2. PICK row : row = [sessions[s] EXCEPT !.late = TRUE]
        OBVIOUS
    <3>3. sessions[s] \in SessionRows
        BY <3>1 DEF Inv, TypeOK
    <3>4. row \in SessionRows /\ row.used = sessions[s].used /\ row.type = sessions[s].type
        BY <3>2, <3>3 DEF SessionRows
    <3>5. sessions' = [sessions EXCEPT ![s] = row]
        BY <3>1, <3>2
    <3> QED
        BY <3>1, <3>4, <3>5, NullsAssumption DEF Inv, TypeOK
  <2> QED
      BY <2>1, <2>2 DEF timePasses
<1>3. UNCHANGED <<codes, counters, calls, overlaps, ghosts, faults>>
    BY DEF timePasses
<1>4. TypeOK'
    BY <1>1, <1>2, <1>3 DEF counters, ghosts, Inv, TypeOK
<1>5. ASSUME overlaps = 0 PROVE Undisturbed'
  <2>1. /\ \A s \in Sessions : LoginUsed(s)' <=> LoginUsed(s)
        /\ \A s \in Sessions, type \in LoginTypes : Active(s, type)' <=> Active(s, type)
        /\ \A k : CodeUsed(k)' <=> CodeUsed(k)
      BY <1>2, <1>3 DEF LoginUsed, Active, CodeUsed, counters
  <2>2. LoginsOnce' /\ CodesOnce' /\ OneActive' /\ ResetKept'
      BY <1>1, <1>2, <1>3, <1>5, <2>1
      DEF counters, ghosts, LoginsOnce, CodesOnce, OneActive, ResetKept, Inv, Undisturbed
  <2>3. ASSUME NEW d \in Slots, NEW todo, todo = calls[d], NEW i \in DOMAIN todo
        PROVE  EntitledAt(todo, i)'
    <3>1. EntitledAt(todo, i) /\ todo[i] \in Statements
        BY <1>5, <2>3 DEF Entitled, Inv, TypeOK, Undisturbed
    <3>2. Ordered(todo, i)' /\ UserAsRead(todo, i)'
        BY <1>1, <1>3, <3>1 DEF EntitledAt, Ordered, UserAsRead, AsRead, ghosts
    <3>3. SessionAsRead(todo, i)'
      <4> SUFFICES ASSUME todo[i].what = "saveSession" PROVE SessionAsRead(todo, i)'
          BY DEF SessionAsRead
      <4>1. todo[i].arg[1] \in Sessions /\ todo[i].arg[2].type \in LoginTypes
          BY <3>1 DEF Statements, SessionRows, LoginTypes
      <4> QED
          BY <1>3, <2>1, <3>1, <4>1 DEF EntitledAt, SessionAsRead, counters
    <3>4. LoginSpent(todo, i)' /\ CodeSpent(todo, i)'
        BY <1>3, <2>1, <3>1 DEF EntitledAt, LoginSpent, CodeSpent, Before, counters, ghosts
    <3>5. AlonePending(todo, i)'
      <4> SUFFICES ASSUME todo[i].what = "openSession" PROVE AlonePending(todo, i)'
          BY DEF AlonePending
      <4>1. todo[i].arg \in LoginTypes
          BY <3>1 DEF Statements
      <4> QED
          BY <2>1, <3>1, <4>1 DEF EntitledAt, AlonePending, NoneActive, Before
    <3>6. ResetDone(todo, i)'
        BY <1>1, <3>1 DEF EntitledAt, ResetDone, Before
    <3> QED
        BY <3>2, <3>3, <3>4, <3>5, <3>6 DEF EntitledAt
  <2>4. \A d \in Slots : Entitled(calls[d])'
    <3> SUFFICES ASSUME NEW d \in Slots PROVE Entitled(calls[d])'
        OBVIOUS
    <3>1. PICK todo : todo = calls[d]
        OBVIOUS
    <3>2. Entitled(todo)'
        BY <2>3, <3>1 DEF Entitled
    <3> QED
        BY <1>3, <3>1, <3>2
  <2> QED
      BY <1>3, <1>5, <2>2, <2>4 DEF Inv, Undisturbed, Alone
<1> QED
    BY <1>3, <1>4, <1>5 DEF Inv

LEMMA StutterKeeps == ASSUME Inv, UNCHANGED vars PROVE Inv'
<1>1. TypeOK'
    BY DEF vars, store, counters, ghosts, Inv, TypeOK
<1>2. /\ UNCHANGED <<user, sessions, codes, opened, tokens, codeSets, resets>>
      /\ UNCHANGED <<calls, overlaps, given, spent, promise, faults>>
    BY DEF vars, store, counters, ghosts
<1>3. (Alone => Alone') /\ (ResetKept => ResetKept')
    BY <1>2 DEF Alone, ResetKept
<1>4. (LoginsOnce => LoginsOnce') /\ (CodesOnce => CodesOnce')
    BY <1>2 DEF LoginsOnce, LoginUsed, CodesOnce, CodeUsed
<1>5. OneActive => OneActive'
    BY <1>2 DEF OneActive, Active
<1>6. ASSUME NEW c \in Slots, Entitled(calls[c]) PROVE Entitled(calls[c])'
  <2>1. calls' = calls
      BY <1>2
  <2>2. ASSUME NEW i \in DOMAIN calls[c] PROVE EntitledAt(calls[c], i)'
    <3>1. EntitledAt(calls[c], i)
        BY <1>6, <2>2 DEF Entitled
    <3>2. Ordered(calls[c], i)' /\ UserAsRead(calls[c], i)' /\ SessionAsRead(calls[c], i)'
      <4>1. Ordered(calls[c], i)' /\ SessionAsRead(calls[c], i)'
          BY <1>2, <3>1 DEF EntitledAt, Ordered, SessionAsRead, Active
      <4>2. UserAsRead(calls[c], i)'
          BY <1>2, <3>1 DEF EntitledAt, UserAsRead, AsRead
      <4> QED
          BY <4>1, <4>2
    <3>3. LoginSpent(calls[c], i)' /\ CodeSpent(calls[c], i)'
        BY <1>2, <3>1 DEF EntitledAt, LoginSpent, CodeSpent, LoginUsed, CodeUsed, Before
    <3>4. AlonePending(calls[c], i)' /\ ResetDone(calls[c], i)'
        BY <1>2, <3>1 DEF EntitledAt, AlonePending, NoneActive, Active, ResetDone, Before
    <3> QED
        BY <3>2, <3>3, <3>4 DEF EntitledAt
  <2> QED
      BY <2>1, <2>2 DEF Entitled
<1>7. Undisturbed => Undisturbed'
    BY <1>3, <1>4, <1>5, <1>6 DEF Undisturbed
<1> QED
    BY <1>1, <1>2, <1>7 DEF Inv

LEMMA NextInv == Inv /\ [Next]_vars => Inv'
BY RequestKeeps, StatementStep, DiesKeeps, TimePassesKeeps, StutterKeeps DEF Next

-----------------------------------------------------------------------------
\* Every reachable state is as the invariant says.
THEOREM AccessInvariant == Spec => []Inv
BY InitInv, NextInv, PTL DEF Spec

\* The second factor and its secret are switched on together and stay so,
\* however requests overlap, write back whole rows, or die (verify2faSetup).
THEOREM SecondFactorIsWhole == Spec => []NeverHalfEnrolled
<1>1. Inv => NeverHalfEnrolled
    BY DEF Inv, TypeOK, WholeRows, NeverHalfEnrolled
<1> QED
    BY <1>1, AccessInvariant, PTL

\* A pending login and a backup code sign in at most once, and of each type at
\* most one pending login is active, while requests do not overlap, even if
\* some die half-way (createPendingSession, completeMfaLogin, verify2faSetup,
\* consumeBackupCode).
THEOREM LoginsAreUsedOnce == Spec => []SignsInOnce
<1>1. ASSUME Inv PROVE SignsInOnce
  <2> SUFFICES ASSUME overlaps = 0, NEW type \in LoginTypes
               PROVE  Cardinality({s \in Sessions : Active(s, type)}) <= 1
      BY <1>1 DEF SignsInOnce, Inv, Undisturbed, LoginsOnce, CodesOnce, LoginTypes
  <2> DEFINE A == {s \in Sessions : Active(s, type)}
  <2>1. CASE A = {}
      BY <2>1, FS_EmptySet
  <2>2. CASE A # {}
    <3>1. PICK s : s \in A
        BY <2>2
    <3>2. A = {s}
        BY <1>1, <3>1 DEF Inv, Undisturbed, OneActive
    <3>3. Cardinality(A) = 1
        BY <3>2, FS_Singleton
    <3> QED
        BY <3>3
  <2> QED
      BY <2>1, <2>2
<1> QED
    BY <1>1, AccessInvariant, PTL

\* A password reset that was answered is final, while requests do not overlap:
\* neither the old password nor the link nor a token of before works, however
\* often the process died before (resetPasswordWithToken).
THEOREM ResetIsFinal == Spec => []ResetSticks
<1>1. Inv => ResetSticks
    BY DEF Inv, Undisturbed, ResetKept, ResetSticks
<1> QED
    BY <1>1, AccessInvariant, PTL
=============================================================================
