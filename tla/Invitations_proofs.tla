------------------------- MODULE Invitations_proofs -------------------------
(***************************************************************************)
(* For any number of requests, emails, invitations and links: an           *)
(* invitation shown as accepted has led to an account, and unless two      *)
(* accounts were being set up at once the role counts it.                  *)
(*                                                                         *)
(* The count is of users and is written by a later statement, so that the  *)
(* invariant says which emails a count must not miss: those of accepted    *)
(* invitations, and those of invitations whose request has written its     *)
(* count and is about to accept (Vouched).  A count that was taken and not *)
(* written yet must not miss that of its own request either.               *)
(***************************************************************************)
EXTENDS Invitations, FiniteSetTheorems, SequenceTheorems, TLAPS

Statements ==
    [what : {"create", "saveUser"}, arg : Emails]
    \union [what : {"expire", "accept", "renew", "delete"}, arg : Ids]
    \union [what : {"keepAnswer"}, arg : Nat \X {"valid", "invalid"}]
    \union [what : {"forgetAnswer"}, arg : Nat]
    \union [what : {"count"}, arg : {Missing}]
    \union [what : {"saveRole"}, arg : Nat]

TypeOK ==
    /\ invitations \in [Ids -> InvitationRows \union {Missing}]
    /\ made \in Nat /\ issued \in Nat /\ userCount \in Nat /\ faults \in Nat
    /\ accounts \in SUBSET Emails /\ IsFiniteSet(accounts)
    /\ verified \in [Tokens -> {"valid", "invalid", Missing}]
    /\ calls \in [Slots -> Seq(Statements)]
    /\ overlapped \in BOOLEAN

Accepting(todo, i) == \E k \in DOMAIN todo : todo[k] = Do("accept", i)
Counting(todo) == \E k \in DOMAIN todo : todo[k].what = "saveRole"

\* The order of the statements of setupAdminAccount.
InOrder(todo, k) ==
    /\ todo[k].what = "saveUser" => k = 1 /\ Counting(todo)
    /\ todo[k].what = "count" => k + 1 \in DOMAIN todo /\ todo[k + 1].what = "saveRole"
    /\ todo[k].what = "saveRole" =>
         /\ k = 1 \/ todo[k - 1].what = "count"
         /\ \A l \in DOMAIN todo : /\ todo[l].what = "saveRole" => l = k
                                   /\ todo[l].what = "accept" => l > k

\* The account comes before the invitation is accepted.
HasAccount(todo, k) ==
    todo[k].what = "accept" =>
        /\ todo[k].arg <= made
        /\ Exists(todo[k].arg) =>
             \/ invitations[todo[k].arg].email \in accounts
             \/ todo[1] = Do("saveUser", invitations[todo[k].arg].email)

Orderly(todo) == \A k \in DOMAIN todo : InOrder(todo, k) /\ HasAccount(todo, k)

\* The count that request c is to write has to know of invitation i.
Owed(c, i) ==
    /\ Exists(i)
    /\ \/ invitations[i].status = "accepted"
       \/ \E d \in Slots : Accepting(calls[d], i) /\ (d = c \/ ~Counting(calls[d]))
\* The count that was written last has to.
Known(i) ==
    /\ Exists(i)
    /\ \/ invitations[i].status = "accepted"
       \/ \E d \in Slots : Accepting(calls[d], i) /\ ~Counting(calls[d])

Vouched == {e \in Emails : \E i \in Ids : Known(i) /\ invitations[i].email = e}
VouchedAfter(c) == {e \in Emails : \E i \in Ids : Owed(c, i) /\ invitations[i].email = e}

Fresh == \A i \in Ids : i > made => invitations[i] = Missing
AcceptedHave ==
    \A i \in Ids : Exists(i) /\ invitations[i].status = "accepted" => invitations[i].email \in accounts

OneCounting == \A c, d \in Slots : Counting(calls[c]) /\ Counting(calls[d]) => c = d
CountKept == userCount >= Cardinality(Vouched)
CountDue ==
    \A c \in Slots : calls[c] # Idle /\ Head(calls[c]).what = "saveRole" =>
        Head(calls[c]).arg >= Cardinality(VouchedAfter(c))

Inv ==
    /\ TypeOK /\ Fresh /\ AcceptedHave
    /\ \A c \in Slots : Orderly(calls[c])
    /\ ~overlapped => OneCounting /\ CountKept /\ CountDue
-----------------------------------------------------------------------------
LEMMA Rest ==
    ASSUME NEW S, NEW s \in Seq(S), s # <<>>
    PROVE  /\ Head(s) = s[1] /\ Head(s) \in S /\ Tail(s) \in Seq(S)
           /\ Len(s) \in Nat \ {0} /\ Len(Tail(s)) = Len(s) - 1
           /\ DOMAIN Tail(s) = 1 .. Len(s) - 1 /\ DOMAIN s = 1 .. Len(s)
           /\ \A i \in 1 .. Len(s) - 1 : i + 1 \in DOMAIN s /\ Tail(s)[i] = s[i + 1]
OBVIOUS

LEMMA StatementKinds ==
    /\ \A e \in Emails : Do("create", e) \in Statements /\ Do("saveUser", e) \in Statements
    /\ \A i \in Ids : /\ Do("expire", i) \in Statements /\ Do("accept", i) \in Statements
                      /\ Do("renew", i) \in Statements /\ Do("delete", i) \in Statements
    /\ \A t \in Nat : /\ Do("forgetAnswer", t) \in Statements
                      /\ \A a \in {"valid", "invalid"} : Do("keepAnswer", <<t, a>>) \in Statements
    /\ Do("count", Missing) \in Statements
    /\ \A n \in Nat : Do("saveRole", n) \in Statements
<1>1. \A e \in Emails : Do("create", e) \in Statements /\ Do("saveUser", e) \in Statements
    BY DEF Do, Statements
<1>2. \A i \in Ids : /\ Do("expire", i) \in Statements /\ Do("accept", i) \in Statements
                    /\ Do("renew", i) \in Statements /\ Do("delete", i) \in Statements
    BY DEF Do, Statements
<1>3. \A t \in Nat : /\ Do("forgetAnswer", t) \in Statements
                    /\ \A a \in {"valid", "invalid"} : Do("keepAnswer", <<t, a>>) \in Statements
    BY DEF Do, Statements
<1>4. Do("count", Missing) \in Statements
    BY DEF Do, Statements
<1>5. \A n \in Nat : Do("saveRole", n) \in Statements
    BY DEF Do, Statements
<1> QED
    BY <1>1, <1>2, <1>3, <1>4, <1>5

LEMMA StatementArgs ==
    ASSUME NEW s \in Statements
    PROVE  /\ s.what \in {"create", "saveUser"} => s.arg \in Emails
           /\ s.what \in {"expire", "accept", "renew", "delete"} => s.arg \in Ids
           /\ s.what = "saveRole" => s.arg \in Nat
BY DEF Statements

LEMMA InitInv == Init => Inv
<1> SUFFICES ASSUME Init PROVE Inv
    OBVIOUS
<1>1. TypeOK
  <2>1. calls \in [Slots -> Seq(Statements)]
      BY DEF Init, Idle
  <2> QED
      BY <2>1, FS_EmptySet DEF Init, TypeOK
<1>2. Fresh /\ AcceptedHave /\ \A c \in Slots : Orderly(calls[c])
    BY DEF Init, Fresh, AcceptedHave, Exists, Orderly, Idle
<1>3. OneCounting /\ CountDue
    BY DEF Init, OneCounting, CountDue, Counting, Idle
<1>4. CountKept
  <2>1. Vouched = {}
      BY DEF Init, Vouched, Known, Exists
  <2> QED
      BY <2>1, FS_EmptySet DEF Init, CountKept
<1> QED
    BY <1>1, <1>2, <1>3, <1>4 DEF Inv

\* What a count must not miss is an account.
LEMMA VouchedHave ==
    ASSUME Inv, NEW c \in Slots, NEW i \in Ids, Owed(c, i), calls[c] # Idle => calls[c][1].what # "saveUser"
    PROVE  invitations[i].email \in accounts
<1>1. CASE invitations[i].status = "accepted"
    BY <1>1 DEF Inv, AcceptedHave, Owed
<1>2. CASE \E d \in Slots : Accepting(calls[d], i) /\ (d = c \/ ~Counting(calls[d]))
  <2>1. PICK d \in Slots : Accepting(calls[d], i) /\ (d = c \/ ~Counting(calls[d]))
      BY <1>2
  <2>2. PICK k \in DOMAIN calls[d] : calls[d][k] = Do("accept", i)
      BY <2>1 DEF Accepting
  <2>3. calls[d] \in Seq(Statements) /\ 1 \in DOMAIN calls[d] /\ calls[d] # Idle
      BY <2>2 DEF Inv, TypeOK, Idle
  <2>4. calls[d][1].what # "saveUser"
      BY <2>1, <2>3 DEF Inv, Orderly, InOrder
  <2>5. HasAccount(calls[d], k) /\ calls[d][k].what = "accept" /\ calls[d][k].arg = i
      BY <2>2 DEF Inv, Orderly, Do
  <2>6. \A e : calls[d][1] # Do("saveUser", e)
      BY <2>4 DEF Do
  <2> QED
      BY <2>5, <2>6 DEF HasAccount, Owed
<1> QED
    BY <1>1, <1>2 DEF Owed

LEMMA VouchedFinite ==
    ASSUME Inv
    PROVE  /\ Vouched \subseteq accounts /\ IsFiniteSet(Vouched) /\ Cardinality(Vouched) \in Nat
           /\ \A c \in Slots : calls[c] # Idle /\ calls[c][1].what # "saveUser" =>
                /\ VouchedAfter(c) \subseteq accounts
                /\ IsFiniteSet(VouchedAfter(c)) /\ Cardinality(VouchedAfter(c)) \in Nat
<1>1. ASSUME NEW i \in Ids, Known(i) PROVE invitations[i].email \in accounts
  <2>1. CASE invitations[i].status = "accepted"
      BY <1>1, <2>1 DEF Inv, AcceptedHave, Known
  <2>2. CASE \E d \in Slots : Accepting(calls[d], i) /\ ~Counting(calls[d])
    <3>1. PICK d \in Slots : Accepting(calls[d], i) /\ ~Counting(calls[d])
        BY <2>2
    <3>2. Owed(d, i)
        BY <1>1, <3>1 DEF Owed, Known
    <3>3. calls[d] # Idle => calls[d][1].what # "saveUser"
      <4>1. calls[d] # Idle => 1 \in DOMAIN calls[d]
          BY DEF Inv, TypeOK, Idle
      <4> QED
          BY <3>1, <4>1 DEF Inv, Orderly, InOrder
    <3> QED
        BY <1>1, <3>2, <3>3, VouchedHave
  <2> QED
      BY <1>1, <2>1, <2>2 DEF Known
<1>2. Vouched \subseteq accounts
    BY <1>1 DEF Vouched
<1>3. \A c \in Slots : calls[c] # Idle /\ calls[c][1].what # "saveUser" => VouchedAfter(c) \subseteq accounts
    BY VouchedHave DEF VouchedAfter
<1>4. IsFiniteSet(accounts)
    BY DEF Inv, TypeOK
<1>5. \A S : S \subseteq accounts => IsFiniteSet(S) /\ Cardinality(S) \in Nat
    BY <1>4, FS_Subset, FS_CardinalityType
<1> QED
    BY <1>2, <1>3, <1>5

-----------------------------------------------------------------------------
(* What a step leaves as it was for the requests in flight.                *)

RowsStay ==
    /\ made \in Nat /\ made' \in Nat /\ made' >= made /\ accounts \subseteq accounts'
    /\ \A i \in Ids : i <= made /\ Exists(i)' => Exists(i) /\ invitations'[i].email = invitations[i].email

LEMMA OrderlyStays ==
    ASSUME NEW todo \in Seq(Statements), Orderly(todo), RowsStay
    PROVE  Orderly(todo)'
<1> SUFFICES ASSUME NEW k \in DOMAIN todo PROVE InOrder(todo, k)' /\ HasAccount(todo, k)'
    BY DEF Orderly
<1>1. InOrder(todo, k) /\ HasAccount(todo, k) /\ todo[k] \in Statements
    BY DEF Orderly
<1>2. InOrder(todo, k)'
    BY <1>1 DEF InOrder, Counting
<1>3. HasAccount(todo, k)'
  <2> SUFFICES ASSUME todo[k].what = "accept" PROVE HasAccount(todo, k)'
      BY DEF HasAccount
  <2>1. PICK i \in Ids : i = todo[k].arg
      BY <1>1, StatementArgs
  <2>2. i \in Int
      BY DEF Ids
  <2> QED
      BY <1>1, <2>1, <2>2 DEF HasAccount, RowsStay, Do
<1> QED
    BY <1>2, <1>3

\* The statements after the first, when that is not a count.
LEMMA RestIsOrderly ==
    ASSUME NEW todo \in Seq(Statements), todo # <<>>, Orderly(todo), RowsStay, NEW rest, rest = Tail(todo),
           Head(todo).what # "count",
           Head(todo).what = "saveUser" => Head(todo).arg \in accounts'
    PROVE  /\ Orderly(rest)' /\ (rest # <<>> => Head(rest).what # "saveRole")
           /\ \A i : Accepting(rest, i) => Accepting(todo, i)
           /\ Counting(rest) => Counting(todo)
           /\ Counting(todo) => Counting(rest) \/ Head(todo).what = "saveRole"
           /\ Head(todo).what = "saveRole" => ~Counting(rest)
           /\ Head(todo).what = "accept" => ~Counting(todo)
<1>1. /\ Head(todo) = todo[1] /\ Len(todo) \in Nat \ {0} /\ DOMAIN todo = 1 .. Len(todo)
      /\ DOMAIN rest = 1 .. Len(todo) - 1 /\ rest \in Seq(Statements)
      /\ \A k \in 1 .. Len(todo) - 1 : k + 1 \in DOMAIN todo /\ rest[k] = todo[k + 1]
      /\ \A k \in 2 .. Len(todo) : k - 1 \in DOMAIN rest /\ rest[k - 1] = todo[k]
    BY Rest
<1>2. Orderly(todo)'
    BY OrderlyStays
<1>3. Counting(rest) => Counting(todo)
    BY <1>1 DEF Counting
<1>4. Counting(todo) => Counting(rest) \/ Head(todo).what = "saveRole"
  <2> SUFFICES ASSUME NEW k \in DOMAIN todo, todo[k].what = "saveRole", k # 1 PROVE Counting(rest)
      BY <1>1 DEF Counting
  <2>1. k - 1 \in DOMAIN rest /\ rest[k - 1] = todo[k]
      BY <1>1
  <2> QED
      BY <2>1 DEF Counting
<1>5. \A i : Accepting(rest, i) => Accepting(todo, i)
    BY <1>1 DEF Accepting
<1>6. Head(todo).what = "saveRole" => ~Counting(rest)
  <2> SUFFICES ASSUME Head(todo).what = "saveRole", NEW k \in DOMAIN rest, rest[k].what = "saveRole"
               PROVE  FALSE
      BY DEF Counting
  <2>1. k + 1 \in DOMAIN todo /\ todo[k + 1].what = "saveRole" /\ k + 1 # 1 /\ 1 \in DOMAIN todo
      BY <1>1
  <2> QED
      BY <1>1, <2>1 DEF Orderly, InOrder
<1>7. Head(todo).what = "accept" => ~Counting(todo)
  <2> SUFFICES ASSUME Head(todo).what = "accept", NEW k \in DOMAIN todo, todo[k].what = "saveRole"
               PROVE  FALSE
      BY DEF Counting
  <2>1. InOrder(todo, k) /\ 1 \in DOMAIN todo /\ todo[1].what = "accept" /\ ~(1 > k)
      BY <1>1 DEF Orderly
  <2> QED
      BY <2>1 DEF InOrder
<1>8. rest # <<>> => Head(rest).what # "saveRole"
  <2> SUFFICES ASSUME rest # <<>> PROVE Head(rest).what # "saveRole"
      OBVIOUS
  <2>1. Head(rest) = rest[1] /\ 1 \in DOMAIN rest
      BY <1>1, Rest
  <2>2. 2 \in DOMAIN todo /\ rest[1] = todo[2] /\ InOrder(todo, 2)
      BY <1>1, <2>1 DEF Orderly
  <2>3. todo[2 - 1] = Head(todo)
      BY <1>1
  <2> QED
      BY <2>1, <2>2, <2>3 DEF InOrder
<1>9. ASSUME NEW k \in DOMAIN rest PROVE InOrder(rest, k)' /\ HasAccount(rest, k)'
  <2>1. /\ k \in 1 .. Len(todo) - 1 /\ k + 1 \in DOMAIN todo /\ rest[k] = todo[k + 1]
        /\ InOrder(todo, k + 1) /\ HasAccount(todo, k + 1)'
      BY <1>1, <1>2 DEF Orderly
  <2>2. rest[k].what # "saveUser"
      BY <2>1 DEF InOrder
  <2>3. rest[k].what = "count" => k + 1 \in DOMAIN rest /\ rest[k + 1].what = "saveRole"
    <3>1. (k + 1) + 1 \in DOMAIN todo => k + 1 \in DOMAIN rest /\ rest[k + 1] = todo[(k + 1) + 1]
        BY <1>1, <2>1
    <3> QED
        BY <2>1, <3>1 DEF InOrder
  <2>4. rest[k].what = "saveRole" =>
          /\ k = 1 \/ rest[k - 1].what = "count"
          /\ \A l \in DOMAIN rest : /\ rest[l].what = "saveRole" => l = k
                                    /\ rest[l].what = "accept" => l > k
    <3>1. k # 1 => rest[k - 1] = todo[(k + 1) - 1] /\ (k + 1) - 1 # 1
        BY <1>1, <2>1
    <3>2. \A l \in DOMAIN rest : l + 1 \in DOMAIN todo /\ rest[l] = todo[l + 1] /\ l \in Int
        BY <1>1
    <3> QED
        BY <2>1, <3>1, <3>2 DEF InOrder
  <2>5. HasAccount(rest, k)'
    <3> SUFFICES ASSUME rest[k].what = "accept" PROVE HasAccount(rest, k)'
        BY DEF HasAccount
    <3>1. \A e : todo[1] = Do("saveUser", e) => e \in accounts'
        BY <1>1 DEF Do
    <3> QED
        BY <2>1, <3>1 DEF HasAccount
  <2> QED
      BY <2>2, <2>3, <2>4, <2>5 DEF InOrder
<1>10. Orderly(rest)'
    BY <1>9 DEF Orderly
<1> QED
    BY <1>3, <1>4, <1>5, <1>6, <1>7, <1>8, <1>10

\* An invitation that is about to be accepted was made.
LEMMA AcceptingIsMade ==
    ASSUME Inv, NEW d \in Slots, NEW i \in Ids, Accepting(calls[d], i)
    PROVE  i <= made
<1>1. PICK k \in DOMAIN calls[d] : calls[d][k] = Do("accept", i)
    BY DEF Accepting
<1>2. HasAccount(calls[d], k) /\ calls[d][k].what = "accept" /\ calls[d][k].arg = i
    BY <1>1 DEF Inv, Orderly, Do
<1> QED
    BY <1>2 DEF HasAccount

\* A count that knows of every invitation that the next state wants known.
LEMMA CountSuffices ==
    ASSUME NEW T, NEW S, IsFiniteSet(S), T \subseteq S, NEW n \in Nat, n >= Cardinality(S)
    PROVE  n >= Cardinality(T)
BY FS_Subset, FS_CardinalityType

\* A step of request c that neither takes a count nor writes one.
LEMMA Moves ==
    ASSUME Inv, NEW c \in Slots, NEW rest \in Seq(Statements), calls' = [calls EXCEPT ![c] = rest],
           TypeOK', Fresh', AcceptedHave', RowsStay, userCount' = userCount,
           Orderly(rest)', rest # <<>> => Head(rest).what # "saveRole",
           \A i \in Ids : Accepting(rest, i) /\ ~Counting(rest) => Accepting(calls[c], i) /\ ~Counting(calls[c]),
           \A i \in Ids : Exists(i)' /\ invitations'[i].status = "accepted" =>
               /\ Exists(i) /\ i <= made
               /\ \/ invitations[i].status = "accepted"
                  \/ Accepting(calls[c], i) /\ ~Counting(calls[c]),
           ~overlapped' => ~overlapped,
           ~overlapped' /\ Counting(rest) /\ ~Counting(calls[c]) => \A d \in Slots : ~Counting(calls[d])
    PROVE  Inv'
<1>1. \A d \in Slots : calls'[d] = IF d = c THEN rest ELSE calls[d]
    BY DEF Inv, TypeOK
<1>2. \A d \in Slots : Orderly(calls[d])'
  <2> SUFFICES ASSUME NEW d \in Slots PROVE Orderly(calls[d])'
      OBVIOUS
  <2>1. PICK todo \in Seq(Statements) : todo = calls[d]
      BY DEF Inv, TypeOK
  <2>2. Orderly(todo)'
      BY <2>1, OrderlyStays DEF Inv
  <2> QED
      BY <1>1, <2>1, <2>2
<1>3. ASSUME ~overlapped' PROVE OneCounting' /\ CountKept' /\ CountDue'
  <2>1. OneCounting /\ CountKept /\ CountDue
      BY <1>3 DEF Inv
  <2>2. \A d \in Slots : Counting(calls[d])' <=> IF d = c THEN Counting(rest) ELSE Counting(calls[d])
      BY <1>1 DEF Counting
  <2>3. \A d \in Slots, i \in Ids :
           Accepting(calls[d], i)' <=> IF d = c THEN Accepting(rest, i) ELSE Accepting(calls[d], i)
      BY <1>1 DEF Accepting
  <2>4. OneCounting'
      BY <1>3, <2>1, <2>2 DEF OneCounting
  <2>5. ASSUME NEW i \in Ids, Known(i)'
        PROVE  Known(i) /\ invitations'[i].email = invitations[i].email
    <3>1. CASE invitations'[i].status = "accepted"
        BY <2>5, <3>1 DEF Known, RowsStay
    <3>2. CASE \E d \in Slots : Accepting(calls[d], i)' /\ ~Counting(calls[d])'
      <4>1. PICK d \in Slots : Accepting(calls[d], i)' /\ ~Counting(calls[d])'
          BY <3>2
      <4>2. Accepting(calls[d], i) /\ ~Counting(calls[d])
          BY <2>2, <2>3, <4>1
      <4> QED
          BY <2>5, <4>2, AcceptingIsMade DEF Known, RowsStay
    <3> QED
        BY <2>5, <3>1, <3>2 DEF Known
  <2>6. ASSUME NEW b \in Slots, b # c, NEW i \in Ids, Owed(b, i)'
        PROVE  Owed(b, i) /\ invitations'[i].email = invitations[i].email
    <3>1. CASE invitations'[i].status = "accepted"
        BY <2>6, <3>1 DEF Owed, RowsStay
    <3>2. CASE \E d \in Slots : Accepting(calls[d], i)' /\ (d = b \/ ~Counting(calls[d])')
      <4>1. PICK d \in Slots : Accepting(calls[d], i)' /\ (d = b \/ ~Counting(calls[d])')
          BY <3>2
      <4>2. Accepting(calls[d], i) /\ (d = b \/ ~Counting(calls[d]))
          BY <2>2, <2>3, <2>6, <4>1
      <4> QED
          BY <2>6, <4>2, AcceptingIsMade DEF Owed, RowsStay
    <3> QED
        BY <2>6, <3>1, <3>2 DEF Owed
  <2>7. CountKept'
    <3>1. Vouched' \subseteq Vouched
        BY <2>5 DEF Vouched
    <3>2. Cardinality(Vouched') = Cardinality(Vouched)' /\ userCount \in Nat
        BY DEF Inv, TypeOK
    <3> QED
        BY <2>1, <3>1, <3>2, VouchedFinite, CountSuffices DEF CountKept
  <2>8. CountDue'
    <3> SUFFICES ASSUME NEW b \in Slots, calls'[b] # Idle, Head(calls'[b]).what = "saveRole"
                 PROVE  Head(calls'[b]).arg >= Cardinality(VouchedAfter(b)')
        BY DEF CountDue
    <3>1. b # c /\ calls'[b] = calls[b]
        BY <1>1 DEF Idle
    <3>2. VouchedAfter(b)' \subseteq VouchedAfter(b)
        BY <2>6, <3>1 DEF VouchedAfter
    <3>3. /\ calls[b] \in Seq(Statements) /\ calls[b] # <<>>
          /\ Head(calls[b]) = calls[b][1] /\ Head(calls[b]) \in Statements
        BY <3>1, Rest DEF Inv, TypeOK, Idle
    <3>4. Head(calls[b]).arg \in Nat /\ Head(calls[b]).arg >= Cardinality(VouchedAfter(b))
        BY <2>1, <3>1, <3>3, StatementArgs DEF CountDue
    <3>5. IsFiniteSet(VouchedAfter(b))
        BY <3>1, <3>3, VouchedFinite
    <3> QED
        BY <3>1, <3>2, <3>4, <3>5, CountSuffices
  <2> QED
      BY <2>4, <2>7, <2>8
<1> QED
    BY <1>2, <1>3 DEF Inv

\* The same for a statement that is done with; a row that is updated keeps its
\* email, and is accepted by that statement alone.
LEMMA StatementDone ==
    ASSUME Inv, NEW c \in Slots, calls[c] # Idle, NEW rest, rest = Tail(calls[c]) \/ rest = Idle,
           calls' = [calls EXCEPT ![c] = rest],
           Head(calls[c]).what \notin {"count", "saveRole"},
           Head(calls[c]).what = "saveUser" => Head(calls[c]).arg \in accounts',
           invitations' \in [Ids -> InvitationRows \union {Missing}],
           made' \in Nat, issued' \in Nat, userCount' = userCount, faults' \in Nat,
           accounts' \in SUBSET Emails, IsFiniteSet(accounts'), overlapped' = overlapped,
           verified' \in [Tokens -> {"valid", "invalid", Missing}],
           RowsStay, Fresh',
           \A i \in Ids : Exists(i)' /\ invitations'[i].status = "accepted" =>
               /\ Exists(i) /\ i <= made
               /\ invitations[i].status = "accepted" \/ Head(calls[c]) = Do("accept", i)
    PROVE  Inv'
<1>1. PICK todo \in Seq(Statements) : todo = calls[c] /\ todo # <<>>
    BY DEF Inv, TypeOK, Idle
<1>2. /\ Head(todo) = todo[1] /\ 1 \in DOMAIN todo /\ Tail(todo) \in Seq(Statements)
    BY <1>1, Rest
<1>3. Orderly(todo)
    BY <1>1 DEF Inv
<1>4. PICK tail : tail = Tail(todo)
    OBVIOUS
<1>5. /\ Orderly(tail)' /\ (tail # <<>> => Head(tail).what # "saveRole")
      /\ \A i : Accepting(tail, i) => Accepting(todo, i)
      /\ Counting(tail) <=> Counting(todo)
      /\ Head(todo).what = "accept" => ~Counting(todo)
    BY <1>1, <1>3, <1>4, RestIsOrderly
<1>6. rest \in Seq(Statements) /\ (rest = tail \/ rest = <<>>)
  <2>1. Idle \in Seq(Statements) /\ Idle = <<>>
      BY DEF Idle
  <2> QED
      BY <1>1, <1>2, <1>4, <2>1
<1>7. TypeOK'
    BY <1>6 DEF Inv, TypeOK
<1>8. Orderly(rest)' /\ (rest # <<>> => Head(rest).what # "saveRole")
    BY <1>5, <1>6 DEF Orderly
<1>9. \A i \in Ids : Accepting(rest, i) /\ ~Counting(rest) => Accepting(calls[c], i) /\ ~Counting(calls[c])
    BY <1>1, <1>5, <1>6 DEF Accepting
<1>10. \A i \in Ids : Exists(i)' /\ invitations'[i].status = "accepted" =>
           /\ Exists(i) /\ i <= made
           /\ \/ invitations[i].status = "accepted"
              \/ Accepting(calls[c], i) /\ ~Counting(calls[c])
  <2>1. \A i : Head(todo) = Do("accept", i) => Accepting(todo, i) /\ ~Counting(todo)
      BY <1>2, <1>5 DEF Accepting, Do
  <2> QED
      BY <1>1, <2>1
<1>11. Counting(rest) => Counting(calls[c])
    BY <1>1, <1>5, <1>6 DEF Counting
<1>12. AcceptedHave'
  <2> SUFFICES ASSUME NEW i \in Ids, Exists(i)', invitations'[i].status = "accepted"
               PROVE  invitations'[i].email \in accounts'
      BY DEF AcceptedHave
  <2>1. Exists(i) /\ i <= made /\ invitations'[i].email = invitations[i].email
      BY DEF RowsStay
  <2>2. CASE invitations[i].status = "accepted"
      BY <2>1, <2>2 DEF RowsStay, Inv, AcceptedHave
  <2>3. CASE Head(todo) = Do("accept", i)
    <3>1. HasAccount(todo, 1) /\ todo[1].what = "accept" /\ todo[1].arg = i
        BY <1>2, <1>3, <2>3 DEF Orderly, Do
    <3>2. \A e : todo[1] # Do("saveUser", e)
        BY <3>1 DEF Do
    <3> QED
        BY <2>1, <3>1, <3>2 DEF HasAccount, RowsStay
  <2> QED
      BY <1>1, <2>2, <2>3
<1> QED
    BY <1>6, <1>7, <1>8, <1>9, <1>10, <1>11, <1>12, Moves

-----------------------------------------------------------------------------
(* The statements.                                                         *)

\* The row of an invitation is written again, or gone.
LEMMA RowWritten ==
    ASSUME Inv, NEW c \in Slots, calls[c] # Idle, NEW rest, rest = Tail(calls[c]) \/ rest = Idle,
           calls' = [calls EXCEPT ![c] = rest],
           Head(calls[c]).what \in {"expire", "accept", "renew", "delete"},
           NEW i \in Ids, Head(calls[c]).arg = i,
           NEW row \in InvitationRows \union {Missing},
           \/ invitations' = invitations
           \/ Exists(i) /\ invitations' = [invitations EXCEPT ![i] = row],
           row # Missing /\ Exists(i) =>
             /\ row.email = invitations[i].email
             /\ row.status = "accepted" =>
                  invitations[i].status = "accepted" \/ Head(calls[c]).what = "accept",
           issued' \in Nat, UNCHANGED <<made, accounts, userCount, verified, overlapped, faults>>
    PROVE  Inv'
<1>1. \A j \in Ids : invitations'[j] = invitations[j] \/ (j = i /\ invitations'[j] = row /\ Exists(i))
    BY DEF Inv, TypeOK
<1>2. invitations' \in [Ids -> InvitationRows \union {Missing}]
    BY DEF Inv, TypeOK
<1>3. RowsStay
    BY <1>1 DEF RowsStay, Exists, Inv, TypeOK
<1>4. Fresh'
    BY <1>1 DEF Fresh, Exists, Inv
<1>5. \A j \in Ids : Exists(j) => j <= made
  <2>1. \A j \in Ids : j \in Int
      BY DEF Ids
  <2> QED
      BY <2>1 DEF Inv, TypeOK, Fresh, Exists
<1>6. calls[c] \in Seq(Statements) /\ calls[c] # <<>> /\ Head(calls[c]) \in Statements
    BY Rest DEF Inv, TypeOK, Idle
<1>7. Head(calls[c]).what = "accept" => Head(calls[c]) = Do("accept", i)
    BY <1>6 DEF Statements, Do
<1>8. \A j \in Ids : Exists(j)' /\ invitations'[j].status = "accepted" =>
           /\ Exists(j) /\ j <= made
           /\ invitations[j].status = "accepted" \/ Head(calls[c]) = Do("accept", j)
    BY <1>1, <1>5, <1>7 DEF Exists
<1> QED
    BY <1>2, <1>3, <1>4, <1>8, StatementDone DEF Inv, TypeOK

\* What UpdateRow is about.
LEMMA Updating ==
    ASSUME Inv, NEW c \in Slots, NEW what \in {"expire", "accept", "renew", "delete"}, NEW row,
           UpdateRow(c, what, row)
    PROVE  /\ calls[c] # Idle /\ Head(calls[c]).what = what /\ Arg(c) \in Ids
           /\ \E rest : (rest = Tail(calls[c]) \/ rest = Idle) /\ calls' = [calls EXCEPT ![c] = rest]
           /\ \/ ~Exists(Arg(c)) /\ invitations' = invitations
              \/ /\ Exists(Arg(c)) /\ invitations[Arg(c)] \in InvitationRows
                 /\ invitations' = [invitations EXCEPT ![Arg(c)] = row]
<1>1. calls[c] # Idle /\ Head(calls[c]).what = what
    BY DEF UpdateRow, Now
<1>2. calls[c] \in Seq(Statements) /\ calls[c] # <<>> /\ Head(calls[c]) \in Statements
    BY <1>1, Rest DEF Inv, TypeOK, Idle
<1>3. Arg(c) \in Ids
    BY <1>1, <1>2, StatementArgs DEF Arg
<1>4. \E rest : (rest = Tail(calls[c]) \/ rest = Idle) /\ calls' = [calls EXCEPT ![c] = rest]
    BY DEF UpdateRow, GoOn, Refused
<1> QED
    BY <1>1, <1>3, <1>4 DEF UpdateRow, Exists, Inv, TypeOK

LEMMA ExpireRowKeeps == ASSUME Inv, NEW c \in Slots, expireRow(c) PROVE Inv'
<1>1. PICK i, row : i = Arg(c) /\ row = [invitations[i] EXCEPT !.status = "expired"]
    OBVIOUS
<1>2. UpdateRow(c, "expire", row)
    BY <1>1 DEF expireRow, Row
<1>3. /\ calls[c] # Idle /\ Head(calls[c]).what = "expire" /\ i \in Ids
      /\ \E rest : (rest = Tail(calls[c]) \/ rest = Idle) /\ calls' = [calls EXCEPT ![c] = rest]
      /\ \/ ~Exists(i) /\ invitations' = invitations
         \/ /\ Exists(i) /\ invitations[i] \in InvitationRows
            /\ invitations' = [invitations EXCEPT ![i] = row]
    BY <1>1, <1>2, Updating
<1>4. invitations[i] \in InvitationRows =>
        row \in InvitationRows /\ row.email = invitations[i].email /\ row.status = "expired"
    BY <1>1 DEF InvitationRows
<1>5. CASE Exists(i)
    BY <1>1, <1>3, <1>4, <1>5, RowWritten DEF expireRow, Arg, Inv, TypeOK
<1>6. CASE ~Exists(i)
    BY <1>1, <1>3, <1>6, RowWritten DEF expireRow, Arg, Inv, TypeOK
<1> QED
    BY <1>5, <1>6

LEMMA AcceptKeeps == ASSUME Inv, NEW c \in Slots, accept(c) PROVE Inv'
<1>1. PICK i, row : i = Arg(c) /\ row = [invitations[i] EXCEPT !.status = "accepted"]
    OBVIOUS
<1>2. UpdateRow(c, "accept", row)
    BY <1>1 DEF accept, Row
<1>3. /\ calls[c] # Idle /\ Head(calls[c]).what = "accept" /\ i \in Ids
      /\ \E rest : (rest = Tail(calls[c]) \/ rest = Idle) /\ calls' = [calls EXCEPT ![c] = rest]
      /\ \/ ~Exists(i) /\ invitations' = invitations
         \/ /\ Exists(i) /\ invitations[i] \in InvitationRows
            /\ invitations' = [invitations EXCEPT ![i] = row]
    BY <1>1, <1>2, Updating
<1>4. invitations[i] \in InvitationRows => row \in InvitationRows /\ row.email = invitations[i].email
    BY <1>1 DEF InvitationRows
<1>5. CASE Exists(i)
    BY <1>1, <1>3, <1>4, <1>5, RowWritten DEF accept, Arg, Inv, TypeOK
<1>6. CASE ~Exists(i)
    BY <1>1, <1>3, <1>6, RowWritten DEF accept, Arg, Inv, TypeOK
<1> QED
    BY <1>5, <1>6

LEMMA RenewKeeps == ASSUME Inv, NEW c \in Slots, renew(c) PROVE Inv'
<1>1. PICK i, n, row : i = Arg(c) /\ n = issued + 1 /\ row = [invitations[i] EXCEPT !.token = n, !.late = FALSE]
    OBVIOUS
<1>2. UpdateRow(c, "renew", row) /\ n \in Nat /\ issued' = n
    BY <1>1 DEF renew, Row, Inv, TypeOK
<1>3. /\ calls[c] # Idle /\ Head(calls[c]).what = "renew" /\ i \in Ids
      /\ \E rest : (rest = Tail(calls[c]) \/ rest = Idle) /\ calls' = [calls EXCEPT ![c] = rest]
      /\ \/ ~Exists(i) /\ invitations' = invitations
         \/ /\ Exists(i) /\ invitations[i] \in InvitationRows
            /\ invitations' = [invitations EXCEPT ![i] = row]
    BY <1>1, <1>2, Updating
<1>4. invitations[i] \in InvitationRows =>
        /\ row \in InvitationRows /\ row.email = invitations[i].email
        /\ row.status = invitations[i].status
    BY <1>1, <1>2 DEF InvitationRows
<1>5. CASE Exists(i)
  <2>1. PICK rest : (rest = Tail(calls[c]) \/ rest = Idle) /\ calls' = [calls EXCEPT ![c] = rest]
      BY <1>3
  <2>2. /\ row \in InvitationRows /\ row.email = invitations[i].email
        /\ row.status = invitations[i].status /\ invitations' = [invitations EXCEPT ![i] = row]
      BY <1>3, <1>4, <1>5
  <2>3. issued' \in Nat /\ UNCHANGED <<made, accounts, userCount, verified, overlapped, faults>>
      BY <1>2 DEF renew
  <2>4. Head(calls[c]).arg = i
      BY <1>1 DEF Arg
  <2> QED
      BY <1>3, <1>5, <2>1, <2>2, <2>3, <2>4, RowWritten
<1>6. CASE ~Exists(i)
    BY <1>1, <1>2, <1>3, <1>6, RowWritten DEF renew, Arg
<1> QED
    BY <1>5, <1>6

LEMMA DeleteRowKeeps == ASSUME Inv, NEW c \in Slots, deleteRow(c) PROVE Inv'
<1>1. PICK i : i = Arg(c)
    OBVIOUS
<1>2. /\ calls[c] # Idle /\ Head(calls[c]).what = "delete" /\ i \in Ids
      /\ \E rest : (rest = Tail(calls[c]) \/ rest = Idle) /\ calls' = [calls EXCEPT ![c] = rest]
      /\ invitations' = invitations \/ (Exists(i) /\ invitations' = [invitations EXCEPT ![i] = Missing])
    BY <1>1, Updating DEF deleteRow
<1> QED
    BY <1>1, <1>2, RowWritten DEF deleteRow, Arg, Inv, TypeOK

LEMMA CreateKeeps == ASSUME Inv, NEW c \in Slots, create(c) PROVE Inv'
<1>1. PICK first : first = Head(calls[c])
    OBVIOUS
<1>2. /\ calls[c] # Idle /\ first.what = "create" /\ first \in Statements
      /\ calls' = [calls EXCEPT ![c] = Tail(calls[c])]
    BY <1>1, Rest DEF create, Now, GoOn, Idle, Inv, TypeOK
<1>3. first.arg \in Emails
    BY <1>2, StatementArgs
<1>4. PICK m \in Nat, n \in Nat : m = made /\ n = issued
    BY DEF Inv, TypeOK
<1>5. PICK row : row = [email |-> first.arg, token |-> n + 1, status |-> "pending", late |-> FALSE]
    OBVIOUS
<1>6. row \in InvitationRows /\ row.status = "pending"
    BY <1>3, <1>5 DEF InvitationRows
<1>7. invitations' = [invitations EXCEPT ![m + 1] = row] /\ made' = m + 1 /\ issued' = n + 1
    BY <1>1, <1>4, <1>5 DEF create, Arg
<1>8. /\ invitations' \in [Ids -> InvitationRows \union {Missing}]
      /\ \A i \in Ids : invitations'[i] = IF i = m + 1 THEN row ELSE invitations[i]
  <2>1. invitations \in [Ids -> InvitationRows \union {Missing}]
      BY DEF Inv, TypeOK
  <2> QED
      BY <1>6, <1>7, <2>1
<1>9. \A i \in Ids : i \in Int
    BY DEF Ids
<1>10. RowsStay
    BY <1>4, <1>7, <1>8, <1>9 DEF RowsStay, Exists, create
<1>11. Fresh'
    BY <1>4, <1>7, <1>8, <1>9 DEF Fresh, Inv
<1>12. \A i \in Ids : Exists(i)' /\ invitations'[i].status = "accepted" =>
           Exists(i) /\ i <= made /\ invitations[i].status = "accepted"
    BY <1>4, <1>6, <1>8, <1>9 DEF Exists, Fresh, Inv
<1>13. made' \in Nat /\ issued' \in Nat
    BY <1>4, <1>7
<1>14. /\ UNCHANGED <<userCount, faults, accounts, overlapped, verified>> /\ faults \in Nat
       /\ accounts \in SUBSET Emails /\ IsFiniteSet(accounts)
       /\ verified \in [Tokens -> {"valid", "invalid", Missing}]
    BY DEF create, Inv, TypeOK
<1> QED
    BY <1>1, <1>2, <1>8, <1>10, <1>11, <1>12, <1>13, <1>14, StatementDone

\* Statements that touch no invitation.
LEMMA InvitationsSame ==
    ASSUME Inv, UNCHANGED <<invitations, made>>, accounts \subseteq accounts'
    PROVE  /\ RowsStay /\ Fresh' /\ invitations' \in [Ids -> InvitationRows \union {Missing}]
           /\ \A i \in Ids : Exists(i)' /\ invitations'[i].status = "accepted" =>
                Exists(i) /\ i <= made /\ invitations[i].status = "accepted"
<1>1. \A i \in Ids : i \in Int
    BY DEF Ids
<1> QED
    BY <1>1 DEF Inv, TypeOK, RowsStay, Fresh, Exists

LEMMA SaveUserKeeps == ASSUME Inv, NEW c \in Slots, saveUser(c) PROVE Inv'
<1>1. PICK first : first = Head(calls[c])
    OBVIOUS
<1>2. calls[c] # Idle /\ first.what = "saveUser" /\ first \in Statements
    BY <1>1, Rest DEF saveUser, Now, Idle, Inv, TypeOK
<1>3. first.arg \in Emails
    BY <1>2, StatementArgs
<1>4. accounts' = accounts \union {first.arg} /\ IsFiniteSet(accounts')
    BY <1>1, FS_AddElement DEF saveUser, Arg, Inv, TypeOK
<1>5. PICK rest : (rest = Tail(calls[c]) \/ rest = Idle) /\ calls' = [calls EXCEPT ![c] = rest]
    BY DEF saveUser, GoOn, Refused
<1> QED
    BY <1>1, <1>2, <1>3, <1>4, <1>5, StatementDone, InvitationsSame DEF saveUser, Inv, TypeOK

LEMMA KeepAnswerKeeps == ASSUME Inv, NEW c \in Slots, keepAnswer(c) PROVE Inv'
<1>1. PICK first : first = Head(calls[c])
    OBVIOUS
<1>2. /\ calls[c] # Idle /\ first.what = "keepAnswer" /\ first \in Statements
      /\ calls' = [calls EXCEPT ![c] = Tail(calls[c])]
    BY <1>1, Rest DEF keepAnswer, Now, GoOn, Idle, Inv, TypeOK
<1>3. PICK t \in Nat, a \in {"valid", "invalid"} : first.arg[1] = t /\ first.arg[2] = a
    BY <1>2 DEF Statements
<1>4. verified' \in [Tokens -> {"valid", "invalid", Missing}]
    BY <1>1, <1>3 DEF keepAnswer, Arg, Inv, TypeOK
<1> QED
    BY <1>1, <1>2, <1>4, StatementDone, InvitationsSame DEF keepAnswer, tables, Inv, TypeOK

LEMMA ForgetAnswerKeeps == ASSUME Inv, NEW c \in Slots, forgetAnswer(c) PROVE Inv'
<1>1. /\ calls[c] # Idle /\ Head(calls[c]).what = "forgetAnswer"
      /\ calls' = [calls EXCEPT ![c] = Tail(calls[c])]
    BY DEF forgetAnswer, Now, GoOn
<1>2. verified' \in [Tokens -> {"valid", "invalid", Missing}]
    BY DEF forgetAnswer, Inv, TypeOK
<1>3. faults' \in Nat
    BY DEF forgetAnswer, Inv, TypeOK
<1> QED
    BY <1>1, <1>2, <1>3, StatementDone, InvitationsSame DEF forgetAnswer, tables, Inv, TypeOK

\* The count is of all accounts, so that it misses none.
LEMMA CountUsersKeeps == ASSUME Inv, NEW c \in Slots, countUsers(c) PROVE Inv'
<1>1. PICK todo \in Seq(Statements) : todo = calls[c] /\ todo # <<>>
    BY DEF countUsers, Now, Idle, Inv, TypeOK
<1>2. PICK tail, n : tail = Tail(todo) /\ n = Cardinality(accounts)
    OBVIOUS
<1>3. PICK rest : rest = [tail EXCEPT ![1] = Do("saveRole", n)]
    OBVIOUS
<1>4. calls' = [calls EXCEPT ![c] = rest]
    BY <1>1, <1>2, <1>3 DEF countUsers
<1>5. n \in Nat
    BY <1>2, FS_CardinalityType DEF Inv, TypeOK
<1>6. /\ Len(todo) \in Nat \ {0} /\ DOMAIN todo = 1 .. Len(todo) /\ Head(todo) = todo[1]
      /\ tail \in Seq(Statements) /\ Len(tail) = Len(todo) - 1 /\ DOMAIN tail = 1 .. Len(todo) - 1
      /\ \A k \in 1 .. Len(todo) - 1 : k + 1 \in DOMAIN todo /\ tail[k] = todo[k + 1]
    BY <1>1, <1>2, Rest
<1>7. Orderly(todo) /\ todo[1].what = "count"
    BY <1>1, <1>6 DEF countUsers, Now, Inv
<1>8. 2 \in DOMAIN todo /\ todo[2].what = "saveRole"
  <2>1. InOrder(todo, 1) /\ 1 + 1 = 2
      BY <1>6, <1>7 DEF Orderly
  <2> QED
      BY <1>7, <2>1 DEF InOrder
<1>9. PICK new \in Statements : new = Do("saveRole", n) /\ new.what = "saveRole" /\ new.arg = n
    BY <1>5, StatementKinds DEF Do
<1>10. /\ rest \in Seq(Statements) /\ DOMAIN rest = 1 .. Len(todo) - 1 /\ 1 \in DOMAIN rest
       /\ rest[1] = new /\ \A k \in DOMAIN rest : k # 1 => rest[k] = todo[k + 1]
       /\ rest # <<>> /\ Head(rest) = new
    BY <1>3, <1>6, <1>8, <1>9
<1>11. \A k \in DOMAIN rest : k # 1 => /\ k + 1 \in DOMAIN todo /\ InOrder(todo, k + 1)
                                       /\ HasAccount(todo, k + 1) /\ todo[k + 1].what # "saveRole"
  <2> SUFFICES ASSUME NEW k \in DOMAIN rest, k # 1
               PROVE  /\ k + 1 \in DOMAIN todo /\ InOrder(todo, k + 1)
                      /\ HasAccount(todo, k + 1) /\ todo[k + 1].what # "saveRole"
      OBVIOUS
  <2>1. k + 1 \in DOMAIN todo /\ k + 1 # 2
      BY <1>6, <1>10
  <2>2. InOrder(todo, k + 1) /\ HasAccount(todo, k + 1) /\ InOrder(todo, 2)
      BY <1>7, <1>8, <2>1 DEF Orderly
  <2>3. todo[k + 1].what # "saveRole"
      BY <1>8, <2>1, <2>2 DEF InOrder
  <2> QED
      BY <2>1, <2>2, <2>3
<1>12. UNCHANGED <<invitations, made, accounts>>
    BY DEF countUsers, tables
<1>13. Orderly(rest)'
  <2> SUFFICES ASSUME NEW k \in DOMAIN rest PROVE InOrder(rest, k)' /\ HasAccount(rest, k)'
      BY DEF Orderly
  <2>1. CASE k = 1
    <3>1. \A l \in DOMAIN rest : l # 1 => rest[l].what # "saveRole" /\ l > 1
        BY <1>6, <1>10, <1>11
    <3> QED
        BY <1>9, <1>10, <2>1, <3>1 DEF InOrder, HasAccount
  <2>2. CASE k # 1
    <3>1. /\ rest[k] = todo[k + 1] /\ k + 1 \in DOMAIN todo /\ k + 1 # 1
          /\ InOrder(todo, k + 1) /\ HasAccount(todo, k + 1) /\ todo[k + 1].what # "saveRole"
        BY <1>10, <1>11, <2>2
    <3>2. rest[k].what # "count"
      <4> SUFFICES ASSUME todo[k + 1].what = "count" PROVE FALSE
          BY <3>1
      <4>1. (k + 1) + 1 \in DOMAIN todo /\ todo[(k + 1) + 1].what = "saveRole"
          BY <3>1 DEF InOrder
      <4>2. k + 1 \in DOMAIN rest /\ k + 1 # 1
          BY <1>6, <1>10, <2>2, <4>1
      <4> QED
          BY <1>11, <4>1, <4>2
    <3>3. \A e : todo[1] # Do("saveUser", e)
        BY <1>7 DEF Do
    <3> QED
        BY <1>12, <3>1, <3>2, <3>3 DEF InOrder, HasAccount, Exists
  <2> QED
      BY <2>1, <2>2
<1>14. Counting(todo) /\ Counting(rest)
    BY <1>8, <1>9, <1>10 DEF Counting
<1>15. \A d \in Slots : calls'[d] = IF d = c THEN rest ELSE calls[d]
    BY <1>4 DEF Inv, TypeOK
<1>16. TypeOK' /\ Fresh' /\ AcceptedHave'
    BY <1>4, <1>10, <1>12 DEF countUsers, tables, Inv, TypeOK, Fresh, AcceptedHave, Exists
<1>17. \A d \in Slots : Orderly(calls[d])'
    BY <1>12, <1>13, <1>15 DEF Inv, Orderly, InOrder, Counting, HasAccount, Exists
<1>18. ASSUME ~overlapped' PROVE OneCounting' /\ CountKept' /\ CountDue'
  <2>1. OneCounting /\ CountKept
      BY <1>18 DEF countUsers, Inv
  <2>2. OneCounting'
      BY <1>1, <1>14, <1>15, <2>1 DEF OneCounting, Counting
  <2>3. \A i \in Ids : Known(i)' => Known(i)
      BY <1>12, <1>14, <1>15 DEF Known, Exists, Accepting, Counting
  <2>4. CountKept'
    <3>1. Vouched' \subseteq Vouched
        BY <1>12, <2>3 DEF Vouched
    <3>2. userCount' = userCount /\ userCount \in Nat
        BY DEF countUsers, tables, Inv, TypeOK
    <3> QED
        BY <2>1, <3>1, <3>2, VouchedFinite, CountSuffices DEF CountKept
  <2>5. CountDue'
    <3> SUFFICES ASSUME NEW b \in Slots, calls'[b] # Idle, Head(calls'[b]).what = "saveRole"
                 PROVE  Head(calls'[b]).arg >= Cardinality(VouchedAfter(b)')
        BY DEF CountDue
    <3>1. b = c
      <4> SUFFICES ASSUME b # c PROVE FALSE
          OBVIOUS
      <4>1. calls'[b] = calls[b] /\ calls[b] \in Seq(Statements) /\ calls[b] # <<>>
          BY <1>15 DEF Inv, TypeOK, Idle
      <4>2. Counting(calls[b])
          BY <4>1, Rest DEF Counting
      <4> QED
          BY <1>1, <1>14, <2>1, <4>2 DEF OneCounting
    <3>2. Head(calls'[b]).arg = n
        BY <1>9, <1>10, <1>15, <3>1
    <3>3. ASSUME NEW i \in Ids, Owed(c, i)' PROVE invitations'[i].email \in accounts
      <4>1. CASE invitations'[i].status = "accepted"
          BY <1>12, <1>16, <3>3, <4>1 DEF Owed, AcceptedHave
      <4>2. CASE Accepting(calls[c], i)'
        <5>1. PICK k \in DOMAIN rest : rest[k] = Do("accept", i)
            BY <1>15, <4>2 DEF Accepting
        <5>2. HasAccount(rest, k)' /\ rest[k].what = "accept" /\ rest[k].arg = i
            BY <1>13, <5>1 DEF Orderly, Do
        <5>3. \A e : rest[1] # Do("saveUser", e)
            BY <1>9, <1>10 DEF Do
        <5> QED
            BY <1>12, <3>3, <5>2, <5>3 DEF HasAccount, Owed
      <4>3. CASE \E d \in Slots : d # c /\ Accepting(calls[d], i)' /\ ~Counting(calls[d])'
        <5>1. Known(i)
            BY <1>12, <1>15, <3>3, <4>3 DEF Known, Owed, Exists, Accepting, Counting
        <5>2. invitations[i].email \in Emails
            BY <5>1 DEF Known, Exists, Inv, TypeOK, InvitationRows
        <5>3. invitations[i].email \in Vouched
            BY <5>1, <5>2 DEF Vouched
        <5> QED
            BY <1>12, <5>3, VouchedFinite
      <4> QED
          BY <3>3, <4>1, <4>2, <4>3 DEF Owed
    <3>4. VouchedAfter(c)' \subseteq accounts
        BY <3>3 DEF VouchedAfter
    <3>5. IsFiniteSet(accounts) /\ n >= Cardinality(accounts)
        BY <1>2, <1>5 DEF Inv, TypeOK
    <3>6. n >= Cardinality(VouchedAfter(c)')
        BY <1>5, <3>4, <3>5, CountSuffices
    <3> QED
        BY <3>1, <3>2, <3>6
  <2> QED
      BY <2>2, <2>4, <2>5
<1> QED
    BY <1>16, <1>17, <1>18 DEF Inv

\* What is written was counted with the email of this request.
LEMMA SaveRoleKeeps == ASSUME Inv, NEW c \in Slots, saveRole(c) PROVE Inv'
<1>1. PICK todo \in Seq(Statements) : todo = calls[c] /\ todo # <<>>
    BY DEF saveRole, Now, Idle, Inv, TypeOK
<1>2. PICK rest : rest = Tail(todo)
    OBVIOUS
<1>3. /\ Head(todo) = todo[1] /\ 1 \in DOMAIN todo /\ rest \in Seq(Statements)
      /\ Head(todo) \in Statements /\ Head(todo).what = "saveRole"
    BY <1>1, <1>2, Rest DEF saveRole, Now
<1>4. calls' = [calls EXCEPT ![c] = rest]
    BY <1>1, <1>2 DEF saveRole, GoOn
<1>5. PICK n \in Nat : n = Head(todo).arg /\ userCount' = n
    BY <1>1, <1>3, StatementArgs DEF saveRole, Arg
<1>6. UNCHANGED <<invitations, made, issued, accounts, verified, overlapped, faults>>
    BY DEF saveRole
<1>7. /\ RowsStay /\ Fresh'
    BY <1>6, InvitationsSame
<1>8. /\ Orderly(rest)' /\ (rest # <<>> => Head(rest).what # "saveRole")
      /\ \A i : Accepting(rest, i) => Accepting(todo, i)
      /\ ~Counting(rest) /\ Counting(todo)
  <2>1. Orderly(todo)
      BY <1>1 DEF Inv
  <2> QED
      BY <1>1, <1>2, <1>3, <1>7, <2>1, RestIsOrderly DEF Counting
<1>9. \A d \in Slots : calls'[d] = IF d = c THEN rest ELSE calls[d]
    BY <1>4 DEF Inv, TypeOK
<1>10. TypeOK' /\ AcceptedHave'
    BY <1>3, <1>4, <1>5, <1>6 DEF Inv, TypeOK, AcceptedHave, Exists
<1>11. \A d \in Slots : Orderly(calls[d])'
    BY <1>6, <1>8, <1>9 DEF Inv, Orderly, InOrder, Counting, HasAccount, Exists
<1>12. ASSUME ~overlapped' PROVE OneCounting' /\ CountKept' /\ CountDue'
  <2>1. OneCounting /\ CountDue
      BY <1>6, <1>12 DEF Inv
  <2>2. \A d \in Slots : ~Counting(calls[d])'
      BY <1>1, <1>8, <1>9, <2>1 DEF OneCounting, Counting
  <2>3. OneCounting'
      BY <2>2 DEF OneCounting
  <2>4. CountKept'
    <3>1. \A i \in Ids : Known(i)' => Owed(c, i)
        BY <1>1, <1>6, <1>8, <1>9 DEF Known, Owed, Exists, Accepting, Counting
    <3>2. Vouched' \subseteq VouchedAfter(c)
        BY <1>6, <3>1 DEF Vouched, VouchedAfter
    <3>3. n >= Cardinality(VouchedAfter(c))
        BY <1>1, <1>3, <1>5, <2>1 DEF CountDue, Idle
    <3>4. IsFiniteSet(VouchedAfter(c))
        BY <1>1, <1>3, VouchedFinite DEF Idle
    <3>5. n >= Cardinality(Vouched')
        BY <3>2, <3>3, <3>4, CountSuffices
    <3> QED
        BY <1>5, <3>5 DEF CountKept
  <2>5. CountDue'
    <3> SUFFICES ASSUME NEW b \in Slots, calls'[b] # Idle, Head(calls'[b]).what = "saveRole"
                 PROVE  FALSE
        BY DEF CountDue
    <3>1. calls'[b] \in Seq(Statements) /\ calls'[b] # <<>>
        BY <1>10 DEF TypeOK, Idle
    <3> QED
        BY <2>2, <3>1, Rest DEF Counting
  <2> QED
      BY <2>3, <2>4, <2>5
<1> QED
    BY <1>7, <1>10, <1>11, <1>12 DEF Inv

LEMMA StatementKeeps == ASSUME Inv, NEW c \in Slots, Statement(c) PROVE Inv'
BY CreateKeeps, ExpireRowKeeps, AcceptKeeps, RenewKeeps, DeleteRowKeeps, SaveUserKeeps,
   CountUsersKeeps, SaveRoleKeeps, KeepAnswerKeeps, ForgetAnswerKeeps
DEF Statement

-----------------------------------------------------------------------------
(* The requests.                                                           *)

LEMMA BeginKeeps ==
    ASSUME Inv, NEW c \in Slots, NEW todo \in Seq(Statements), Begin(c, todo), Orderly(todo),
           UNCHANGED <<tables, verified>>, faults' \in Nat, overlapped' \in BOOLEAN,
           todo # <<>> => Head(todo).what # "saveRole",
           \A i \in Ids : Accepting(todo, i) => Counting(todo),
           ~overlapped' => ~overlapped,
           ~overlapped' /\ Counting(todo) => \A d \in Slots : ~Counting(calls[d])
    PROVE  Inv'
<1>1. RowsStay /\ Fresh'
    BY InvitationsSame DEF tables
<1>2. TypeOK' /\ AcceptedHave'
    BY DEF Begin, tables, Inv, TypeOK, AcceptedHave, Exists
<1>3. Orderly(todo)'
    BY <1>1, OrderlyStays
<1>4. \A i \in Ids : Exists(i)' /\ invitations'[i].status = "accepted" =>
          Exists(i) /\ i <= made /\ invitations[i].status = "accepted"
    BY InvitationsSame DEF tables
<1> QED
    BY <1>1, <1>2, <1>3, <1>4, Moves DEF Begin, tables

\* Statements that have nothing to do with accounts.
Simple == {"create", "expire", "renew", "delete", "keepAnswer", "forgetAnswer"}

LEMMA SimpleBegins ==
    ASSUME Inv, NEW c \in Slots, NEW todo \in Seq(Statements), Begin(c, todo),
           \A k \in DOMAIN todo : todo[k].what \in Simple,
           UNCHANGED <<tables, verified>>, faults' \in Nat, overlapped' \in BOOLEAN,
           ~overlapped' => ~overlapped
    PROVE  Inv'
<1>1. Orderly(todo)
    BY DEF Simple, Orderly, InOrder, HasAccount
<1>2. \A i \in Ids : ~Accepting(todo, i)
    BY DEF Simple, Accepting, Do
<1>3. ~Counting(todo)
    BY DEF Simple, Counting
<1>4. todo # <<>> => Head(todo).what # "saveRole"
    BY <1>3, Rest DEF Counting
<1> QED
    BY <1>1, <1>2, <1>3, <1>4, BeginKeeps

\* Pending counts requests, of which there are finitely many.
LEMMA NonePending ==
    ASSUME Inv, ~(Pending("saveRole") > 0)
    PROVE  \A d \in Slots : ~Counting(calls[d])
<1> DEFINE P == {c \in Slots : \E i \in DOMAIN calls[c] : calls[c][i].what = "saveRole"}
<1>1. IsFiniteSet(P)
    BY InvitationsAssumption, FS_Subset
<1>2. Cardinality(P) \in Nat /\ (Cardinality(P) = 0 <=> P = {})
    BY <1>1, FS_CardinalityType, FS_EmptySet
<1>3. P = {}
    BY <1>2 DEF Pending
<1> QED
    BY <1>3 DEF Counting

LEMMA InviteAdminBegins == ASSUME Inv, NEW c \in Slots, NEW e \in Emails, inviteAdmin(c, e) PROVE Inv'
<1>1. PICK todo : todo = <<Do("create", e)>>
    OBVIOUS
<1>2. PICK first \in Statements : first = Do("create", e) /\ first.what = "create"
    BY StatementKinds DEF Do
<1>3. todo \in Seq(Statements) /\ \A k \in DOMAIN todo : todo[k].what \in Simple
    BY <1>1, <1>2 DEF Simple
<1> QED
    BY <1>1, <1>3, SimpleBegins DEF inviteAdmin, Inv, TypeOK

LEMMA CancelInvitationBegins == ASSUME Inv, NEW c \in Slots, NEW i \in Ids, cancelInvitation(c, i) PROVE Inv'
<1>1. PICK todo : todo = <<Do("delete", i)>>
    OBVIOUS
<1>2. PICK first \in Statements : first = Do("delete", i) /\ first.what = "delete"
    BY StatementKinds DEF Do
<1>3. todo \in Seq(Statements) /\ \A k \in DOMAIN todo : todo[k].what \in Simple
    BY <1>1, <1>2 DEF Simple
<1> QED
    BY <1>1, <1>3, SimpleBegins DEF cancelInvitation, Inv, TypeOK

LEMMA ResendInvitationBegins == ASSUME Inv, NEW c \in Slots, NEW i \in Ids, resendInvitation(c, i) PROVE Inv'
<1>1. PICK t \in Nat : t = invitations[i].token
    BY DEF resendInvitation, Exists, Inv, TypeOK, InvitationRows
<1>2. PICK first \in Statements, second \in Statements :
         /\ first = Do("renew", i) /\ first.what = "renew"
         /\ second = Do("forgetAnswer", t) /\ second.what = "forgetAnswer"
    BY StatementKinds DEF Do
<1>3. PICK todo : todo = <<first, second>>
    OBVIOUS
<1>4. todo \in Seq(Statements) /\ \A k \in DOMAIN todo : todo[k].what \in Simple
    BY <1>2, <1>3 DEF Simple
<1> QED
    BY <1>1, <1>2, <1>3, <1>4, SimpleBegins DEF resendInvitation, Inv, TypeOK

LEMMA MarkExpiredIs ==
    ASSUME NEW i \in Ids
    PROVE  MarkExpired(i) = <<>> \/ MarkExpired(i) = <<Do("expire", i)>>
BY DEF MarkExpired

LEMMA JoinOne ==
    ASSUME NEW a, NEW b
    PROVE  <<>> \o <<b>> = <<b>> /\ <<a>> \o <<b>> = <<a, b>>
<1> DEFINE S == {a, b}
<1>1. <<>> \in Seq(S) /\ <<a>> \in Seq(S) /\ <<b>> \in Seq(S) /\ <<a, b>> \in Seq(S)
    OBVIOUS
<1>2. <<>> \o <<b>> = <<b>>
  <2>1. <<>> \o <<b>> \in Seq(S) /\ Len(<<>> \o <<b>>) = 1 /\ (<<>> \o <<b>>)[1] = b
      BY <1>1
  <2>2. \A i \in 1 .. 1 : (<<>> \o <<b>>)[i] = <<b>>[i]
      BY <2>1
  <2> QED
      BY <2>1, <2>2, <1>1, SeqEqual
<1>3. <<a>> \o <<b>> = <<a, b>>
  <2>1. /\ <<a>> \o <<b>> \in Seq(S) /\ Len(<<a>> \o <<b>>) = 2
        /\ \A i \in 1 .. 2 : (<<a>> \o <<b>>)[i] = <<a, b>>[i]
      BY <1>1
  <2> QED
      BY <2>1, <1>1, SeqEqual
<1> QED
    BY <1>2, <1>3

LEMMA VerifyInviteTokenBegins ==
    ASSUME Inv, NEW c \in Slots, NEW t \in 1 .. issued, verifyInviteToken(c, t)
    PROVE  Inv'
<1>0. PICK a \in {"valid", "invalid"} : \E before :
         /\ Begin(c, before \o <<Do("keepAnswer", <<t, a>>)>>)
         /\ before = <<>> \/ \E i \in Ids : before = <<Do("expire", i)>>
  <2>1. ByToken(t) # {} => MarkExpired(CHOOSE i \in ByToken(t) : TRUE) = <<>>
                            \/ \E i \in Ids : MarkExpired(CHOOSE j \in ByToken(t) : TRUE) = <<Do("expire", i)>>
    <3> SUFFICES ASSUME ByToken(t) # {}
                 PROVE  LET i == CHOOSE j \in ByToken(t) : TRUE IN i \in Ids
        BY MarkExpiredIs
    <3> QED
        BY DEF ByToken
  <2>2. Answer(t) \in {"valid", "invalid"}
      BY DEF Answer
  <2>3. CASE Begin(c, <<Do("keepAnswer", <<t, "invalid">>)>>)
    <3>1. <<>> \o <<Do("keepAnswer", <<t, "invalid">>)>> = <<Do("keepAnswer", <<t, "invalid">>)>>
        BY JoinOne
    <3> QED
        BY <2>3, <3>1
  <2>4. CASE Begin(c, (IF \E i \in ByToken(t) : invitations[i].status = "pending" /\ IsOver(i)
                       THEN MarkExpired(CHOOSE i \in ByToken(t) : TRUE) ELSE <<>>)
                      \o <<Do("keepAnswer", <<t, Answer(t)>>)>>)
    <3>1. CASE \E i \in ByToken(t) : invitations[i].status = "pending" /\ IsOver(i)
        BY <2>1, <2>2, <2>4, <3>1
    <3>2. CASE ~(\E i \in ByToken(t) : invitations[i].status = "pending" /\ IsOver(i))
        BY <2>2, <2>4, <3>2
    <3> QED
        BY <3>1, <3>2
  <2> QED
      BY <2>3, <2>4 DEF verifyInviteToken
<1>1. PICK before :
         /\ Begin(c, before \o <<Do("keepAnswer", <<t, a>>)>>)
         /\ before = <<>> \/ \E i \in Ids : before = <<Do("expire", i)>>
    BY <1>0
<1>2. PICK last \in Statements : last = Do("keepAnswer", <<t, a>>) /\ last.what = "keepAnswer"
  <2>1. t \in Nat
      BY DEF Inv, TypeOK
  <2> QED
      BY <2>1, StatementKinds DEF Do
<1>3. PICK todo : todo = before \o <<last>>
    OBVIOUS
<1>4. todo \in Seq(Statements) /\ \A k \in DOMAIN todo : todo[k].what \in Simple
  <2>1. CASE before = <<>>
    <3>1. todo = <<last>>
        BY <1>3, <2>1, JoinOne
    <3> QED
        BY <1>2, <3>1 DEF Simple
  <2>2. CASE \E i \in Ids : before = <<Do("expire", i)>>
    <3>1. PICK i \in Ids : before = <<Do("expire", i)>>
        BY <2>2
    <3>2. PICK first \in Statements : first = Do("expire", i) /\ first.what = "expire"
        BY StatementKinds DEF Do
    <3>3. todo = <<first, last>>
        BY <1>3, <3>1, <3>2, JoinOne
    <3> QED
        BY <1>2, <3>2, <3>3 DEF Simple
  <2> QED
      BY <1>1, <2>1, <2>2
<1>5. faults' \in Nat
    BY DEF verifyInviteToken, Inv, TypeOK
<1> QED
    BY <1>1, <1>2, <1>3, <1>4, <1>5, SimpleBegins DEF verifyInviteToken, Inv, TypeOK

LEMMA SetupAdminAccountBegins ==
    ASSUME Inv, NEW c \in Slots, NEW t \in 1 .. issued, setupAdminAccount(c, t)
    PROVE  Inv'
<1>1. UNCHANGED <<tables, verified, faults>> /\ overlapped' = (overlapped \/ Pending("saveRole") > 0)
    BY DEF setupAdminAccount
<1>2. PICK i \in Ids : /\ Exists(i)
                      /\ \/ MarkExpired(i) # <<>> /\ Begin(c, MarkExpired(i))
                         \/ Begin(c, AccountSteps(i, t))
    BY DEF setupAdminAccount, ByToken
<1>3. CASE MarkExpired(i) # <<>> /\ Begin(c, MarkExpired(i))
  <2>1. PICK first \in Statements : first = Do("expire", i) /\ first.what = "expire"
      BY StatementKinds DEF Do
  <2>2. PICK todo : todo = <<first>>
      OBVIOUS
  <2>3. todo \in Seq(Statements) /\ \A k \in DOMAIN todo : todo[k].what \in Simple
      BY <2>1, <2>2 DEF Simple
  <2>4. Begin(c, todo)
      BY <1>3, <2>1, <2>2, MarkExpiredIs
  <2>5. overlapped' \in BOOLEAN /\ (~overlapped' => ~overlapped) /\ faults' \in Nat
      BY <1>1 DEF Inv, TypeOK
  <2> QED
      BY <1>1, <2>3, <2>4, <2>5, SimpleBegins
<1>4. CASE Begin(c, AccountSteps(i, t))
  <2>1. PICK e \in Emails : e = invitations[i].email
      BY <1>2 DEF Exists, Inv, TypeOK, InvitationRows
  <2>2. PICK s1 \in Statements, s2 \in Statements, s3 \in Statements, s4 \in Statements, s5 \in Statements :
           /\ s1 = Do("saveUser", e) /\ s2 = Do("count", Missing) /\ s3 = Do("saveRole", 0)
           /\ s4 = Do("accept", i) /\ s5 = Do("forgetAnswer", t)
    <3>1. t \in Nat
        BY DEF Inv, TypeOK
    <3> QED
        BY <3>1, StatementKinds
  <2>3. /\ s1.what = "saveUser" /\ s2.what = "count" /\ s3.what = "saveRole" /\ s4.what = "accept"
        /\ s5.what = "forgetAnswer" /\ s4.arg = i
      BY <2>2 DEF Do
  <2>4. PICK todo : todo = <<s1, s2, s3, s4, s5>>
      OBVIOUS
  <2>5. /\ todo \in Seq(Statements) /\ DOMAIN todo = 1 .. 5 /\ todo # <<>> /\ Head(todo) = s1
        /\ todo[1] = s1 /\ todo[2] = s2 /\ todo[3] = s3 /\ todo[4] = s4 /\ todo[5] = s5
      BY <2>4
  <2>6. Begin(c, todo)
      BY <1>4, <2>1, <2>2, <2>4 DEF AccountSteps
  <2>7. Counting(todo)
      BY <2>3, <2>5 DEF Counting
  <2>8. Orderly(todo)
    <3> SUFFICES ASSUME NEW k \in 1 .. 5 PROVE InOrder(todo, k) /\ HasAccount(todo, k)
        BY <2>5 DEF Orderly
    <3>1. InOrder(todo, k)
        BY <2>3, <2>5, <2>7 DEF InOrder
    <3>2. i <= made
      <4>1. i \in Int
          BY DEF Ids
      <4> QED
          BY <1>2, <4>1 DEF Inv, TypeOK, Fresh, Exists
    <3>3. HasAccount(todo, k)
        BY <2>1, <2>2, <2>3, <2>5, <3>2 DEF HasAccount
    <3> QED
        BY <3>1, <3>3
  <2>9. overlapped' \in BOOLEAN /\ (~overlapped' => ~overlapped) /\ faults' \in Nat
      BY <1>1 DEF Inv, TypeOK
  <2>10. ~overlapped' => \A d \in Slots : ~Counting(calls[d])
      BY <1>1, NonePending
  <2> QED
      BY <1>1, <2>3, <2>5, <2>6, <2>7, <2>8, <2>9, <2>10, BeginKeeps
<1> QED
    BY <1>2, <1>3, <1>4

LEMMA RecountBegins == ASSUME Inv, NEW c \in Slots, recount(c) PROVE Inv'
<1>1. UNCHANGED <<tables, verified, faults>> /\ overlapped' = (overlapped \/ Pending("saveRole") > 0)
    BY DEF recount
<1>2. PICK s1 \in Statements, s2 \in Statements :
         /\ s1 = Do("count", Missing) /\ s1.what = "count"
         /\ s2 = Do("saveRole", 0) /\ s2.what = "saveRole"
  <2>1. Do("count", Missing) \in Statements /\ Do("saveRole", 0) \in Statements
      BY StatementKinds
  <2> QED
      BY <2>1 DEF Do
<1>3. PICK todo : todo = <<s1, s2>>
    OBVIOUS
<1>4. /\ todo \in Seq(Statements) /\ DOMAIN todo = 1 .. 2 /\ Head(todo) = s1
      /\ todo[1] = s1 /\ todo[2] = s2
    BY <1>3
<1>5. Begin(c, todo)
    BY <1>2, <1>3 DEF recount
<1>6. Orderly(todo) /\ Counting(todo)
    BY <1>2, <1>4 DEF Orderly, InOrder, HasAccount, Counting
<1>7. overlapped' \in BOOLEAN /\ (~overlapped' => ~overlapped) /\ faults' \in Nat
    BY <1>1 DEF Inv, TypeOK
<1>8. ~overlapped' => \A d \in Slots : ~Counting(calls[d])
    BY <1>1, NonePending
<1> QED
    BY <1>1, <1>2, <1>4, <1>5, <1>6, <1>7, <1>8, BeginKeeps

LEMMA RequestKeeps == ASSUME Inv, NEW c \in Slots, Request(c) PROVE Inv'
BY InviteAdminBegins, RecountBegins, VerifyInviteTokenBegins, SetupAdminAccountBegins,
   ResendInvitationBegins, CancelInvitationBegins
DEF Request

-----------------------------------------------------------------------------
(* The process dies, time passes.                                          *)

LEMMA NothingNew ==
    ASSUME Inv, TypeOK', UNCHANGED <<made, accounts, userCount, overlapped>>,
           \A i \in Ids : invitations'[i] # Missing <=> invitations[i] # Missing,
           \A i \in Ids : invitations[i] # Missing =>
               /\ invitations'[i].email = invitations[i].email
               /\ invitations'[i].status = invitations[i].status,
           calls' = calls \/ \A c \in Slots : calls'[c] = Idle
    PROVE  Inv'
<1>1. Fresh' /\ AcceptedHave'
    BY DEF Inv, Fresh, AcceptedHave, Exists
<1>2. \A c \in Slots : Orderly(calls[c])'
  <2> SUFFICES ASSUME NEW c \in Slots PROVE Orderly(calls[c])'
      OBVIOUS
  <2>1. PICK todo \in Seq(Statements) : todo = calls[c]
      BY DEF Inv, TypeOK
  <2>2. RowsStay
      BY DEF RowsStay, Exists, Inv, TypeOK
  <2>3. Orderly(todo)'
      BY <2>1, <2>2, OrderlyStays DEF Inv
  <2> QED
      BY <2>1, <2>3 DEF Orderly, Idle
<1>3. ASSUME ~overlapped' PROVE OneCounting' /\ CountKept' /\ CountDue'
  <2>1. OneCounting /\ CountKept /\ CountDue
      BY <1>3 DEF Inv
  <2>2. OneCounting'
      BY <2>1 DEF OneCounting, Counting, Idle
  <2>3. CountKept'
    <3>1. \A i \in Ids : Known(i)' => Known(i)
        BY DEF Known, Exists, Accepting, Counting, Idle
    <3>2. Vouched' \subseteq Vouched
        BY <3>1 DEF Vouched, Known, Exists
    <3>3. userCount \in Nat
        BY DEF Inv, TypeOK
    <3> QED
        BY <2>1, <3>2, <3>3, VouchedFinite, CountSuffices DEF CountKept
  <2>4. CountDue'
    <3> SUFFICES ASSUME NEW b \in Slots, calls'[b] # Idle, Head(calls'[b]).what = "saveRole"
                 PROVE  Head(calls'[b]).arg >= Cardinality(VouchedAfter(b)')
        BY DEF CountDue
    <3>1. calls' = calls
        OBVIOUS
    <3>2. \A i \in Ids : Owed(b, i)' => Owed(b, i)
        BY <3>1 DEF Owed, Exists, Accepting, Counting
    <3>3. VouchedAfter(b)' \subseteq VouchedAfter(b)
        BY <3>2 DEF VouchedAfter, Owed, Exists
    <3>4. /\ calls[b] \in Seq(Statements) /\ calls[b] # <<>>
          /\ Head(calls[b]) = calls[b][1] /\ Head(calls[b]) \in Statements
        BY <3>1, Rest DEF Inv, TypeOK, Idle
    <3>5. Head(calls[b]).arg \in Nat /\ Head(calls[b]).arg >= Cardinality(VouchedAfter(b))
        BY <2>1, <3>1, <3>4, StatementArgs DEF CountDue
    <3>6. IsFiniteSet(VouchedAfter(b))
        BY <3>1, <3>4, VouchedFinite
    <3> QED
        BY <3>1, <3>3, <3>5, <3>6, CountSuffices
  <2> QED
      BY <2>2, <2>3, <2>4
<1> QED
    BY <1>1, <1>2, <1>3 DEF Inv

LEMMA DiesKeeps == ASSUME Inv, dies PROVE Inv'
<1>1. TypeOK'
  <2>1. calls' \in [Slots -> Seq(Statements)]
      BY DEF dies, Idle
  <2> QED
      BY <2>1 DEF dies, tables, Inv, TypeOK
<1> QED
    BY <1>1, NothingNew DEF dies, tables

LEMMA GetsLateKeeps == ASSUME Inv, NEW i \in Ids, getsLate(i) PROVE Inv'
<1>1. PICK row : row = [invitations[i] EXCEPT !.late = TRUE]
    OBVIOUS
<1>2. invitations[i] \in InvitationRows /\ invitations' = [invitations EXCEPT ![i] = row]
    BY <1>1 DEF getsLate, Exists, Inv, TypeOK
<1>3. /\ row \in InvitationRows /\ row.email = invitations[i].email
      /\ row.status = invitations[i].status
    BY <1>1, <1>2 DEF InvitationRows
<1>4. row # Missing
    BY <1>3, NullAssumption
<1>5. TypeOK'
    BY <1>2, <1>3 DEF getsLate, Inv, TypeOK
<1>6. \A j \in Ids : invitations'[j] = IF j = i THEN row ELSE invitations[j]
    BY <1>2 DEF Inv, TypeOK
<1>7. invitations[i] # Missing
    BY DEF getsLate, Exists
<1> QED
    BY <1>3, <1>4, <1>5, <1>6, <1>7, NothingNew DEF getsLate

LEMMA AnswerExpiresKeeps == ASSUME Inv, NEW t \in Tokens, answerExpires(t) PROVE Inv'
<1>1. TypeOK'
    BY DEF answerExpires, tables, Inv, TypeOK
<1> QED
    BY <1>1, NothingNew DEF answerExpires, tables

LEMMA StutterKeeps == ASSUME Inv, UNCHANGED vars PROVE Inv'
<1>1. TypeOK'
    BY DEF vars, tables, Inv, TypeOK
<1> QED
    BY <1>1, NothingNew DEF vars, tables

LEMMA NextInv == Inv /\ [Next]_vars => Inv'
BY RequestKeeps, StatementKeeps, DiesKeeps, GetsLateKeeps, AnswerExpiresKeeps, StutterKeeps DEF Next

-----------------------------------------------------------------------------
\* Every reachable state is as the invariant says.
THEOREM InvitationsInvariant == Spec => []Inv
BY InitInv, NextInv, PTL DEF Spec

\* An invitation shown as accepted has led to an account, and unless two
\* accounts were being set up at once the role counts it (setupAdminAccount).
THEOREM AcceptedIsCompleteAlways == Spec => []AcceptedIsComplete
<1>1. ASSUME Inv PROVE AcceptedIsComplete
  <2> DEFINE accepted == {invitations[i].email : i \in {j \in Ids : Exists(j) /\ invitations[j].status = "accepted"}}
  <2>1. accepted \subseteq accounts
      BY <1>1 DEF Inv, AcceptedHave
  <2>2. accepted \subseteq Vouched
    <3>1. \A i \in Ids : Exists(i) => invitations[i].email \in Emails
        BY <1>1 DEF Inv, TypeOK, Exists, InvitationRows
    <3> QED
        BY <3>1 DEF Vouched, Known
  <2>3. ~overlapped => userCount >= Cardinality(accepted)
    <3>1. userCount \in Nat /\ IsFiniteSet(Vouched) /\ (~overlapped => userCount >= Cardinality(Vouched))
        BY <1>1, VouchedFinite DEF Inv, TypeOK, CountKept
    <3> QED
        BY <2>2, <3>1, CountSuffices
  <2> QED
      BY <2>1, <2>3 DEF AcceptedIsComplete
<1> QED
    BY <1>1, InvitationsInvariant, PTL
=============================================================================
