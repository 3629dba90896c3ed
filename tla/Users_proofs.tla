---------------------------- MODULE Users_proofs ----------------------------
(***************************************************************************)
(* For any number of users, telephone numbers, requests and faults: two    *)
(* users share a number only for a known reason, the last word on a user   *)
(* stands, and a copy in the cache is never old without a known reason.    *)
(*                                                                         *)
(* All three turn on the rows that requests have read and not written yet. *)
(* The invariant says how such a row stands to the row there is (WordKept, *)
(* PhoneKept), and that a request that changes a user has the statements   *)
(* that drop its copies still to come (Orderly).                           *)
(***************************************************************************)
EXTENDS Users, FiniteSetTheorems, SequenceTheorems, TLAPS

CopyOf(k) ==
    CASE k = getUserListKey -> [Ids -> UserRows \union {Missing}]
      [] k = getUserStatsKey -> [Statuses -> Nat]
      [] OTHER -> IF k[2] = "eligible" THEN Nat ELSE UserRows

Saving == [what : {"save"}, user : Ids, row : UserRows, asked : Statuses \union {Missing},
           covers : SUBSET Keys]
Deleting == [what : {"delete"}, user : Ids]
Filling == UNION {[what : {"fill"}, key : {k}, copy : CopyOf(k)] : k \in Keys}
Dropping == [what : {"drop"}, key : Keys]
Listing == [what : {"keys"}, key : {getUserListKey}]
Statements == Saving \union Deleting \union Filling \union Dropping \union Listing

Words == Statuses \union {"gone", Missing}

CacheOK == /\ cache = [k \in Keys |-> cache[k]]
           /\ \A k \in Keys : cache[k] \in CopyOf(k) \union {Missing}

TypeOK ==
    /\ users \in [Ids -> UserRows \union {Missing}]
    /\ born \in SUBSET Ids
    /\ CacheOK
    /\ calls \in [Slots -> Seq(Statements)]
    /\ begun \in Nat /\ overlaps \in Nat /\ faults \in Nat
    /\ excused \in SUBSET Keys /\ loose \in SUBSET Numbers
    /\ word \in [Ids -> Words]

\* Only users that were created exist, or are known to be gone.
Fresh == \A u \in Ids : Exists(u) \/ word[u] = "gone" => u \in born

Writes(s) == s.what \in {"save", "delete"}
Drops(s) == s.what \in {"drop", "keys"}

\* A request writes a row once, and drops what it means to drop after that.
InOrder(todo, i) ==
    /\ Writes(todo[i]) =>
         \A j \in DOMAIN todo : Writes(todo[j]) /\ todo[j].user = todo[i].user => j = i
    /\ Drops(todo[i]) => \A j \in DOMAIN todo : j > i => Drops(todo[j])
    /\ todo[i].what = "save" => todo[i].covers \subseteq Undropped(todo)
    /\ todo[i].what = "delete" => Covers(todo[i].user, "id") \subseteq Undropped(todo)

Orderly(todo) == \A i \in DOMAIN todo : InOrder(todo, i)

\* A row to be saved has the status that was asked for, or that was given last.
WordKept(s) ==
    /\ Writes(s) => s.user \in born
    /\ s.what = "save" =>
         /\ word[s.user] # "gone"
         /\ s.asked # Missing => s.row.status = s.asked
         /\ s.asked = Missing /\ word[s.user] # Missing => s.row.status = word[s.user]

\* Its number is loose, or that of the row, or new to all rows but such as
\* create does not write.
NumberIsNew(n) == \A v \in Ids : Exists(v) /\ users[v].phone[1] = n => users[v].phone[2] = "0"
PhoneKept(s) ==
    s.what = "save" =>
        \/ s.row.phone[1] \in loose
        \/ Exists(s.user) /\ users[s.user].phone = s.row.phone
        \/ ~Exists(s.user) /\ s.row.phone[2] = "0" /\ NumberIsNew(s.row.phone[1])

Kept == \A c \in Slots : \A i \in DOMAIN calls[c] : WordKept(calls[c][i]) /\ PhoneKept(calls[c][i])

Inv ==
    /\ TypeOK /\ Fresh
    /\ \A c \in Slots : Orderly(calls[c])
    /\ Kept
    /\ OneUserPerNumber /\ LastWordStands /\ CopiesExplained
-----------------------------------------------------------------------------
(* Sequences of statements.                                                *)
LEMMA Rest ==
    ASSUME NEW S, NEW s \in Seq(S), s # <<>>
    PROVE  /\ Head(s) = s[1] /\ Head(s) \in S /\ Tail(s) \in Seq(S)
           /\ Len(s) \in Nat \ {0} /\ Len(Tail(s)) = Len(s) - 1
           /\ DOMAIN Tail(s) = 1 .. Len(s) - 1 /\ DOMAIN s = 1 .. Len(s)
           /\ \A i \in 1 .. Len(s) - 1 : i + 1 \in DOMAIN s /\ Tail(s)[i] = s[i + 1]
OBVIOUS

LEMMA Join2 ==
    ASSUME NEW a, NEW b
    PROVE  <<a>> \o <<b>> = <<a, b>> /\ <<>> \o <<a>> = <<a>>
<1> DEFINE S == {a, b}
<1>1. <<a>> \o <<b>> = <<a, b>>
  <2>1. /\ <<a>> \o <<b>> \in Seq(S) /\ Len(<<a>> \o <<b>>) = 2
        /\ <<a, b>> \in Seq(S)
        /\ \A i \in 1 .. 2 : (<<a>> \o <<b>>)[i] = <<a, b>>[i]
      OBVIOUS
  <2> QED
      BY <2>1, SeqEqual
<1>2. <<>> \o <<a>> = <<a>>
  <2>1. /\ <<>> \o <<a>> \in Seq(S) /\ Len(<<>> \o <<a>>) = 1
        /\ <<a>> \in Seq(S)
        /\ \A i \in 1 .. 1 : (<<>> \o <<a>>)[i] = <<a>>[i]
      OBVIOUS
  <2> QED
      BY <2>1, SeqEqual
<1> QED
    BY <1>1, <1>2

LEMMA Join3 ==
    ASSUME NEW a, NEW b, NEW c
    PROVE  <<a>> \o <<b, c>> = <<a, b, c>> /\ <<a, b>> \o <<c>> = <<a, b, c>>
<1> DEFINE S == {a, b, c}
<1>1. <<a>> \o <<b, c>> = <<a, b, c>>
  <2>1. /\ <<a>> \o <<b, c>> \in Seq(S) /\ Len(<<a>> \o <<b, c>>) = 3
        /\ <<a, b, c>> \in Seq(S)
        /\ \A i \in 1 .. 3 : (<<a>> \o <<b, c>>)[i] = <<a, b, c>>[i]
      OBVIOUS
  <2> QED
      BY <2>1, SeqEqual
<1>2. <<a, b>> \o <<c>> = <<a, b, c>>
  <2>1. /\ <<a, b>> \o <<c>> \in Seq(S) /\ Len(<<a, b>> \o <<c>>) = 3
        /\ <<a, b, c>> \in Seq(S)
        /\ \A i \in 1 .. 3 : (<<a, b>> \o <<c>>)[i] = <<a, b, c>>[i]
      OBVIOUS
  <2> QED
      BY <2>1, SeqEqual
<1> QED
    BY <1>1, <1>2

LEMMA Join4 ==
    ASSUME NEW a, NEW b, NEW c, NEW d
    PROVE  <<a>> \o <<b, c, d>> = <<a, b, c, d>>
<1> DEFINE S == {a, b, c, d}
<1>1. <<a>> \o <<b, c, d>> = <<a, b, c, d>>
  <2>1. /\ <<a>> \o <<b, c, d>> \in Seq(S) /\ Len(<<a>> \o <<b, c, d>>) = 4
        /\ <<a, b, c, d>> \in Seq(S)
        /\ \A i \in 1 .. 4 : (<<a>> \o <<b, c, d>>)[i] = <<a, b, c, d>>[i]
      OBVIOUS
  <2> QED
      BY <2>1, SeqEqual
<1> QED
    BY <1>1

LEMMA Join5 ==
    ASSUME NEW a, NEW b, NEW c, NEW d, NEW e
    PROVE  <<a, b>> \o <<c, d, e>> = <<a, b, c, d, e>> /\ <<a, b, c, d>> \o <<e>> = <<a, b, c, d, e>>
<1> DEFINE S == {a, b, c, d, e}
<1>1. <<a, b>> \o <<c, d, e>> = <<a, b, c, d, e>>
  <2>1. /\ <<a, b>> \o <<c, d, e>> \in Seq(S) /\ Len(<<a, b>> \o <<c, d, e>>) = 5
        /\ <<a, b, c, d, e>> \in Seq(S)
        /\ \A i \in 1 .. 5 : (<<a, b>> \o <<c, d, e>>)[i] = <<a, b, c, d, e>>[i]
      OBVIOUS
  <2> QED
      BY <2>1, SeqEqual
<1>2. <<a, b, c, d>> \o <<e>> = <<a, b, c, d, e>>
  <2>1. /\ <<a, b, c, d>> \o <<e>> \in Seq(S) /\ Len(<<a, b, c, d>> \o <<e>>) = 5
        /\ <<a, b, c, d, e>> \in Seq(S)
        /\ \A i \in 1 .. 5 : (<<a, b, c, d>> \o <<e>>)[i] = <<a, b, c, d, e>>[i]
      OBVIOUS
  <2> QED
      BY <2>1, SeqEqual
<1> QED
    BY <1>1, <1>2

LEMMA Join6 ==
    ASSUME NEW a, NEW b, NEW c, NEW d, NEW e, NEW f
    PROVE  <<a, b, c>> \o <<d, e, f>> = <<a, b, c, d, e, f>>
<1> DEFINE S == {a, b, c, d, e, f}
<1>1. <<a, b, c>> \o <<d, e, f>> = <<a, b, c, d, e, f>>
  <2>1. /\ <<a, b, c>> \o <<d, e, f>> \in Seq(S) /\ Len(<<a, b, c>> \o <<d, e, f>>) = 6
        /\ <<a, b, c, d, e, f>> \in Seq(S)
        /\ \A i \in 1 .. 6 : (<<a, b, c>> \o <<d, e, f>>)[i] = <<a, b, c, d, e, f>>[i]
      OBVIOUS
  <2> QED
      BY <2>1, SeqEqual
<1> QED
    BY <1>1

LEMMA StatementKinds ==
    ASSUME NEW s \in Statements
    PROVE  /\ s.what \in {"save", "delete", "fill", "drop", "keys"}
           /\ s.what = "save" => s \in Saving
           /\ s.what = "delete" => s \in Deleting
           /\ s.what = "fill" => s.key \in Keys /\ s.copy \in CopyOf(s.key)
           /\ Drops(s) => s.key \in Keys
<1>1. CASE s \in Saving
    BY <1>1 DEF Saving, Drops
<1>2. CASE s \in Deleting
    BY <1>2 DEF Deleting, Drops
<1>3. CASE s \in Filling
    BY <1>3 DEF Filling, Drops
<1>4. CASE s \in Dropping \union Listing
    BY <1>4 DEF Dropping, Listing, Drops, Keys
<1> QED
    BY <1>1, <1>2, <1>3, <1>4 DEF Statements

LEMMA SavingArgs ==
    ASSUME NEW s \in Saving
    PROVE  /\ s.user \in Ids /\ s.row \in UserRows /\ s.row # Missing
           /\ s.asked \in Statuses \union {Missing} /\ s.covers \in SUBSET Keys
           /\ s.row.phone \in Numbers \X Prefixes /\ s.row.status \in Statuses
<1>1. s.row \in UserRows
    BY DEF Saving
<1> QED
    BY <1>1, NullAssumption DEF Saving, UserRows

LEMMA SaveIs ==
    ASSUME NEW u \in Ids, NEW row \in UserRows, NEW asked \in Statuses \union {Missing},
           NEW covers \in SUBSET Keys
    PROVE  \E s \in Statements :
             /\ Save(u, row, asked, covers) = <<s>>
             /\ s.what = "save" /\ s.user = u /\ s.row = row /\ s.asked = asked /\ s.covers = covers
<1>1. PICK s : s = [what |-> "save", user |-> u, row |-> row, asked |-> asked, covers |-> covers]
    OBVIOUS
<1>2. s \in Statements
    BY <1>1 DEF Statements, Saving
<1> QED
    BY <1>1, <1>2 DEF Save

LEMMA DropIs ==
    ASSUME NEW k \in Keys
    PROVE  \E s \in Statements : Drop(k) = <<s>> /\ s.what = "drop" /\ s.key = k
<1>1. PICK s : s = [what |-> "drop", key |-> k]
    OBVIOUS
<1>2. s \in Statements
    BY <1>1 DEF Statements, Dropping
<1> QED
    BY <1>1, <1>2 DEF Drop

LEMMA FillIs ==
    ASSUME NEW k \in Keys, NEW copy \in CopyOf(k)
    PROVE  \E s \in Statements : Fill(k, copy) = <<s>> /\ s.what = "fill" /\ s.key = k
<1>1. PICK s : s = [what |-> "fill", key |-> k, copy |-> copy]
    OBVIOUS
<1>2. s \in Filling
    BY <1>1 DEF Filling
<1> QED
    BY <1>1, <1>2 DEF Fill, Statements

LEMMA DropSharedIs ==
    \E k, e \in Statements :
        /\ DropShared = <<k, e>>
        /\ k.what = "keys" /\ k.key = getUserListKey
        /\ e.what = "drop" /\ e.key = getUserStatsKey
<1>1. PICK k : k = [what |-> "keys", key |-> getUserListKey]
    OBVIOUS
<1>2. k \in Statements /\ k.what = "keys" /\ k.key = getUserListKey
    BY <1>1 DEF Statements, Listing
<1>3. getUserStatsKey \in Keys
    BY DEF Keys
<1>4. PICK e \in Statements : Drop(getUserStatsKey) = <<e>> /\ e.what = "drop" /\ e.key = getUserStatsKey
    BY <1>3, DropIs
<1>5. DropShared = <<k, e>>
    BY <1>1, <1>4, Join2 DEF DropShared
<1> QED
    BY <1>2, <1>4, <1>5

LEMMA InvalidateIs ==
    ASSUME NEW u \in Ids, NEW form \in Forms
    PROVE  \E d, k, e \in Statements :
             /\ Invalidate(u, form) = <<d, k, e>>
             /\ d.what = "drop" /\ d.key = getUserKey(u, form)
             /\ k.what = "keys" /\ k.key = getUserListKey
             /\ e.what = "drop" /\ e.key = getUserStatsKey
<1>1. getUserKey(u, form) \in Keys
    BY DEF Keys, getUserKey
<1>2. PICK d \in Statements : Drop(getUserKey(u, form)) = <<d>> /\ d.what = "drop" /\ d.key = getUserKey(u, form)
    BY <1>1, DropIs
<1>3. PICK k, e \in Statements :
        /\ DropShared = <<k, e>>
        /\ k.what = "keys" /\ k.key = getUserListKey
        /\ e.what = "drop" /\ e.key = getUserStatsKey
    BY DropSharedIs
<1>4. <<d>> \o <<k, e>> = <<d, k, e>>
    BY Join3
<1>5. Invalidate(u, form) = <<d, k, e>>
    BY <1>2, <1>3, <1>4 DEF Invalidate
<1> QED
    BY <1>2, <1>3, <1>5

LEMMA SharedAreKeys == Shared \in SUBSET Keys
BY DEF Shared, Keys

LEMMA EligibleAreKeys ==
    ASSUME NEW u \in Ids
    PROVE  getEligibleAmountKey(u) \in Keys
BY DEF Keys, getEligibleAmountKey

LEMMA CoversAreKeys ==
    ASSUME NEW u \in Ids, NEW form \in Forms
    PROVE  Covers(u, form) \in SUBSET Keys /\ getUserKey(u, form) \in Keys
BY DEF Covers, Shared, Keys, getUserKey

LEMMA Undropping ==
    ASSUME NEW todo, NEW i \in DOMAIN todo, Drops(todo[i])
    PROVE  todo[i].key \in Undropped(todo)
BY DEF Undropped, Drops
-----------------------------------------------------------------------------
(* The order of the statements.                                            *)
LEMMA OnlyDropsOrderly ==
    ASSUME NEW todo, \A i \in DOMAIN todo : Drops(todo[i])
    PROVE  Orderly(todo)
BY DEF Orderly, InOrder, Writes, Drops

LEMMA WriteThenDropOrderly ==
    ASSUME NEW todo \in Seq(Statements), NEW w \in DOMAIN todo, Writes(todo[w]),
           \A i \in DOMAIN todo : /\ i < w => todo[i].what = "fill"
                                  /\ i > w => Drops(todo[i]),
           todo[w].what = "save" => todo[w].covers \subseteq Undropped(todo),
           todo[w].what = "delete" => Covers(todo[w].user, "id") \subseteq Undropped(todo)
    PROVE  Orderly(todo)
<1>1. \A i \in DOMAIN todo : i \in Nat /\ (i < w \/ i = w \/ i > w)
    OBVIOUS
<1>2. \A i \in DOMAIN todo : i = w \/ ~Writes(todo[i])
  <2> SUFFICES ASSUME NEW i \in DOMAIN todo, i # w PROVE ~Writes(todo[i])
      OBVIOUS
  <2>1. todo[i].what = "fill" \/ Drops(todo[i])
      BY <1>1
  <2> QED
      BY <2>1 DEF Writes, Drops
<1>3. \A i \in DOMAIN todo : Drops(todo[i]) => i > w
  <2> SUFFICES ASSUME NEW i \in DOMAIN todo, Drops(todo[i]), ~(i > w) PROVE FALSE
      OBVIOUS
  <2>1. todo[i].what = "fill" \/ i = w
      BY <1>1
  <2> QED
      BY <2>1 DEF Writes, Drops
<1> SUFFICES ASSUME NEW i \in DOMAIN todo PROVE InOrder(todo, i)
    BY DEF Orderly
<1>4. Drops(todo[i]) => \A j \in DOMAIN todo : j > i => Drops(todo[j])
    BY <1>1, <1>3
<1>5. todo[i].what \in {"save", "delete"} => i = w
    BY <1>2 DEF Writes
<1> QED
    BY <1>2, <1>4, <1>5 DEF InOrder

\* What the first statement drops is all that the rest does not.
LEMMA UndroppedRest ==
    ASSUME NEW todo \in Seq(Statements), todo # <<>>
    PROVE  /\ Undropped(Tail(todo)) \subseteq Undropped(todo)
           /\ \A k \in Undropped(todo) : \/ k \in Undropped(Tail(todo))
                                         \/ Drops(Head(todo)) /\ k = Head(todo).key
<1>1. ASSUME NEW k \in Undropped(Tail(todo)) PROVE k \in Undropped(todo)
  <2>1. PICK i \in DOMAIN Tail(todo) : Drops(Tail(todo)[i]) /\ k = Tail(todo)[i].key
      BY <1>1 DEF Undropped, Drops
  <2>2. i + 1 \in DOMAIN todo /\ todo[i + 1] = Tail(todo)[i]
      BY <2>1, Rest
  <2> QED
      BY <2>1, <2>2, Undropping
<1>2. ASSUME NEW k \in Undropped(todo), ~(Drops(Head(todo)) /\ k = Head(todo).key)
      PROVE  k \in Undropped(Tail(todo))
  <2>1. PICK i \in DOMAIN todo : Drops(todo[i]) /\ k = todo[i].key
      BY <1>2 DEF Undropped, Drops
  <2>2. i # 1
      BY <1>2, <2>1, Rest
  <2>3. i - 1 \in DOMAIN Tail(todo) /\ Tail(todo)[i - 1] = todo[i]
      BY <2>1, <2>2, Rest
  <2> QED
      BY <2>1, <2>3, Undropping
<1> QED
    BY <1>1, <1>2

LEMMA RestOrderly ==
    ASSUME NEW todo \in Seq(Statements), todo # <<>>, Orderly(todo)
    PROVE  Orderly(Tail(todo))
<1> SUFFICES ASSUME NEW i \in DOMAIN Tail(todo) PROVE InOrder(Tail(todo), i)
    BY DEF Orderly
<1>1. i \in Nat /\ i + 1 \in DOMAIN todo /\ Tail(todo)[i] = todo[i + 1] /\ InOrder(todo, i + 1)
    BY Rest DEF Orderly
<1>2. \A j \in DOMAIN Tail(todo) : j \in Nat /\ j + 1 \in DOMAIN todo /\ Tail(todo)[j] = todo[j + 1]
    BY Rest
<1>3. Writes(Tail(todo)[i]) =>
        \A j \in DOMAIN Tail(todo) : Writes(Tail(todo)[j]) /\ Tail(todo)[j].user = Tail(todo)[i].user => j = i
    BY <1>1, <1>2 DEF InOrder
<1>4. Drops(Tail(todo)[i]) => \A j \in DOMAIN Tail(todo) : j > i => Drops(Tail(todo)[j])
    BY <1>1, <1>2 DEF InOrder
<1>5. CASE Drops(Head(todo))
  <2>1. 1 \in DOMAIN todo /\ Head(todo) = todo[1] /\ InOrder(todo, 1)
      BY Rest DEF Orderly
  <2>2. Drops(Tail(todo)[i])
      BY <1>1, <1>5, <2>1 DEF InOrder
  <2> QED
      BY <1>3, <1>4, <2>2 DEF InOrder, Drops
<1>6. CASE ~Drops(Head(todo))
  <2>1. Undropped(todo) \subseteq Undropped(Tail(todo))
      BY <1>6, UndroppedRest
  <2> QED
      BY <1>1, <1>3, <1>4, <2>1 DEF InOrder
<1> QED
    BY <1>5, <1>6

\* After a statement that drops come only such.
LEMMA DropsLast ==
    ASSUME NEW todo \in Seq(Statements), todo # <<>>, Orderly(todo), Drops(Head(todo))
    PROVE  \A i \in DOMAIN todo : Drops(todo[i])
<1>1. 1 \in DOMAIN todo /\ Head(todo) = todo[1] /\ InOrder(todo, 1)
    BY Rest DEF Orderly
<1>2. \A i \in DOMAIN todo : i = 1 \/ i > 1
    OBVIOUS
<1> QED
    BY <1>1, <1>2 DEF InOrder
-----------------------------------------------------------------------------
LEMMA InitInv == Init => Inv
<1> SUFFICES ASSUME Init PROVE Inv
    OBVIOUS
<1>1. PICK first : first = [phone |-> <<OldNumber, "+234">>, status |-> "active",
                            score |-> 0, limit |-> Amounts[0], auto |-> FALSE]
    OBVIOUS
<1>2. first \in UserRows /\ first # Missing
  <2>1. Amounts[0] \in Nat /\ 0 \in Scores /\ <<OldNumber, "+234">> \in Numbers \X Prefixes
      BY UsersAssumption DEF Scores, Prefixes
  <2>2. first \in UserRows
      BY <1>1, <2>1 DEF UserRows, Statuses
  <2> QED
      BY <2>2, NullAssumption
<1>3. users = [u \in Ids |-> IF u # Legacy THEN Missing ELSE first]
    BY <1>1 DEF Init
<1>4. TypeOK
  <2>1. users \in [Ids -> UserRows \union {Missing}]
      BY <1>2, <1>3
  <2>2. calls \in [Slots -> Seq(Statements)]
      BY DEF Init, Idle
  <2>3. CacheOK
      BY DEF Init, CacheOK
  <2> QED
      BY <2>1, <2>2, <2>3, UsersAssumption DEF Init, TypeOK, Words
<1>5. \A u \in Ids : Exists(u) => u = Legacy
    BY <1>3 DEF Exists
<1>6. \A u \in Ids : word[u] = Missing
    BY DEF Init
<1>7. Fresh /\ LastWordStands
    BY <1>5, <1>6, NullAssumption DEF Fresh, LastWordStands, Init
<1>8. OneUserPerNumber
    BY <1>5 DEF OneUserPerNumber
<1>9. CopiesExplained
    BY DEF Init, CopiesExplained
<1>10. Kept /\ \A c \in Slots : Orderly(calls[c])
    BY DEF Init, Idle, Kept, Orderly
<1> QED
    BY <1>4, <1>7, <1>8, <1>9, <1>10 DEF Inv
-----------------------------------------------------------------------------
(* What requests read.                                                     *)
LEMMA AnswerSame ==
    ASSUME users' = users
    PROVE  \A k \in Keys : Answer(k)' = Answer(k)
BY DEF Answer, EligibleAmount, getStats, Exists

LEMMA AmountTyped ==
    ASSUME NEW row \in UserRows
    PROVE  EligibleAmount(row) \in Nat
<1>1. row.score \in DOMAIN Amounts /\ row.limit \in Nat
    BY DEF UserRows, Scores
<1>2. Amounts[row.score] \in Nat
    BY <1>1, UsersAssumption
<1> QED
    BY <1>1, <1>2 DEF EligibleAmount

LEMMA StatsTyped == getStats \in [Statuses -> Nat]
<1>1. \A s \in Statuses : Cardinality({u \in Ids : Exists(u) /\ users[u].status = s}) \in Nat
    BY UsersAssumption, FS_Subset, FS_CardinalityType
<1> QED
    BY <1>1 DEF getStats

LEMMA AnswerTyped ==
    ASSUME TypeOK, NEW k \in Keys, Answer(k) # Missing
    PROVE  Answer(k) \in CopyOf(k)
<1>0. getUserStatsKey # getUserListKey
    BY DEF getUserListKey, getUserStatsKey
<1>1. CASE k = getUserListKey
    BY <1>0, <1>1 DEF Answer, CopyOf, TypeOK
<1>2. CASE k = getUserStatsKey
    BY <1>0, <1>2, StatsTyped DEF Answer, CopyOf
<1>3. CASE k # getUserListKey /\ k # getUserStatsKey
  <2>1. k[1] \in Ids
      BY <1>3 DEF Keys
  <2>2. Exists(k[1]) /\ users[k[1]] \in UserRows
      BY <1>3, <2>1 DEF Answer, Exists, TypeOK
  <2> QED
      BY <1>3, <2>2, AmountTyped DEF Answer, CopyOf
<1> QED
    BY <1>1, <1>2, <1>3

LEMMA RowRead ==
    ASSUME TypeOK, NEW u \in Ids, Exists(u)
    PROVE  /\ users[u] \in UserRows
           /\ users[u].phone \in Numbers \X Prefixes /\ users[u].status \in Statuses
           /\ users[u].score \in Scores /\ users[u].limit \in Nat /\ users[u].auto \in BOOLEAN
BY DEF TypeOK, Exists, UserRows

\* A row that was just read keeps its status and its number, but for what
\* the request was asked.
LEMMA ReadRowKept ==
    ASSUME Inv, NEW s, s.user \in Ids, Exists(s.user), users' = users, word' = word,
           born \subseteq born', loose \subseteq loose',
           s.asked = Missing => s.row.status = users[s.user].status,
           s.asked # Missing => s.row.status = s.asked,
           s.row.phone = users[s.user].phone \/ s.row.phone[1] \in loose'
    PROVE  WordKept(s)' /\ PhoneKept(s)'
<1>1. s.user \in born
    BY DEF Inv, Fresh
<1>2. word[s.user] # "gone" /\ (word[s.user] # Missing => users[s.user].status = word[s.user])
    BY NullAssumption DEF Inv, LastWordStands
<1>3. WordKept(s)'
    BY <1>1, <1>2 DEF WordKept
<1>4. PhoneKept(s)'
    BY DEF PhoneKept, Exists
<1> QED
    BY <1>3, <1>4

LEMMA NoRowKept ==
    ASSUME NEW s, ~Writes(s)
    PROVE  WordKept(s)' /\ PhoneKept(s)'
BY DEF WordKept, PhoneKept, Writes

LEMMA DeletingKept ==
    ASSUME NEW s, s.what = "delete", s.user \in born'
    PROVE  WordKept(s)' /\ PhoneKept(s)'
BY DEF WordKept, PhoneKept

LEMMA BeginKeeps ==
    ASSUME Inv, NEW c \in Slots, NEW todo \in Seq(Statements), Begin(c, todo),
           born \subseteq born', born' \in SUBSET Ids,
           loose \subseteq loose', loose' \in SUBSET Numbers, faults' \in Nat,
           Orderly(todo), \A i \in DOMAIN todo : WordKept(todo[i])' /\ PhoneKept(todo[i])'
    PROVE  Inv'
<1>1. /\ users' = users /\ cache' = cache /\ excused' = excused /\ word' = word
      /\ calls' = [calls EXCEPT ![c] = todo] /\ calls[c] = Idle
    BY DEF Begin
<1>2. TypeOK'
  <2>1. calls' \in [Slots -> Seq(Statements)] /\ begun' \in Nat /\ overlaps' \in Nat
      BY DEF Begin, Inv, TypeOK
  <2>2. CacheOK'
      BY <1>1 DEF Inv, TypeOK, CacheOK
  <2> QED
      BY <1>1, <2>1, <2>2 DEF Inv, TypeOK
<1>3. \A d \in Slots : calls'[d] = IF d = c THEN todo ELSE calls[d]
    BY <1>1 DEF Inv, TypeOK
<1>4. Fresh' /\ LastWordStands' /\ OneUserPerNumber'
    BY <1>1 DEF Inv, Fresh, LastWordStands, OneUserPerNumber, Exists
<1>5. \A d \in Slots : Orderly(calls[d])'
  <2> SUFFICES ASSUME NEW d \in Slots PROVE Orderly(calls'[d])
      BY DEF Orderly, InOrder, Undropped
  <2> QED
      BY <1>3 DEF Inv
<1>6. Kept'
  <2> SUFFICES ASSUME NEW d \in Slots, NEW i \in DOMAIN calls'[d]
               PROVE  WordKept(calls[d][i])' /\ PhoneKept(calls[d][i])'
      BY DEF Kept
  <2>1. CASE d = c
      BY <1>3, <2>1
  <2>2. CASE d # c
    <3>1. PICK s : s = calls[d][i]
        OBVIOUS
    <3>2. calls'[d][i] = s /\ WordKept(s) /\ PhoneKept(s)
        BY <1>3, <2>2, <3>1 DEF Inv, Kept
    <3>3. WordKept(s)' /\ PhoneKept(s)'
        BY <1>1, <3>2 DEF WordKept, PhoneKept, Exists, NumberIsNew
    <3> QED
        BY <3>2, <3>3
  <2> QED
      BY <2>1, <2>2
<1>7. CopiesExplained'
  <2> SUFFICES ASSUME NEW k \in Keys
               PROVE  \/ cache'[k] \in {Missing, Answer(k)'}
                      \/ k \in excused'
                      \/ \E d \in Slots : k \in Undropped(calls[d])'
      BY DEF CopiesExplained
  <2>1. Answer(k)' = Answer(k)
      BY <1>1, AnswerSame
  <2>2. \A d \in Slots : k \in Undropped(calls[d]) => k \in Undropped(calls[d])'
      BY <1>1, <1>3 DEF Undropped, Idle
  <2> QED
      BY <1>1, <2>1, <2>2 DEF Inv, CopiesExplained
<1> QED
    BY <1>2, <1>4, <1>5, <1>6, <1>7 DEF Inv
-----------------------------------------------------------------------------
(* Requests.                                                               *)
LEMMA LookKeeps ==
    ASSUME Inv, NEW c \in Slots, NEW k \in Keys, Look(c, k)
    PROVE  Inv'
<1>1. Answer(k) \in CopyOf(k)
    BY AnswerTyped DEF Look, Inv
<1>2. PICK s \in Statements : Fill(k, Answer(k)) = <<s>> /\ s.what = "fill" /\ s.key = k
    BY <1>1, FillIs
<1>3. PICK todo : todo = <<s>>
    OBVIOUS
<1>4. todo \in Seq(Statements) /\ \A i \in DOMAIN todo : todo[i] = s
    BY <1>2, <1>3
<1>5. Begin(c, todo)
    BY <1>2, <1>3 DEF Look
<1>6. Orderly(todo)
    BY <1>2, <1>4 DEF Orderly, InOrder, Writes, Drops
<1>7. \A i \in DOMAIN todo : WordKept(todo[i])' /\ PhoneKept(todo[i])'
    BY <1>2, <1>4, NoRowKept DEF Writes
<1>8. faults' \in Nat
    BY DEF Look, Inv, TypeOK
<1>9. born' = born /\ born \in SUBSET Ids /\ loose' = loose /\ loose \in SUBSET Numbers
    BY DEF Look, Inv, TypeOK
<1> QED
    BY <1>4, <1>5, <1>6, <1>7, <1>8, <1>9, BeginKeeps

LEMMA LooksKeep ==
    ASSUME Inv, NEW c \in Slots,
           \/ findAll(c) \/ stats(c)
           \/ \E u \in Ids : \/ getEligibleLoanAmount(c, u)
                            \/ \E form \in Forms : findOne(c, u, form)
    PROVE  Inv'
<1>1. getUserListKey \in Keys /\ getUserStatsKey \in Keys
    BY DEF Keys
<1>2. \A u \in Ids : getEligibleAmountKey(u) \in Keys /\ \A form \in Forms : getUserKey(u, form) \in Keys
    BY CoversAreKeys, EligibleAreKeys
<1> QED
    BY <1>1, <1>2, LookKeeps DEF findAll, stats, getEligibleLoanAmount, findOne

\* A row is saved, and the copies of it are dropped.
LEMMA SaveAndInvalidate ==
    ASSUME NEW u \in Ids, NEW form \in Forms,
           NEW s \in Statements, s.what = "save", s.covers = Covers(u, form),
           NEW d \in Statements, d.what = "drop", d.key = getUserKey(u, form),
           NEW k \in Statements, k.what = "keys", k.key = getUserListKey,
           NEW e \in Statements, e.what = "drop", e.key = getUserStatsKey,
           NEW todo,
           \/ todo = <<s, d, k, e>>
           \/ \E f \in Statements : f.what = "fill" /\ todo = <<f, s, d, k, e>>
    PROVE  /\ todo \in Seq(Statements) /\ Orderly(todo)
           /\ \A i \in DOMAIN todo : todo[i] = s \/ ~Writes(todo[i])
<1>1. CASE todo = <<s, d, k, e>>
  <2>1. /\ todo \in Seq(Statements) /\ DOMAIN todo = 1 .. 4
        /\ todo[1] = s /\ todo[2] = d /\ todo[3] = k /\ todo[4] = e
      BY <1>1
  <2>2. Drops(d) /\ Drops(k) /\ Drops(e)
      BY DEF Drops
  <2>3. s.covers \subseteq Undropped(todo)
      BY <2>1, <2>2, Undropping DEF Covers, Shared
  <2>4. \A i \in DOMAIN todo : i = 1 \/ i = 2 \/ i = 3 \/ i = 4
      BY <2>1
  <2>5. \A i \in DOMAIN todo : /\ i < 1 => todo[i].what = "fill"
                              /\ i > 1 => Drops(todo[i])
      BY <2>1, <2>2, <2>4
  <2>6. 1 \in DOMAIN todo /\ Writes(todo[1])
      BY <2>1 DEF Writes
  <2>7. Orderly(todo)
      BY <2>1, <2>3, <2>5, <2>6, WriteThenDropOrderly
  <2> QED
      BY <2>1, <2>4, <2>7 DEF Writes
<1>2. CASE \E f \in Statements : f.what = "fill" /\ todo = <<f, s, d, k, e>>
  <2>0. PICK f \in Statements : f.what = "fill" /\ todo = <<f, s, d, k, e>>
      BY <1>2
  <2>1. /\ todo \in Seq(Statements) /\ DOMAIN todo = 1 .. 5
        /\ todo[1] = f /\ todo[2] = s /\ todo[3] = d /\ todo[4] = k /\ todo[5] = e
      BY <2>0
  <2>2. Drops(d) /\ Drops(k) /\ Drops(e)
      BY DEF Drops
  <2>3. s.covers \subseteq Undropped(todo)
      BY <2>1, <2>2, Undropping DEF Covers, Shared
  <2>4. \A i \in DOMAIN todo : i = 1 \/ i = 2 \/ i = 3 \/ i = 4 \/ i = 5
      BY <2>1
  <2>5. \A i \in DOMAIN todo : /\ i < 2 => todo[i].what = "fill"
                              /\ i > 2 => Drops(todo[i])
      BY <2>0, <2>1, <2>2, <2>4
  <2>6. 2 \in DOMAIN todo /\ Writes(todo[2])
      BY <2>1 DEF Writes
  <2>7. Orderly(todo)
      BY <2>1, <2>3, <2>5, <2>6, WriteThenDropOrderly
  <2> QED
      BY <2>0, <2>1, <2>4, <2>7 DEF Writes
<1> QED
    BY <1>1, <1>2

LEMMA ChangeKeeps ==
    ASSUME Inv, NEW c \in Slots, NEW u \in Ids, NEW form \in Forms, NEW row \in UserRows,
           NEW asked \in Statuses \union {Missing}, Change(c, u, form, row, asked),
           asked = Missing => row.status = users[u].status,
           asked # Missing => row.status = asked,
           row.phone = users[u].phone \/ row.phone[1] \in loose',
           loose \subseteq loose', loose' \in SUBSET Numbers
    PROVE  Inv'
<1>1. PICK s \in Statements :
        /\ Save(u, row, asked, Covers(u, form)) = <<s>>
        /\ s.what = "save" /\ s.user = u /\ s.row = row /\ s.asked = asked
        /\ s.covers = Covers(u, form)
    BY SaveIs, CoversAreKeys
<1>2. PICK d, k, e \in Statements :
        /\ Invalidate(u, form) = <<d, k, e>>
        /\ d.what = "drop" /\ d.key = getUserKey(u, form)
        /\ k.what = "keys" /\ k.key = getUserListKey
        /\ e.what = "drop" /\ e.key = getUserStatsKey
    BY InvalidateIs
<1>3. PICK todo : todo = <<s, d, k, e>>
    OBVIOUS
<1>4. <<s>> \o <<d, k, e>> = todo
    BY <1>3, Join4
<1>5. Begin(c, todo)
    BY <1>1, <1>2, <1>4 DEF Change
<1>6. /\ todo \in Seq(Statements) /\ Orderly(todo)
      /\ \A i \in DOMAIN todo : todo[i] = s \/ ~Writes(todo[i])
    BY <1>1, <1>2, <1>3, SaveAndInvalidate
<1>7. born' = born /\ born \in SUBSET Ids /\ faults' \in Nat /\ Exists(u)
    BY DEF Change, Inv, TypeOK
<1>8. users' = users /\ word' = word
    BY <1>5 DEF Begin
<1>9. WordKept(s)' /\ PhoneKept(s)'
    BY <1>1, <1>7, <1>8, ReadRowKept
<1>10. \A i \in DOMAIN todo : WordKept(todo[i])' /\ PhoneKept(todo[i])'
    BY <1>6, <1>9, NoRowKept
<1> QED
    BY <1>5, <1>6, <1>7, <1>10, BeginKeeps

LEMMA UpdatePhoneKeeps ==
    ASSUME Inv, NEW c \in Slots, NEW u \in Ids, NEW form \in Forms, NEW n \in Numbers,
           NEW p \in Prefixes, updatePhone(c, u, form, n, p)
    PROVE  Inv'
<1>1. PICK row : row = [users[u] EXCEPT !.phone = <<n, p>>]
    OBVIOUS
<1>2. Exists(u) /\ users[u] \in UserRows
    BY DEF updatePhone, Exists, Inv, TypeOK
<1>3. row \in UserRows /\ row.status = users[u].status /\ row.phone = <<n, p>>
    BY <1>1, <1>2 DEF UserRows
<1>4. Change(c, u, form, row, Missing) /\ loose' = loose \union {n}
    BY <1>1 DEF updatePhone, findById
<1>5. row.phone[1] \in loose' /\ loose \subseteq loose' /\ loose' \in SUBSET Numbers
    BY <1>3, <1>4 DEF Inv, TypeOK
<1> QED
    BY <1>3, <1>4, <1>5, ChangeKeeps

LEMMA UpdateStatusKeeps ==
    ASSUME Inv, NEW c \in Slots, NEW u \in Ids, NEW form \in Forms, NEW status \in Statuses,
           updateStatus(c, u, form, status)
    PROVE  Inv'
<1>1. PICK row : row = [users[u] EXCEPT !.status = status]
    OBVIOUS
<1>2. Exists(u) /\ users[u] \in UserRows
    BY DEF updateStatus, Exists, Inv, TypeOK
<1>3. row \in UserRows /\ row.status = status /\ row.phone = users[u].phone
    BY <1>1, <1>2 DEF UserRows
<1>4. Change(c, u, form, row, status) /\ loose' = loose /\ loose \in SUBSET Numbers
    BY <1>1 DEF updateStatus, findById, Inv, TypeOK
<1>5. status # Missing
    BY NullAssumption
<1> QED
    BY <1>3, <1>4, <1>5, ChangeKeeps

LEMMA SetCreditLimitKeeps ==
    ASSUME Inv, NEW c \in Slots, NEW u \in Ids, NEW form \in Forms, NEW l \in Limits,
           setCreditLimit(c, u, form, l)
    PROVE  Inv'
<1>1. PICK row : row = [users[u] EXCEPT !.limit = l, !.auto = FALSE]
    OBVIOUS
<1>2. Exists(u) /\ users[u] \in UserRows
    BY DEF setCreditLimit, Exists, Inv, TypeOK
<1>3. l \in Nat
    BY UsersAssumption DEF Limits, Scores
<1>4. row \in UserRows /\ row.status = users[u].status /\ row.phone = users[u].phone
    BY <1>1, <1>2, <1>3 DEF UserRows
<1>5. Change(c, u, form, row, Missing) /\ loose' = loose /\ loose \in SUBSET Numbers
    BY <1>1 DEF setCreditLimit, findById, Inv, TypeOK
<1> QED
    BY <1>4, <1>5, ChangeKeeps

LEMMA CreateKeeps ==
    ASSUME Inv, NEW c \in Slots, NEW u \in Ids, NEW n \in Numbers, NEW status \in Statuses,
           NEW score \in Scores, create(c, u, n, status, score)
    PROVE  Inv'
<1>1. PICK row : row = NewRow(n, status, score)
    OBVIOUS
<1>2. row \in UserRows /\ row.status = status /\ row.phone = <<n, "0">>
  <2>1. Amounts[score] \in Nat
      BY UsersAssumption DEF Scores
  <2> QED
      BY <1>1, <2>1 DEF NewRow, UserRows, Prefixes
<1>3. PICK s \in Statements :
        /\ Save(u, row, status, Shared) = <<s>>
        /\ s.what = "save" /\ s.user = u /\ s.row = row /\ s.asked = status /\ s.covers = Shared
    BY <1>2, SaveIs, SharedAreKeys
<1>4. PICK k, e \in Statements :
        /\ DropShared = <<k, e>>
        /\ k.what = "keys" /\ k.key = getUserListKey
        /\ e.what = "drop" /\ e.key = getUserStatsKey
    BY DropSharedIs
<1>5. PICK todo : todo = <<s, k, e>>
    OBVIOUS
<1>6. <<s>> \o <<k, e>> = todo
    BY <1>5, Join3
<1>7. Begin(c, todo)
    BY <1>1, <1>3, <1>4, <1>6 DEF create
<1>8. /\ todo \in Seq(Statements) /\ DOMAIN todo = 1 .. 3
      /\ todo[1] = s /\ todo[2] = k /\ todo[3] = e
    BY <1>5
<1>9. \A i \in DOMAIN todo : i = 1 \/ i = 2 \/ i = 3
    BY <1>8
<1>10. Orderly(todo)
  <2>1. Drops(k) /\ Drops(e)
      BY <1>4 DEF Drops
  <2>2. s.covers \subseteq Undropped(todo)
      BY <1>3, <1>4, <1>8, <2>1, Undropping DEF Shared
  <2>3. \A i \in DOMAIN todo : /\ i < 1 => todo[i].what = "fill"
                              /\ i > 1 => Drops(todo[i])
      BY <1>8, <1>9, <2>1
  <2>4. 1 \in DOMAIN todo /\ Writes(todo[1])
      BY <1>3, <1>8 DEF Writes
  <2> QED
      BY <1>3, <1>8, <2>2, <2>3, <2>4, WriteThenDropOrderly
<1>11. /\ u \notin born /\ born' = born \union {u} /\ born \in SUBSET Ids
       /\ loose' = loose /\ loose \in SUBSET Numbers /\ faults' \in Nat
    BY DEF create, Inv, TypeOK
<1>12. users' = users /\ word' = word
    BY <1>7 DEF Begin
<1>13. WordKept(s)'
  <2>1. word[u] # "gone" /\ status # Missing /\ u \in born'
      BY <1>11, NullAssumption DEF Inv, Fresh
  <2> QED
      BY <1>2, <1>3, <1>12, <2>1 DEF WordKept
<1>14. PhoneKept(s)'
  <2>1. ~Exists(u) /\ \A v \in Ids : ~(Exists(v) /\ users[v].phone[1] = n)
      BY <1>11 DEF Inv, Fresh, create, findByPhone
  <2>2. ~Exists(u)' /\ NumberIsNew(n)'
      BY <1>12, <2>1 DEF Exists, NumberIsNew
  <2>3. s.row.phone[1] = n /\ s.row.phone[2] = "0" /\ s.user = u
      BY <1>2, <1>3
  <2> QED
      BY <2>2, <2>3 DEF PhoneKept
<1>15. \A i \in DOMAIN todo : WordKept(todo[i])' /\ PhoneKept(todo[i])'
  <2>1. ~Writes(k) /\ ~Writes(e)
      BY <1>4 DEF Writes
  <2> QED
      BY <1>8, <1>9, <1>13, <1>14, <2>1, NoRowKept
<1> QED
    BY <1>7, <1>8, <1>10, <1>11, <1>15, BeginKeeps

LEMMA EligibleCopy ==
    ASSUME NEW u \in Ids
    PROVE  CopyOf(getEligibleAmountKey(u)) = Nat
<1>1. getEligibleAmountKey(u) # getUserListKey /\ getEligibleAmountKey(u) # getUserStatsKey
    BY DEF getEligibleAmountKey, getUserListKey, getUserStatsKey
<1>2. getEligibleAmountKey(u)[2] = "eligible"
    BY DEF getEligibleAmountKey
<1> QED
    BY <1>1, <1>2 DEF CopyOf

LEMMA AutoCreditLimitKeeps ==
    ASSUME Inv, NEW c \in Slots, NEW u \in Ids, NEW form \in Forms, autoCreditLimit(c, u, form)
    PROVE  Inv'
<1>1. PICK key : key = getEligibleAmountKey(u)
    OBVIOUS
<1>2. key \in Keys /\ CopyOf(key) = Nat
    BY <1>1, EligibleAreKeys, EligibleCopy
<1>3. Exists(u) /\ users[u] \in UserRows
    BY DEF autoCreditLimit, Exists, Inv, TypeOK
<1>4. PICK amount : amount = IF cache[key] # Missing THEN cache[key] ELSE EligibleAmount(users[u])
    OBVIOUS
<1>5. amount \in Nat
    BY <1>2, <1>3, <1>4, AmountTyped DEF Inv, TypeOK, CacheOK
<1>6. PICK row : row = [users[u] EXCEPT !.limit = amount, !.auto = TRUE]
    OBVIOUS
<1>7. row \in UserRows /\ row.status = users[u].status /\ row.phone = users[u].phone
    BY <1>3, <1>5, <1>6 DEF UserRows
<1>8. PICK s \in Statements :
        /\ Save(u, row, Missing, Covers(u, form)) = <<s>>
        /\ s.what = "save" /\ s.user = u /\ s.row = row /\ s.asked = Missing
        /\ s.covers = Covers(u, form)
    BY <1>7, SaveIs, CoversAreKeys
<1>9. PICK d, k, e \in Statements :
        /\ Invalidate(u, form) = <<d, k, e>>
        /\ d.what = "drop" /\ d.key = getUserKey(u, form)
        /\ k.what = "keys" /\ k.key = getUserListKey
        /\ e.what = "drop" /\ e.key = getUserStatsKey
    BY InvalidateIs
<1>10. PICK f \in Statements : Fill(key, amount) = <<f>> /\ f.what = "fill" /\ f.key = key
    BY <1>2, <1>5, FillIs
<1>11. PICK todo : todo = IF cache[key] # Missing THEN <<s, d, k, e>> ELSE <<f, s, d, k, e>>
    OBVIOUS
<1>12. Begin(c, todo)
  <2>1. Begin(c, (IF cache[key] # Missing THEN <<>> ELSE <<f>>) \o <<s>> \o <<d, k, e>>)
      BY <1>1, <1>4, <1>6, <1>8, <1>9, <1>10 DEF autoCreditLimit, findById
  <2>2. <<>> \o <<s>> = <<s>> /\ <<f>> \o <<s>> = <<f, s>>
      BY Join2
  <2>3. <<s>> \o <<d, k, e>> = <<s, d, k, e>>
      BY Join4
  <2>4. <<f, s>> \o <<d, k, e>> = <<f, s, d, k, e>>
      BY Join5, Zenon
  <2>5. CASE cache[key] # Missing
      BY <1>11, <2>1, <2>2, <2>3, <2>5
  <2>6. CASE cache[key] = Missing
      BY <1>11, <2>1, <2>2, <2>4, <2>6
  <2> QED
      BY <2>5, <2>6
<1>13. /\ todo \in Seq(Statements) /\ Orderly(todo)
       /\ \A i \in DOMAIN todo : todo[i] = s \/ ~Writes(todo[i])
    BY <1>8, <1>9, <1>10, <1>11, SaveAndInvalidate
<1>14. /\ born' = born /\ born \in SUBSET Ids /\ faults' \in Nat
       /\ loose' = loose /\ loose \in SUBSET Numbers
    BY DEF autoCreditLimit, Inv, TypeOK
<1>15. users' = users /\ word' = word
    BY <1>12 DEF Begin
<1>16. WordKept(s)' /\ PhoneKept(s)'
    BY <1>3, <1>7, <1>8, <1>14, <1>15, ReadRowKept
<1>17. \A i \in DOMAIN todo : WordKept(todo[i])' /\ PhoneKept(todo[i])'
    BY <1>13, <1>16, NoRowKept
<1> QED
    BY <1>12, <1>13, <1>14, <1>17, BeginKeeps

LEMMA StatusRow ==
    ASSUME NEW old \in UserRows, NEW status \in Statuses
    PROVE  /\ [old EXCEPT !.status = status] \in UserRows
           /\ [old EXCEPT !.status = status].status = status
           /\ [old EXCEPT !.status = status].phone = old.phone
BY DEF UserRows

LEMMA BulkUpdateStatusKeeps ==
    ASSUME Inv, NEW c \in Slots, NEW u \in Ids, NEW v \in Ids, NEW status \in Statuses,
           bulkUpdateStatus(c, u, v, status)
    PROVE  Inv'
<1> DEFINE Set(w) == [findById(w, "id") EXCEPT !.status = status]
           both == Shared \union {getUserKey(u, "id"), getUserKey(v, "id")}
<1>1. u # v /\ Exists(u) /\ status # Missing
    BY NullAssumption DEF bulkUpdateStatus
<1>2. \A w \in Ids : Exists(w) =>
        Set(w) \in UserRows /\ Set(w).status = status /\ Set(w).phone = users[w].phone
    BY RowRead, StatusRow DEF findById, Inv
<1>3. /\ born' = born /\ born \in SUBSET Ids /\ faults' \in Nat
      /\ loose' = loose /\ loose \in SUBSET Numbers /\ users' = users /\ word' = word
    BY DEF bulkUpdateStatus, Begin, Inv, TypeOK
<1>4. CASE ~Exists(v)
  <2>1. PICK s \in Statements :
          /\ Save(u, Set(u), status, {}) = <<s>>
          /\ s.what = "save" /\ s.user = u /\ s.row = Set(u) /\ s.asked = status /\ s.covers = {}
      BY <1>1, <1>2, SaveIs
  <2>2. PICK todo : todo = <<s>>
      OBVIOUS
  <2>3. todo \in Seq(Statements) /\ DOMAIN todo = {1} /\ todo[1] = s
      BY <2>1, <2>2
  <2>4. Begin(c, todo)
      BY <1>4, <2>1, <2>2 DEF bulkUpdateStatus
  <2>5. Orderly(todo)
      BY <2>1, <2>3 DEF Orderly, InOrder, Drops
  <2>6. WordKept(s)' /\ PhoneKept(s)'
      BY <1>1, <1>2, <1>3, <2>1, ReadRowKept
  <2> QED
      BY <1>3, <2>3, <2>4, <2>5, <2>6, BeginKeeps
<1>5. CASE Exists(v)
  <2>0. both \in SUBSET Keys /\ getUserKey(u, "id") \in Keys /\ "id" \in Forms
      BY CoversAreKeys, SharedAreKeys DEF Forms
  <2>1. PICK s \in Statements :
          /\ Save(u, Set(u), status, both) = <<s>>
          /\ s.what = "save" /\ s.user = u /\ s.row = Set(u) /\ s.asked = status /\ s.covers = both
      BY <1>1, <1>2, <2>0, SaveIs
  <2>2. PICK t \in Statements :
          /\ Save(v, Set(v), status, both) = <<t>>
          /\ t.what = "save" /\ t.user = v /\ t.row = Set(v) /\ t.asked = status /\ t.covers = both
      BY <1>2, <1>5, <2>0, SaveIs
  <2>3. PICK x \in Statements :
          Drop(getUserKey(u, "id")) = <<x>> /\ x.what = "drop" /\ x.key = getUserKey(u, "id")
      BY <2>0, DropIs
  <2>4. PICK d, k, e \in Statements :
          /\ Invalidate(v, "id") = <<d, k, e>>
          /\ d.what = "drop" /\ d.key = getUserKey(v, "id")
          /\ k.what = "keys" /\ k.key = getUserListKey
          /\ e.what = "drop" /\ e.key = getUserStatsKey
      BY <2>0, InvalidateIs
  <2>5. PICK todo : todo = <<s, t, x, d, k, e>>
      OBVIOUS
  <2>6. Begin(c, todo)
    <3>1. <<s>> \o <<t>> = <<s, t>>
        BY Join2
    <3>2. <<s, t>> \o <<x>> = <<s, t, x>>
        BY Join3
    <3>3. <<s, t, x>> \o <<d, k, e>> = todo
        BY <2>5, Join6
    <3>4. Begin(c, <<s>> \o <<t>> \o <<x>> \o <<d, k, e>>)
        BY <1>5, <2>1, <2>2, <2>3, <2>4 DEF bulkUpdateStatus
    <3> QED
        BY <3>1, <3>2, <3>3, <3>4
  <2>7. /\ todo \in Seq(Statements) /\ DOMAIN todo = 1 .. 6
        /\ todo[1] = s /\ todo[2] = t /\ todo[3] = x /\ todo[4] = d /\ todo[5] = k /\ todo[6] = e
      BY <2>5
  <2>8. \A i \in DOMAIN todo : i = 1 \/ i = 2 \/ i = 3 \/ i = 4 \/ i = 5 \/ i = 6
      BY <2>7
  <2>9. Drops(x) /\ Drops(d) /\ Drops(k) /\ Drops(e) /\ ~Drops(s) /\ ~Drops(t)
      BY <2>1, <2>2, <2>3, <2>4 DEF Drops
  <2>10. ~Writes(x) /\ ~Writes(d) /\ ~Writes(k) /\ ~Writes(e) /\ s.user # t.user
      BY <1>1, <2>1, <2>2, <2>3, <2>4 DEF Writes
  <2>11. both \subseteq Undropped(todo)
      BY <2>3, <2>4, <2>7, <2>9, Undropping DEF Shared
  <2>12. \A i \in DOMAIN todo : Drops(todo[i]) <=> i > 2
      BY <2>7, <2>8, <2>9
  <2>13. \A i, j \in DOMAIN todo :
           Writes(todo[i]) /\ Writes(todo[j]) /\ todo[j].user = todo[i].user => j = i
      BY <2>7, <2>8, <2>10
  <2>14. \A i \in DOMAIN todo : /\ todo[i].what = "save" => todo[i].covers \subseteq Undropped(todo)
                               /\ todo[i].what # "delete"
      BY <2>1, <2>2, <2>3, <2>4, <2>7, <2>8, <2>11
  <2>15. Orderly(todo)
    <3> SUFFICES ASSUME NEW i \in DOMAIN todo PROVE InOrder(todo, i)
        BY DEF Orderly
    <3>1. Drops(todo[i]) => \A j \in DOMAIN todo : j > i => Drops(todo[j])
      <4>1. \A j \in DOMAIN todo : j > i /\ i > 2 => j > 2
          BY <2>7
      <4> QED
          BY <2>12, <4>1
    <3> QED
        BY <2>13, <2>14, <3>1 DEF InOrder
  <2>16. WordKept(s)' /\ PhoneKept(s)'
      BY <1>1, <1>2, <1>3, <2>1, ReadRowKept
  <2>17. WordKept(t)' /\ PhoneKept(t)'
      BY <1>1, <1>2, <1>3, <1>5, <2>2, ReadRowKept
  <2>18. \A i \in DOMAIN todo : WordKept(todo[i])' /\ PhoneKept(todo[i])'
      BY <2>7, <2>8, <2>10, <2>16, <2>17, NoRowKept
  <2> QED
      BY <1>3, <2>6, <2>7, <2>15, <2>18, BeginKeeps
<1> QED
    BY <1>4, <1>5

LEMMA RemoveKeeps ==
    ASSUME Inv, NEW c \in Slots, NEW u \in Ids, remove(c, u)
    PROVE  Inv'
<1>1. PICK s : s = [what |-> "delete", user |-> u]
    OBVIOUS
<1>2. s \in Statements /\ s.what = "delete" /\ s.user = u /\ Writes(s)
    BY <1>1 DEF Statements, Deleting, Writes
<1>3. PICK d, k, e \in Statements :
        /\ Invalidate(u, "id") = <<d, k, e>>
        /\ d.what = "drop" /\ d.key = getUserKey(u, "id")
        /\ k.what = "keys" /\ k.key = getUserListKey
        /\ e.what = "drop" /\ e.key = getUserStatsKey
  <2>1. "id" \in Forms
      BY DEF Forms
  <2> QED
      BY <2>1, InvalidateIs
<1>4. PICK todo : todo = <<s, d, k, e>>
    OBVIOUS
<1>5. Begin(c, todo)
  <2>1. <<s>> \o <<d, k, e>> = todo
      BY <1>4, Join4
  <2> QED
      BY <1>1, <1>3, <2>1 DEF remove
<1>6. /\ todo \in Seq(Statements) /\ DOMAIN todo = 1 .. 4
      /\ todo[1] = s /\ todo[2] = d /\ todo[3] = k /\ todo[4] = e
    BY <1>2, <1>4
<1>7. \A i \in DOMAIN todo : i = 1 \/ i = 2 \/ i = 3 \/ i = 4
    BY <1>6
<1>8. Orderly(todo)
  <2>1. Drops(d) /\ Drops(k) /\ Drops(e)
      BY <1>3 DEF Drops
  <2>2. Covers(u, "id") \subseteq Undropped(todo)
      BY <1>3, <1>6, <2>1, Undropping DEF Covers, Shared
  <2>3. \A i \in DOMAIN todo : /\ i < 1 => todo[i].what = "fill"
                              /\ i > 1 => Drops(todo[i])
      BY <1>6, <1>7, <2>1
  <2> QED
      BY <1>2, <1>6, <2>2, <2>3, WriteThenDropOrderly
<1>9. /\ born' = born /\ born \in SUBSET Ids /\ faults' \in Nat /\ u \in born
      /\ loose' = loose /\ loose \in SUBSET Numbers
    BY DEF remove, Inv, TypeOK, Fresh
<1>10. \A i \in DOMAIN todo : WordKept(todo[i])' /\ PhoneKept(todo[i])'
  <2>1. ~Writes(d) /\ ~Writes(k) /\ ~Writes(e)
      BY <1>3 DEF Writes
  <2>2. WordKept(s)' /\ PhoneKept(s)'
      BY <1>2, <1>9, DeletingKept
  <2> QED
      BY <1>6, <1>7, <2>1, <2>2, NoRowKept
<1> QED
    BY <1>5, <1>6, <1>8, <1>9, <1>10, BeginKeeps

LEMMA AwardPointsKeeps ==
    ASSUME Inv, NEW c \in Slots, NEW u \in Ids, awardPoints(c, u)
    PROVE  Inv'
<1>1. PICK l : l = IF users[u].auto THEN Amounts[1] ELSE users[u].limit
    OBVIOUS
<1>2. Exists(u) /\ users[u] \in UserRows /\ users[u].limit \in Nat
    BY DEF awardPoints, Exists, Inv, TypeOK, UserRows
<1>3. l \in Nat /\ 1 \in Scores
    BY <1>1, <1>2, UsersAssumption DEF Scores
<1>4. PICK row : row = [users[u] EXCEPT !.score = 1, !.limit = l]
    OBVIOUS
<1>5. row \in UserRows /\ row.status = users[u].status /\ row.phone = users[u].phone
    BY <1>2, <1>3, <1>4 DEF UserRows
<1>6. row = [users[u] EXCEPT !.score = 1, !.limit = IF users[u].auto THEN Amounts[1] ELSE @]
    BY <1>1, <1>2, <1>4 DEF UserRows
<1> DEFINE key == getEligibleAmountKey(u)
           all == Covers(u, "id") \union {key}
<1>7. all \in SUBSET Keys /\ key \in Keys /\ "id" \in Forms
    BY CoversAreKeys, EligibleAreKeys DEF Forms
<1>8. PICK s \in Statements :
        /\ Save(u, row, Missing, all) = <<s>>
        /\ s.what = "save" /\ s.user = u /\ s.row = row /\ s.asked = Missing /\ s.covers = all
    BY <1>5, <1>7, SaveIs
<1>9. PICK d, k, e \in Statements :
        /\ Invalidate(u, "id") = <<d, k, e>>
        /\ d.what = "drop" /\ d.key = getUserKey(u, "id")
        /\ k.what = "keys" /\ k.key = getUserListKey
        /\ e.what = "drop" /\ e.key = getUserStatsKey
    BY <1>7, InvalidateIs
<1>10. PICK x \in Statements : Drop(key) = <<x>> /\ x.what = "drop" /\ x.key = key
    BY <1>7, DropIs
<1>11. PICK todo : todo = <<s, d, k, e, x>>
    OBVIOUS
<1>12. Begin(c, todo)
  <2>1. <<s>> \o <<d, k, e>> = <<s, d, k, e>>
      BY Join4
  <2>2. <<s, d, k, e>> \o <<x>> = <<s, d, k, e, x>>
      BY Join5, Zenon
  <2>3. Begin(c, <<s>> \o <<d, k, e>> \o <<x>>)
      BY <1>6, <1>8, <1>9, <1>10 DEF awardPoints
  <2> QED
      BY <1>11, <2>1, <2>2, <2>3
<1>13. /\ todo \in Seq(Statements) /\ DOMAIN todo = 1 .. 5
       /\ todo[1] = s /\ todo[2] = d /\ todo[3] = k /\ todo[4] = e /\ todo[5] = x
    BY <1>11
<1>14. \A i \in DOMAIN todo : i = 1 \/ i = 2 \/ i = 3 \/ i = 4 \/ i = 5
    BY <1>13
<1>15. Orderly(todo)
  <2>1. Drops(d) /\ Drops(k) /\ Drops(e) /\ Drops(x)
      BY <1>9, <1>10 DEF Drops
  <2>2. s.covers \subseteq Undropped(todo)
      BY <1>8, <1>9, <1>10, <1>13, <2>1, Undropping DEF Covers, Shared
  <2>3. \A i \in DOMAIN todo : /\ i < 1 => todo[i].what = "fill"
                              /\ i > 1 => Drops(todo[i])
      BY <1>13, <1>14, <2>1
  <2>4. 1 \in DOMAIN todo /\ Writes(todo[1])
      BY <1>8, <1>13 DEF Writes
  <2> QED
      BY <1>8, <1>13, <2>2, <2>3, <2>4, WriteThenDropOrderly
<1>16. /\ born' = born /\ born \in SUBSET Ids /\ faults' \in Nat
       /\ loose' = loose /\ loose \in SUBSET Numbers /\ users' = users /\ word' = word
    BY <1>12 DEF awardPoints, Begin, Inv, TypeOK
<1>17. WordKept(s)' /\ PhoneKept(s)'
    BY <1>2, <1>5, <1>8, <1>16, ReadRowKept
<1>18. \A i \in DOMAIN todo : WordKept(todo[i])' /\ PhoneKept(todo[i])'
  <2>1. ~Writes(d) /\ ~Writes(k) /\ ~Writes(e) /\ ~Writes(x)
      BY <1>9, <1>10 DEF Writes
  <2> QED
      BY <1>13, <1>14, <1>17, <2>1, NoRowKept
<1> QED
    BY <1>12, <1>13, <1>15, <1>16, <1>18, BeginKeeps

LEMMA RequestKeeps ==
    ASSUME Inv, NEW c \in Slots, Request(c)
    PROVE  Inv'
BY LooksKeep, RemoveKeeps, AwardPointsKeeps, CreateKeeps, BulkUpdateStatusKeeps,
   AutoCreditLimitKeeps, UpdatePhoneKeeps, UpdateStatusKeeps, SetCreditLimitKeeps
DEF Request
-----------------------------------------------------------------------------
(* Statements that leave USERS alone, and faults.                          *)
LEMMA CallsStep ==
    ASSUME Inv, NEW c \in Slots, NEW rest \in Seq(Statements), Orderly(rest),
           calls' = [calls EXCEPT ![c] = rest]
    PROVE  /\ calls' \in [Slots -> Seq(Statements)]
           /\ \A d \in Slots : calls'[d] = IF d = c THEN rest ELSE calls[d]
           /\ \A d \in Slots : Orderly(calls[d])'
<1>1. /\ calls' \in [Slots -> Seq(Statements)]
      /\ \A d \in Slots : calls'[d] = IF d = c THEN rest ELSE calls[d]
    BY DEF Inv, TypeOK
<1>2. \A d \in Slots : Orderly(calls[d])'
  <2> SUFFICES ASSUME NEW d \in Slots PROVE Orderly(calls'[d])
      BY DEF Orderly, InOrder, Undropped
  <2> QED
      BY <1>1 DEF Inv
<1> QED
    BY <1>1, <1>2

\* The first of the statements that a request has still to send.
LEMMA FirstIs ==
    ASSUME Inv, NEW c \in Slots, calls[c] # Idle
    PROVE  /\ calls[c] \in Seq(Statements) /\ calls[c] # <<>>
           /\ Head(calls[c]) \in Statements /\ Head(calls[c]) = calls[c][1]
           /\ 1 \in DOMAIN calls[c] /\ InOrder(calls[c], 1) /\ Orderly(calls[c])
           /\ WordKept(Head(calls[c])) /\ PhoneKept(Head(calls[c]))
           /\ Tail(calls[c]) \in Seq(Statements) /\ Orderly(Tail(calls[c]))
<1>1. calls[c] \in Seq(Statements) /\ calls[c] # <<>> /\ Orderly(calls[c])
    BY DEF Inv, TypeOK, Idle
<1>2. PICK todo \in Seq(Statements) : todo = calls[c]
    BY <1>1
<1>3. /\ Head(todo) \in Statements /\ Head(todo) = todo[1] /\ 1 \in DOMAIN todo
      /\ Tail(todo) \in Seq(Statements)
    BY <1>1, <1>2, Rest
<1>4. Orderly(Tail(todo))
    BY <1>1, <1>2, RestOrderly
<1> QED
    BY <1>1, <1>2, <1>3, <1>4 DEF Orderly, Inv, Kept

\* rest writes nothing that todo does not.
WritesNoMore(rest, todo) ==
    \A j \in DOMAIN rest : Writes(rest[j]) =>
        \E i \in DOMAIN todo :
            /\ todo[i].what = rest[j].what /\ todo[i].user = rest[j].user
            /\ rest[j].what = "save" => todo[i].row = rest[j].row /\ todo[i].asked = rest[j].asked

LEMMA QuietKeeps ==
    ASSUME Inv, NEW c \in Slots, NEW rest \in Seq(Statements), Orderly(rest),
           WritesNoMore(rest, calls[c]), calls' = [calls EXCEPT ![c] = rest],
           UNCHANGED <<users, born, loose, word, begun, overlaps>>,
           CacheOK', excused' \in SUBSET Keys, faults' \in Nat, CopiesExplained'
    PROVE  Inv'
<1>1. /\ calls' \in [Slots -> Seq(Statements)]
      /\ \A d \in Slots : calls'[d] = IF d = c THEN rest ELSE calls[d]
      /\ \A d \in Slots : Orderly(calls[d])'
    BY CallsStep
<1>2. TypeOK'
    BY <1>1 DEF Inv, TypeOK
<1>3. Fresh' /\ LastWordStands' /\ OneUserPerNumber'
    BY DEF Inv, Fresh, LastWordStands, OneUserPerNumber, Exists
<1>4. Kept'
  <2> SUFFICES ASSUME NEW d \in Slots, NEW j \in DOMAIN calls'[d]
               PROVE  WordKept(calls[d][j])' /\ PhoneKept(calls[d][j])'
      BY DEF Kept
  <2>1. PICK s : s = calls'[d][j]
      OBVIOUS
  <2>2. CASE ~Writes(s)
      BY <2>1, <2>2, NoRowKept
  <2>3. CASE Writes(s)
    <3>1. PICK t : /\ WordKept(t) /\ PhoneKept(t) /\ t.what = s.what /\ t.user = s.user
                   /\ s.what = "save" => t.row = s.row /\ t.asked = s.asked
      <4>1. CASE d = c
          BY <1>1, <2>1, <2>3, <4>1 DEF WritesNoMore, Inv, Kept
      <4>2. CASE d # c
          BY <1>1, <2>1, <2>3, <4>2 DEF Inv, Kept
      <4> QED
          BY <4>1, <4>2
    <3>2. WordKept(s)' /\ PhoneKept(s)'
        BY <2>3, <3>1 DEF WordKept, PhoneKept, Exists, NumberIsNew, Writes
    <3> QED
        BY <2>1, <3>2
  <2> QED
      BY <2>2, <2>3
<1> QED
    BY <1>1, <1>2, <1>3, <1>4 DEF Inv

LEMMA TailWritesNoMore ==
    ASSUME NEW todo \in Seq(Statements), todo # <<>>
    PROVE  WritesNoMore(Tail(todo), todo)
BY Rest DEF WritesNoMore

LEMMA UndroppedKeys ==
    ASSUME NEW todo \in Seq(Statements)
    PROVE  Undropped(todo) \in SUBSET Keys
<1>1. \A i \in DOMAIN todo : todo[i] \in Statements
    OBVIOUS
<1> QED
    BY <1>1, StatementKinds DEF Undropped, Drops

\* A fault excuses what the request was about to drop and drops no more.
LEMMA BreaksKeeps ==
    ASSUME Inv, NEW c \in Slots, NEW rest \in Seq(Statements), Orderly(rest),
           WritesNoMore(rest, calls[c]), Breaks(c, rest),
           UNCHANGED <<users, born, cache, begun, overlaps, loose, word>>, faults' \in Nat
    PROVE  Inv'
<1>1. calls' = [calls EXCEPT ![c] = rest]
    BY DEF Breaks
<1>2. /\ calls[c] \in Seq(Statements)
      /\ \A d \in Slots : calls'[d] = IF d = c THEN rest ELSE calls[d]
    BY <1>1, CallsStep DEF Inv, TypeOK
<1>3. excused' \in SUBSET Keys
    BY <1>2, UndroppedKeys DEF Breaks, Inv, TypeOK
<1>4. CacheOK'
    BY DEF Inv, TypeOK, CacheOK
<1>5. CopiesExplained'
  <2> SUFFICES ASSUME NEW k \in Keys, cache[k] \notin {Missing, Answer(k)}, k \notin excused'
               PROVE  \E d \in Slots : k \in Undropped(calls'[d])
    <3>1. cache' = cache /\ \A k \in Keys : Answer(k)' = Answer(k)
        BY AnswerSame
    <3> QED
        BY <3>1 DEF CopiesExplained, Undropped
  <2>1. k \notin excused
      BY DEF Breaks
  <2>2. PICK d \in Slots : k \in Undropped(calls[d])
      BY <2>1 DEF Inv, CopiesExplained
  <2>3. CASE d = c
    <3>1. k \in Undropped(rest)
        BY <2>2, <2>3 DEF Breaks, Old
    <3> QED
        BY <1>2, <3>1
  <2>4. CASE d # c
      BY <1>2, <2>2, <2>4
  <2> QED
      BY <2>3, <2>4
<1> QED
    BY <1>1, <1>3, <1>4, <1>5, QuietKeeps

LEMMA FillKeeps == ASSUME Inv, NEW c \in Slots, fill(c) PROVE Inv'
<1>1. PICK todo : todo = calls[c]
    OBVIOUS
<1>2. PICK s : s = Head(todo)
    OBVIOUS
<1>3. /\ todo \in Seq(Statements) /\ todo # <<>> /\ s \in Statements /\ s.what = "fill"
      /\ Tail(todo) \in Seq(Statements) /\ Orderly(Tail(todo))
    BY <1>1, <1>2, FirstIs DEF fill, Head1
<1>4. s.key \in Keys /\ s.copy \in CopyOf(s.key) /\ ~Drops(s)
    BY <1>3, StatementKinds DEF Drops
<1>5. /\ cache' = [cache EXCEPT ![s.key] = s.copy] /\ calls' = [calls EXCEPT ![c] = Tail(todo)]
      /\ UNCHANGED <<users, born, loose, word, begun, overlaps, faults>>
      /\ excused' = IF s.copy # Answer(s.key) THEN excused \union {s.key} ELSE excused \ {s.key}
    BY <1>1, <1>2 DEF fill, Proceed
<1>6. \A k \in Keys : cache'[k] = IF k = s.key THEN s.copy ELSE cache[k]
    BY <1>4, <1>5 DEF Inv, TypeOK, CacheOK
<1>7. CacheOK'
  <2>1. cache' = [k \in Keys |-> cache'[k]]
      BY <1>5 DEF Inv, TypeOK, CacheOK
  <2> QED
      BY <1>4, <1>6, <2>1 DEF Inv, TypeOK, CacheOK
<1>8. CopiesExplained'
  <2> SUFFICES ASSUME NEW k \in Keys, cache'[k] \notin {Missing, Answer(k)}, k \notin excused'
               PROVE  \E d \in Slots : k \in Undropped(calls'[d])
    <3>1. \A k \in Keys : Answer(k)' = Answer(k)
        BY <1>5, AnswerSame
    <3> QED
        BY <3>1 DEF CopiesExplained, Undropped
  <2>1. k # s.key
      BY <1>5, <1>6
  <2>2. PICK d \in Slots : k \in Undropped(calls[d])
      BY <1>5, <1>6, <2>1 DEF Inv, CopiesExplained
  <2>3. CASE d = c
    <3>1. k \in Undropped(Tail(todo))
        BY <1>1, <1>2, <1>3, <1>4, <2>2, <2>3, UndroppedRest
    <3> QED
        BY <1>3, <1>5, <3>1, CallsStep
  <2>4. CASE d # c
      BY <1>3, <1>5, <2>2, <2>4, CallsStep
  <2> QED
      BY <2>3, <2>4
<1>9. excused' \in SUBSET Keys /\ faults' \in Nat
    BY <1>4, <1>5 DEF Inv, TypeOK
<1>10. WritesNoMore(Tail(todo), calls[c])
    BY <1>1, <1>3, TailWritesNoMore
<1> QED
    BY <1>3, <1>5, <1>7, <1>8, <1>9, <1>10, QuietKeeps

LEMMA DropKeeps == ASSUME Inv, NEW c \in Slots, drop(c) PROVE Inv'
<1>1. PICK todo : todo = calls[c]
    OBVIOUS
<1>2. PICK s : s = Head(todo)
    OBVIOUS
<1>3. /\ todo \in Seq(Statements) /\ todo # <<>> /\ s \in Statements /\ s.what = "drop"
      /\ Tail(todo) \in Seq(Statements) /\ Orderly(Tail(todo))
    BY <1>1, <1>2, FirstIs DEF drop, Head1
<1>4. s.key \in Keys
    BY <1>3, StatementKinds DEF Drops
<1>5. /\ cache' = [cache EXCEPT ![s.key] = Missing] /\ calls' = [calls EXCEPT ![c] = Tail(todo)]
      /\ UNCHANGED <<users, born, loose, word, begun, overlaps, faults>>
      /\ excused' = excused \ {s.key}
    BY <1>1, <1>2 DEF drop, Proceed
<1>6. \A k \in Keys : cache'[k] = IF k = s.key THEN Missing ELSE cache[k]
    BY <1>4, <1>5 DEF Inv, TypeOK, CacheOK
<1>7. CacheOK'
  <2>1. cache' = [k \in Keys |-> cache'[k]]
      BY <1>5 DEF Inv, TypeOK, CacheOK
  <2> QED
      BY <1>6, <2>1 DEF Inv, TypeOK, CacheOK
<1>8. CopiesExplained'
  <2> SUFFICES ASSUME NEW k \in Keys, cache'[k] \notin {Missing, Answer(k)}, k \notin excused'
               PROVE  \E d \in Slots : k \in Undropped(calls'[d])
    <3>1. \A k \in Keys : Answer(k)' = Answer(k)
        BY <1>5, AnswerSame
    <3> QED
        BY <3>1 DEF CopiesExplained, Undropped
  <2>1. k # s.key
      BY <1>6
  <2>2. PICK d \in Slots : k \in Undropped(calls[d])
      BY <1>5, <1>6, <2>1 DEF Inv, CopiesExplained
  <2>3. CASE d = c
    <3>1. k \in Undropped(Tail(todo))
        BY <1>1, <1>2, <1>3, <2>1, <2>2, <2>3, UndroppedRest
    <3> QED
        BY <1>3, <1>5, <3>1, CallsStep
  <2>4. CASE d # c
      BY <1>3, <1>5, <2>2, <2>4, CallsStep
  <2> QED
      BY <2>3, <2>4
<1>9. excused' \in SUBSET Keys /\ faults' \in Nat
    BY <1>5 DEF Inv, TypeOK
<1>10. WritesNoMore(Tail(todo), calls[c])
    BY <1>1, <1>3, TailWritesNoMore
<1> QED
    BY <1>3, <1>5, <1>7, <1>8, <1>9, <1>10, QuietKeeps

LEMMA OnlyDropsWriteNoMore ==
    ASSUME NEW rest, NEW todo, \A i \in DOMAIN rest : Drops(rest[i])
    PROVE  WritesNoMore(rest, todo)
BY DEF WritesNoMore, Drops, Writes

\* A statement that drops is followed by more of the kind.
LEMMA OnlyDropsAfter ==
    ASSUME NEW todo \in Seq(Statements), todo # <<>>, Orderly(todo), Drops(Head(todo))
    PROVE  \A i \in DOMAIN Tail(todo) : Drops(Tail(todo)[i])
BY DropsLast, Rest

LEMMA DropsJoined ==
    ASSUME NEW s \in Seq(Statements), NEW t \in Seq(Statements),
           \A i \in DOMAIN s : Drops(s[i]), \A i \in DOMAIN t : Drops(t[i])
    PROVE  /\ s \o t \in Seq(Statements) /\ \A i \in DOMAIN (s \o t) : Drops((s \o t)[i])
           /\ Undropped(s) \subseteq Undropped(s \o t) /\ Undropped(t) \subseteq Undropped(s \o t)
<1>1. PICK r : r = s \o t
    OBVIOUS
<1>2. PICK m, n \in Nat : m = Len(s) /\ n = Len(t)
    OBVIOUS
<1>3. DOMAIN s = 1 .. m /\ DOMAIN t = 1 .. n
    BY <1>2
<1>4. /\ r \in Seq(Statements) /\ Len(r) = m + n
      /\ \A i \in 1 .. m + n : r[i] = IF i <= m THEN s[i] ELSE t[i - m]
    BY <1>1, <1>2, ConcatProperties
<1>5. DOMAIN r = 1 .. m + n
    BY <1>4
<1>6. \A i \in DOMAIN r : Drops(r[i])
  <2> SUFFICES ASSUME NEW i \in 1 .. m + n PROVE Drops(r[i])
      BY <1>5
  <2>1. CASE i <= m
      BY <1>3, <1>4, <2>1
  <2>2. CASE ~(i <= m)
    <3>1. i - m \in 1 .. n /\ r[i] = t[i - m]
        BY <1>4, <2>2
    <3> QED
        BY <1>3, <3>1
  <2> QED
      BY <2>1, <2>2
<1>7. Undropped(s) \subseteq Undropped(r)
  <2> SUFFICES ASSUME NEW i \in 1 .. m PROVE s[i].key \in Undropped(r)
      BY <1>3 DEF Undropped
  <2>1. i \in 1 .. m + n /\ i <= m
      OBVIOUS
  <2>2. i \in DOMAIN r /\ r[i] = s[i]
      BY <1>4, <1>5, <2>1
  <2> QED
      BY <1>6, <2>2, Undropping
<1>8. Undropped(t) \subseteq Undropped(r)
  <2> SUFFICES ASSUME NEW i \in 1 .. n PROVE t[i].key \in Undropped(r)
      BY <1>3 DEF Undropped
  <2>1. i + m \in 1 .. m + n /\ ~(i + m <= m) /\ (i + m) - m = i
      OBVIOUS
  <2>2. i + m \in DOMAIN r /\ r[i + m] = t[i]
      BY <1>4, <1>5, <2>1
  <2> QED
      BY <1>6, <2>2, Undropping
<1> QED
    BY <1>1, <1>4, <1>6, <1>7, <1>8

LEMMA KeysKeeps == ASSUME Inv, NEW c \in Slots, keys(c) PROVE Inv'
<1>1. PICK todo : todo = calls[c]
    OBVIOUS
<1>2. PICK s : s = Head(todo)
    OBVIOUS
<1>3. /\ todo \in Seq(Statements) /\ todo # <<>> /\ s \in Statements /\ s.what = "keys"
      /\ Tail(todo) \in Seq(Statements) /\ Orderly(todo)
    BY <1>1, <1>2, FirstIs DEF keys, Head1
<1>4. s.key = getUserListKey
    BY <1>3 DEF Statements, Saving, Deleting, Filling, Dropping, Listing
<1>5. \A i \in DOMAIN Tail(todo) : Drops(Tail(todo)[i])
    BY <1>2, <1>3, OnlyDropsAfter DEF Drops
<1>6. PICK x \in Statements :
        Drop(getUserListKey) = <<x>> /\ x.what = "drop" /\ x.key = getUserListKey
    BY DropIs DEF Keys
<1>7. PICK last : last = IF cache[getUserListKey] = Missing THEN <<>> ELSE <<x>>
    OBVIOUS
<1>8. /\ last \in Seq(Statements) /\ \A i \in DOMAIN last : Drops(last[i])
      /\ cache[getUserListKey] # Missing => getUserListKey \in Undropped(last)
  <2>1. CASE last = <<>> /\ cache[getUserListKey] = Missing
      BY <2>1
  <2>2. CASE last = <<x>>
    <3>1. last \in Seq(Statements) /\ DOMAIN last = {1} /\ last[1] = x /\ Drops(x)
        BY <1>6, <2>2 DEF Drops
    <3> QED
        BY <1>6, <3>1, Undropping
  <2> QED
      BY <1>7, <2>1, <2>2
<1>9. PICK rest : rest = Tail(todo) \o last
    OBVIOUS
<1>10. /\ calls' = [calls EXCEPT ![c] = rest] /\ excused' = excused /\ cache' = cache
       /\ UNCHANGED <<users, born, loose, word, begun, overlaps, faults>>
    BY <1>1, <1>6, <1>7, <1>9 DEF keys
<1>11. /\ rest \in Seq(Statements) /\ \A i \in DOMAIN rest : Drops(rest[i])
       /\ Undropped(Tail(todo)) \subseteq Undropped(rest)
       /\ Undropped(last) \subseteq Undropped(rest)
    BY <1>3, <1>5, <1>8, <1>9, DropsJoined
<1>12. Orderly(rest) /\ WritesNoMore(rest, calls[c])
    BY <1>11, OnlyDropsOrderly, OnlyDropsWriteNoMore
<1>13. CopiesExplained'
  <2> SUFFICES ASSUME NEW k \in Keys, cache[k] \notin {Missing, Answer(k)}, k \notin excused
               PROVE  \E d \in Slots : k \in Undropped(calls'[d])
    <3>1. \A k \in Keys : Answer(k)' = Answer(k)
        BY <1>10, AnswerSame
    <3> QED
        BY <1>10, <3>1 DEF CopiesExplained, Undropped
  <2>1. PICK d \in Slots : k \in Undropped(calls[d])
      BY DEF Inv, CopiesExplained
  <2>2. CASE d = c
    <3>1. k \in Undropped(Tail(todo)) \/ k = getUserListKey
        BY <1>1, <1>2, <1>3, <1>4, <2>1, <2>2, UndroppedRest
    <3>2. k \in Undropped(rest)
        BY <1>8, <1>11, <3>1
    <3> QED
        BY <1>10, <1>11, <1>12, <3>2, CallsStep
  <2>3. CASE d # c
      BY <1>10, <1>11, <1>12, <2>1, <2>3, CallsStep
  <2> QED
      BY <2>2, <2>3
<1>14. CacheOK' /\ excused' \in SUBSET Keys /\ faults' \in Nat
    BY <1>10 DEF Inv, TypeOK, CacheOK
<1> QED
    BY <1>10, <1>11, <1>12, <1>13, <1>14, QuietKeeps

LEMMA CacheFailsKeeps == ASSUME Inv, NEW c \in Slots, cacheFails(c) PROVE Inv'
<1>1. PICK todo : todo = calls[c]
    OBVIOUS
<1>2. PICK s : s = Head(todo)
    OBVIOUS
<1>3. /\ todo \in Seq(Statements) /\ todo # <<>> /\ s \in Statements
      /\ Tail(todo) \in Seq(Statements) /\ Orderly(todo) /\ Orderly(Tail(todo))
      /\ s.what \in {"fill", "drop", "keys"}
    BY <1>1, <1>2, FirstIs DEF cacheFails
<1>4. PICK n \in {Len(todo), Len(todo) - 1} :
        /\ Breaks(c, SubSeq(todo, 2, n))
        /\ s.what # "drop" => n = Len(todo)
  <2>1. PICK skipped \in BOOLEAN :
          /\ Breaks(c, SubSeq(todo, 2, Len(todo) - (IF skipped THEN 1 ELSE 0)))
          /\ skipped => s.what = "drop"
    <3> DEFINE last == todo[Len(todo)]
               skip == s.what = "drop" /\ last.what = "drop" /\ s # last
                       /\ last.key = getEligibleAmountKey(s.key[1])
    <3>1. /\ Breaks(c, SubSeq(todo, 2, Len(todo) - (IF skip THEN 1 ELSE 0)))
          /\ skip \in BOOLEAN /\ (skip => s.what = "drop")
        BY <1>1, <1>2 DEF cacheFails
    <3> QED
        BY <3>1
  <2>2. Len(todo) \in Nat
      BY <1>3
  <2> QED
      BY <2>1, <2>2
<1>5. PICK rest : rest = SubSeq(todo, 2, n)
    OBVIOUS
<1>6. Len(todo) \in Nat \ {0} /\ n \in Nat /\ n <= Len(todo)
    BY <1>3, Rest
<1>7. /\ rest \in Seq(Statements)
      /\ \A i \in DOMAIN rest : i + 1 \in DOMAIN todo /\ rest[i] = todo[i + 1]
  <2>1. \A i \in 2 .. n : todo[i] \in Statements
      BY <1>3, <1>6
  <2>2. /\ rest \in Seq(Statements)
        /\ Len(rest) = IF 2 <= n THEN n - 2 + 1 ELSE 0
        /\ \A i \in 1 .. n - 2 + 1 : rest[i] = todo[2 + i - 1]
      BY <1>5, <1>6, <2>1, SubSeqProperties
  <2>3. \A i \in DOMAIN rest : i \in 1 .. n - 2 + 1 /\ 2 + i - 1 = i + 1 /\ i + 1 \in 1 .. Len(todo)
      BY <1>6, <2>2
  <2> QED
      BY <1>3, <2>2, <2>3
<1>8. Orderly(rest) /\ WritesNoMore(rest, calls[c])
  <2>1. CASE s.what = "fill"
    <3>1. rest = Tail(todo)
        BY <1>3, <1>4, <1>5, <2>1, TailIsSubSeq
    <3> QED
        BY <1>1, <1>3, <3>1, TailWritesNoMore
  <2>2. CASE Drops(s)
    <3>1. \A i \in DOMAIN rest : Drops(rest[i])
        BY <1>2, <1>3, <1>7, <2>2, DropsLast
    <3> QED
        BY <3>1, OnlyDropsOrderly, OnlyDropsWriteNoMore
  <2> QED
      BY <1>3, <2>1, <2>2 DEF Drops
<1>9. faults' \in Nat /\ UNCHANGED <<users, born, cache, begun, overlaps, loose, word>>
    BY DEF cacheFails, Inv, TypeOK
<1> QED
    BY <1>4, <1>5, <1>7, <1>8, <1>9, BreaksKeeps

LEMMA DiesKeeps == ASSUME Inv, NEW c \in Slots, dies(c) PROVE Inv'
<1>1. Orderly(Idle) /\ WritesNoMore(Idle, calls[c]) /\ Idle \in Seq(Statements)
    BY DEF Idle, Orderly, WritesNoMore
<1>2. faults' \in Nat /\ UNCHANGED <<users, born, cache, begun, overlaps, loose, word>>
    BY DEF dies, Inv, TypeOK
<1>3. Breaks(c, Idle)
    BY DEF dies
<1> QED
    BY <1>1, <1>2, <1>3, BreaksKeeps

LEMMA RefusedKeeps == ASSUME Inv, NEW c \in Slots, refused(c) PROVE Inv'
<1>1. PICK todo : todo = calls[c]
    OBVIOUS
<1>2. todo \in Seq(Statements)
    BY <1>1 DEF Inv, TypeOK
<1>3. PICK rest : rest = Abandoned(todo)
    OBVIOUS
<1>4. rest \in Seq(Statements) /\ Orderly(rest) /\ WritesNoMore(rest, calls[c])
  <2>1. CASE rest = Idle
      BY <2>1 DEF Idle, Orderly, WritesNoMore
  <2>2. CASE Len(todo) > 1 /\ todo[2].what = "save" /\ rest = <<[todo[2] EXCEPT !.covers = {}]>>
    <3>1. 2 \in DOMAIN todo /\ todo[2] \in Statements
        BY <1>2, <2>2
    <3>2. todo[2] \in Saving
        BY <2>2, <3>1, StatementKinds
    <3>3. PICK s : s = [todo[2] EXCEPT !.covers = {}]
        OBVIOUS
    <3>4. /\ s \in Saving /\ s.what = "save" /\ s.user = todo[2].user /\ s.row = todo[2].row
          /\ s.asked = todo[2].asked /\ s.covers = {}
        BY <3>2, <3>3 DEF Saving
    <3>5. s \in Statements
        BY <3>4 DEF Statements
    <3>6. rest \in Seq(Statements) /\ DOMAIN rest = {1} /\ rest[1] = s
        BY <2>2, <3>3, <3>5
    <3>7. Orderly(rest)
        BY <3>4, <3>6 DEF Orderly, InOrder, Drops
    <3>8. WritesNoMore(rest, todo)
        BY <2>2, <3>1, <3>4, <3>6 DEF WritesNoMore
    <3> QED
        BY <1>1, <3>6, <3>7, <3>8
  <2> QED
      BY <1>3, <2>1, <2>2 DEF Abandoned
<1>5. faults' \in Nat /\ UNCHANGED <<users, born, cache, begun, overlaps, loose, word>>
    BY DEF refused, Inv, TypeOK
<1>6. Breaks(c, rest)
    BY <1>1, <1>3 DEF refused
<1> QED
    BY <1>4, <1>5, <1>6, BreaksKeeps

LEMMA ExpiresKeeps == ASSUME Inv, NEW k \in Keys, expires(k) PROVE Inv'
<1>1. /\ cache' = [cache EXCEPT ![k] = Missing] /\ excused' = excused \ {k}
      /\ UNCHANGED <<users, born, calls, begun, overlaps, loose, word, faults>>
    BY DEF expires, requests
<1>2. \A j \in Keys : cache'[j] = IF j = k THEN Missing ELSE cache[j]
    BY <1>1 DEF Inv, TypeOK, CacheOK
<1>3. CacheOK'
  <2>1. cache' = [j \in Keys |-> cache'[j]]
      BY <1>1 DEF Inv, TypeOK, CacheOK
  <2> QED
      BY <1>2, <2>1 DEF Inv, TypeOK, CacheOK
<1>4. TypeOK'
    BY <1>1, <1>3 DEF Inv, TypeOK
<1>5. Fresh' /\ LastWordStands' /\ OneUserPerNumber'
    BY <1>1 DEF Inv, Fresh, LastWordStands, OneUserPerNumber, Exists
<1>6. Kept' /\ \A d \in Slots : Orderly(calls[d])'
  <2>1. Kept'
    <3>1. ASSUME NEW d \in Slots, NEW i \in DOMAIN calls[d]
          PROVE  WordKept(calls[d][i])' /\ PhoneKept(calls[d][i])'
      <4>1. PICK s : s = calls[d][i] /\ WordKept(s) /\ PhoneKept(s)
          BY DEF Inv, Kept
      <4>2. calls' = calls
          BY <1>1
      <4>3. WordKept(s)'
          BY <1>1, <4>1 DEF WordKept
      <4>4. PhoneKept(s)'
          BY <1>1, <4>1 DEF PhoneKept, Exists, NumberIsNew
      <4> QED
          BY <4>1, <4>2, <4>3, <4>4
    <3> QED
        BY <1>1, <3>1 DEF Kept
  <2>2. \A d \in Slots : Orderly(calls[d])'
      BY <1>1 DEF Inv, Orderly, InOrder, Undropped
  <2> QED
      BY <2>1, <2>2
<1>7. CopiesExplained'
  <2>1. \A j \in Keys : Answer(j)' = Answer(j)
      BY <1>1, AnswerSame
  <2> QED
      BY <1>1, <1>2, <2>1 DEF Inv, CopiesExplained, Undropped
<1> QED
    BY <1>4, <1>5, <1>6, <1>7 DEF Inv
-----------------------------------------------------------------------------
(* Statements that write a row.                                            *)

\* A statement that is still to come was there before, and writes the same row
\* only in another request.
LEMMA StillToCome ==
    ASSUME Inv, NEW c \in Slots, calls[c] # Idle, Writes(Head(calls[c])),
           calls' = [calls EXCEPT ![c] = Tail(@)], NEW d \in Slots, NEW j \in DOMAIN calls'[d]
    PROVE  \E i \in DOMAIN calls[d] :
             /\ calls'[d][j] = calls[d][i] /\ WordKept(calls[d][i]) /\ PhoneKept(calls[d][i])
             /\ Writes(calls[d][i]) /\ calls[d][i].user = Head(calls[c]).user => d # c
<1>1. /\ calls[c] \in Seq(Statements) /\ calls[c] # <<>> /\ Head(calls[c]) = calls[c][1]
      /\ InOrder(calls[c], 1)
    BY FirstIs
<1>2. calls'[d] = IF d = c THEN Tail(calls[c]) ELSE calls[d]
    BY DEF Inv, TypeOK
<1>3. CASE d # c
    BY <1>2, <1>3 DEF Inv, Kept
<1>4. CASE d = c
  <2>1. PICK todo \in Seq(Statements) : todo = calls[c]
      BY <1>1
  <2>0. j \in DOMAIN Tail(todo) /\ todo # <<>>
      BY <1>1, <1>2, <1>4, <2>1
  <2>2. j \in 1 .. Len(todo) - 1 /\ j + 1 \in DOMAIN todo /\ Tail(todo)[j] = todo[j + 1] /\ j + 1 # 1
      BY <2>0, Rest
  <2>3. ~(Writes(todo[j + 1]) /\ todo[j + 1].user = Head(todo).user)
      BY <1>1, <2>1, <2>2 DEF InOrder
  <2>4. WordKept(todo[j + 1]) /\ PhoneKept(todo[j + 1])
      BY <2>1, <2>2 DEF Inv, Kept
  <2> QED
      BY <1>2, <1>4, <2>1, <2>2, <2>3, <2>4
<1> QED
    BY <1>3, <1>4

LEMMA RivalIs ==
    ASSUME NEW c, NEW d \in Slots, d # c, NEW i \in DOMAIN calls[d], NEW u,
           Writes(calls[d][i]), calls[d][i].user = u
    PROVE  Rival(c, u)
BY DEF Rival, Saves, Writes

\* The copies of the row are dropped by statements that are still to come.
LEMMA WriteExplained ==
    ASSUME Inv, NEW c \in Slots, calls[c] # Idle, Writes(Head(calls[c])),
           calls' = [calls EXCEPT ![c] = Tail(@)], cache' = cache,
           NEW covers, covers \subseteq Undropped(calls[c]), Stale(covers)
    PROVE  CopiesExplained' /\ CacheOK' /\ excused' \in SUBSET Keys
<1>1. PICK todo \in Seq(Statements) : todo = calls[c] /\ todo # <<>> /\ ~Drops(Head(todo))
    BY FirstIs DEF Writes, Drops
<1>2. calls'[c] = Tail(todo)
    BY <1>1 DEF Inv, TypeOK
<1>3. CopiesExplained'
  <2> SUFFICES ASSUME NEW k \in Keys, cache'[k] \notin {Missing, Answer(k)'}, k \notin excused'
               PROVE  \E d \in Slots : k \in Undropped(calls'[d])
      BY DEF CopiesExplained, Undropped
  <2>1. k \in covers
      BY DEF Stale, Old
  <2>2. k \in Undropped(Tail(todo))
      BY <1>1, <2>1, UndroppedRest
  <2> QED
      BY <1>2, <2>2
<1>4. CacheOK'
    BY DEF Inv, TypeOK, CacheOK
<1>5. excused' \in SUBSET Keys
    BY DEF Stale, Inv, TypeOK
<1> QED
    BY <1>3, <1>4, <1>5

LEMMA SaveKeeps == ASSUME Inv, NEW c \in Slots, save(c) PROVE Inv'
<1>0. \A d \in Slots : \A j \in DOMAIN calls'[d] : \E i \in DOMAIN calls[d] :
        /\ calls'[d][j] = calls[d][i] /\ WordKept(calls[d][i]) /\ PhoneKept(calls[d][i])
        /\ Writes(calls[d][i]) /\ calls[d][i].user = Head(calls[c]).user => d # c
  <2>1. calls' = [calls EXCEPT ![c] = Tail(@)] /\ calls[c] # Idle /\ Writes(Head(calls[c]))
      BY DEF save, Proceed, Head1, Writes
  <2> QED
      BY <2>1, StillToCome
<1>1. PICK s : s = Head(calls[c])
    OBVIOUS
<1>2. PICK u, row : u = s.user /\ row = s.row
    OBVIOUS
<1>3. /\ calls[c] # Idle /\ s \in Statements /\ s.what = "save" /\ WordKept(s) /\ PhoneKept(s)
      /\ Tail(calls[c]) \in Seq(Statements) /\ Orderly(Tail(calls[c]))
      /\ s.covers \subseteq Undropped(calls[c])
    BY <1>1, FirstIs DEF save, Head1, InOrder
<1>4. s \in Saving
    BY <1>3, StatementKinds
<1>5. /\ u \in Ids /\ row \in UserRows /\ row # Missing /\ s.asked \in Statuses \union {Missing}
      /\ row.phone \in Numbers \X Prefixes /\ row.status \in Statuses
    BY <1>2, <1>4, SavingArgs
<1>6. /\ ~Taken(u, row.phone)
      /\ users' = [users EXCEPT ![u] = row]
      /\ loose' = loose \union Overtaken(c, u, {row.phone})
      /\ cache' = cache /\ Stale(s.covers)
      /\ calls' = [calls EXCEPT ![c] = Tail(@)]
      /\ UNCHANGED <<begun, overlaps, born, faults>>
    BY <1>1, <1>2 DEF save, Proceed
<1>7. word' = [word EXCEPT ![u] = IF Rival(c, u) THEN Missing
                                  ELSE IF s.asked # Missing THEN s.asked
                                  ELSE IF @ = "gone" THEN Missing ELSE @]
    BY <1>1, <1>2 DEF save
<1>8. Writes(s)
    BY <1>3 DEF Writes
<1>9. CopiesExplained' /\ CacheOK' /\ excused' \in SUBSET Keys
    BY <1>1, <1>3, <1>6, <1>8, WriteExplained
<1>10. /\ calls' \in [Slots -> Seq(Statements)]
       /\ \A d \in Slots : Orderly(calls[d])'
    BY <1>3, <1>6, CallsStep
<1>11. \A v \in Ids : users'[v] = IF v = u THEN row ELSE users[v]
    BY <1>5, <1>6 DEF Inv, TypeOK
<1>12. \A v \in Ids : Exists(v)' <=> (v = u \/ Exists(v))
    BY <1>5, <1>11 DEF Exists
<1>13. loose \subseteq loose' /\ loose' \in SUBSET Numbers
    BY <1>6 DEF Inv, TypeOK, Overtaken
<1>14. \A v \in Ids : v # u => word'[v] = word[v]
    BY <1>7 DEF Inv, TypeOK
<1>15. /\ word[u] \in Words
       /\ word'[u] = IF Rival(c, u) THEN Missing
                     ELSE IF s.asked # Missing THEN s.asked
                     ELSE IF word[u] = "gone" THEN Missing ELSE word[u]
    BY <1>5, <1>7 DEF Inv, TypeOK
<1>16. u \in born /\ word[u] # "gone"
    BY <1>2, <1>3, <1>8 DEF WordKept
<1>17. word'[u] \in Statuses \union {Missing} /\ (word'[u] # Missing => row.status = word'[u])
  <2>1. CASE word'[u] = Missing
      BY <2>1
  <2>2. CASE word'[u] = s.asked /\ s.asked # Missing
      BY <1>2, <1>3, <1>5, <2>2 DEF WordKept
  <2>3. CASE word'[u] = word[u] /\ s.asked = Missing /\ word[u] # Missing
      BY <1>2, <1>3, <1>15, <1>16, <2>3 DEF WordKept, Words
  <2> QED
      BY <1>15, <2>1, <2>2, <2>3
<1>18. TypeOK'
  <2>1. users' \in [Ids -> UserRows \union {Missing}]
      BY <1>5, <1>6 DEF Inv, TypeOK
  <2>2. word' \in [Ids -> Words]
    <3>1. \A v \in Ids : word'[v] \in Words
        BY <1>14, <1>17 DEF Inv, TypeOK, Words
    <3> QED
        BY <1>7, <3>1 DEF Inv, TypeOK
  <2> QED
      BY <1>6, <1>9, <1>10, <1>13, <2>1, <2>2 DEF Inv, TypeOK
<1>19. Fresh'
  <2> SUFFICES ASSUME NEW v \in Ids, Exists(v)' \/ word'[v] = "gone" PROVE v \in born
      BY <1>6 DEF Fresh
  <2> QED
      BY <1>12, <1>14, <1>16 DEF Inv, Fresh
<1>20. LastWordStands'
  <2> SUFFICES ASSUME NEW v \in Ids
               PROVE  CASE word'[v] = Missing -> TRUE
                        [] word'[v] = "gone" -> ~Exists(v)'
                        [] OTHER -> Exists(v)' /\ users'[v].status = word'[v]
      BY DEF LastWordStands
  <2>1. CASE v = u
    <3>1. word'[u] # "gone"
        BY <1>17, NullAssumption DEF Statuses
    <3> QED
        BY <1>11, <1>12, <1>17, <2>1, <3>1
  <2>2. CASE v # u
      BY <1>11, <1>12, <1>14, <2>2 DEF Inv, LastWordStands
  <2> QED
      BY <2>1, <2>2
<1>21. \/ row.phone[1] \in loose
       \/ Exists(u) /\ users[u].phone = row.phone
       \/ ~Exists(u) /\ row.phone[2] = "0" /\ NumberIsNew(row.phone[1])
    BY <1>2, <1>3 DEF PhoneKept
<1>22. ASSUME NEW v \in Ids, v # u, Exists(v), users[v].phone[1] = row.phone[1]
       PROVE  row.phone[1] \in loose
  <2>1. users[v].phone # row.phone /\ users[v].phone \in Numbers \X Prefixes
      BY <1>6, <1>22, RowRead DEF Taken, Inv
  <2>2. users[v].phone[2] # row.phone[2]
      BY <1>5, <1>22, <2>1
  <2>3. CASE Exists(u) /\ users[u].phone = row.phone
      BY <1>5, <1>22, <2>3 DEF Inv, OneUserPerNumber
  <2>4. CASE ~Exists(u) /\ row.phone[2] = "0" /\ NumberIsNew(row.phone[1])
      BY <1>22, <2>2, <2>4 DEF NumberIsNew
  <2> QED
      BY <1>21, <2>3, <2>4
<1>23. OneUserPerNumber'
  <2> SUFFICES ASSUME NEW v \in Ids, NEW w \in Ids, v # w, Exists(v)', Exists(w)',
                      users'[v].phone[1] = users'[w].phone[1]
               PROVE  users'[v].phone[1] \in loose'
      BY DEF OneUserPerNumber
  <2>1. CASE v = u
    <3>1. Exists(w) /\ users[w].phone[1] = row.phone[1] /\ users'[v].phone[1] = row.phone[1]
        BY <1>11, <1>12, <2>1
    <3> QED
        BY <1>13, <1>22, <2>1, <3>1
  <2>2. CASE w = u
    <3>1. Exists(v) /\ users[v].phone[1] = row.phone[1] /\ users'[v].phone[1] = row.phone[1]
        BY <1>11, <1>12, <2>2
    <3> QED
        BY <1>13, <1>22, <2>2, <3>1
  <2>3. CASE v # u /\ w # u
      BY <1>11, <1>12, <1>13, <2>3 DEF Inv, OneUserPerNumber
  <2> QED
      BY <2>1, <2>2, <2>3
<1>24. Kept'
  <2> SUFFICES ASSUME NEW d \in Slots, NEW j \in DOMAIN calls'[d]
               PROVE  WordKept(calls[d][j])' /\ PhoneKept(calls[d][j])'
      BY DEF Kept
  <2>0. calls[c] # Idle /\ Writes(Head(calls[c])) /\ Head(calls[c]).user = u
      BY <1>1, <1>2, <1>3, <1>8
  <2>1. PICK i \in DOMAIN calls[d] :
          /\ calls'[d][j] = calls[d][i] /\ WordKept(calls[d][i]) /\ PhoneKept(calls[d][i])
          /\ Writes(calls[d][i]) /\ calls[d][i].user = u => d # c
      BY <1>0, <2>0
  <2>2. PICK t : t = calls[d][i]
      OBVIOUS
  <2>3. CASE t.what # "save"
    <3>1. Writes(t) => t.user \in born'
        BY <1>6, <2>1, <2>2 DEF WordKept
    <3>2. WordKept(t)' /\ PhoneKept(t)'
        BY <2>3, <3>1 DEF WordKept, PhoneKept
    <3> QED
        BY <2>1, <2>2, <3>2
  <2>4. CASE t.what = "save"
    <3>1. t \in Saving
      <4>1. calls[d] \in Seq(Statements)
          BY DEF Inv, TypeOK
      <4> QED
          BY <2>2, <2>4, <4>1, StatementKinds
    <3>2. /\ t.user \in Ids /\ t.row.phone \in Numbers \X Prefixes
          /\ WordKept(t) /\ PhoneKept(t) /\ Writes(t)
        BY <2>1, <2>2, <2>4, <3>1, SavingArgs DEF Writes
    <3>3. CASE t.user = u
      <4>1. Rival(c, u) /\ d # c
          BY <2>1, <2>2, <3>2, <3>3, RivalIs
      <4>2. WordKept(t)'
          BY <1>5, <1>6, <1>15, <1>16, <3>2, <3>3, <4>1, NullAssumption DEF WordKept
      <4>3. ASSUME t.row.phone = row.phone PROVE PhoneKept(t)'
          BY <1>5, <1>11, <3>2, <3>3, <4>3 DEF PhoneKept, Exists
      <4>4. ASSUME t.row.phone # row.phone PROVE PhoneKept(t)'
        <5>1. t.row.phone[1] \in Overtaken(c, u, {row.phone})
            BY <2>2, <2>4, <3>2, <3>3, <4>1, <4>4 DEF Overtaken
        <5> QED
            BY <1>6, <5>1 DEF PhoneKept
      <4>5. PhoneKept(t)'
          BY <4>3, <4>4
      <4> QED
          BY <2>1, <2>2, <4>2, <4>5
    <3>4. CASE t.user # u
      <4>1. WordKept(t)'
          BY <1>6, <1>14, <3>2, <3>4 DEF WordKept
      <4>2. ASSUME \/ t.row.phone[1] \in loose
                   \/ Exists(t.user) /\ users[t.user].phone = t.row.phone
            PROVE  PhoneKept(t)'
          BY <1>11, <1>13, <3>2, <3>4, <4>2 DEF PhoneKept, Exists
      <4>3. ASSUME ~Exists(t.user) /\ t.row.phone[2] = "0" /\ NumberIsNew(t.row.phone[1])
            PROVE  PhoneKept(t)'
        <5>1. CASE row.phone[1] # t.row.phone[1]
          <6>1. NumberIsNew(t.row.phone[1])'
              BY <1>11, <4>3, <5>1 DEF NumberIsNew, Exists
          <6> QED
              BY <1>11, <3>2, <3>4, <4>3, <6>1 DEF PhoneKept, Exists, NumberIsNew
        <5>2. CASE row.phone[1] = t.row.phone[1] /\ row.phone[2] = "0"
          <6>1. NumberIsNew(t.row.phone[1])'
              BY <1>11, <4>3, <5>2 DEF NumberIsNew, Exists
          <6> QED
              BY <1>11, <3>2, <3>4, <4>3, <6>1 DEF PhoneKept, Exists, NumberIsNew
        <5>3. CASE row.phone[1] = t.row.phone[1] /\ row.phone[1] \in loose
            BY <1>13, <5>3 DEF PhoneKept
        <5>4. CASE row.phone[1] = t.row.phone[1] /\ Exists(u) /\ users[u].phone = row.phone
            BY <1>5, <4>3, <5>2, <5>4 DEF NumberIsNew
        <5> QED
            BY <1>21, <5>1, <5>2, <5>3, <5>4
      <4>4. PhoneKept(t)'
          BY <4>2, <4>3, <3>2, <2>4 DEF PhoneKept
      <4> QED
          BY <2>1, <2>2, <4>1, <4>4
    <3> QED
        BY <3>3, <3>4
  <2> QED
      BY <2>3, <2>4
<1> QED
    BY <1>9, <1>10, <1>18, <1>19, <1>20, <1>23, <1>24 DEF Inv

LEMMA DeleteKeeps == ASSUME Inv, NEW c \in Slots, delete(c) PROVE Inv'
<1>0. \A d \in Slots : \A j \in DOMAIN calls'[d] : \E i \in DOMAIN calls[d] :
        /\ calls'[d][j] = calls[d][i] /\ WordKept(calls[d][i]) /\ PhoneKept(calls[d][i])
        /\ Writes(calls[d][i]) /\ calls[d][i].user = Head(calls[c]).user => d # c
  <2>1. calls' = [calls EXCEPT ![c] = Tail(@)] /\ calls[c] # Idle /\ Writes(Head(calls[c]))
      BY DEF delete, Proceed, Head1, Writes
  <2> QED
      BY <2>1, StillToCome
<1>1. PICK s : s = Head(calls[c])
    OBVIOUS
<1>2. PICK u : u = s.user
    OBVIOUS
<1>3. /\ calls[c] # Idle /\ s \in Statements /\ s.what = "delete"
      /\ Tail(calls[c]) \in Seq(Statements) /\ Orderly(Tail(calls[c]))
      /\ Covers(u, "id") \subseteq Undropped(calls[c])
    BY <1>1, <1>2, FirstIs DEF delete, Head1, InOrder
<1>4. u \in Ids /\ Writes(s)
    BY <1>2, <1>3, StatementKinds DEF Deleting, Writes
<1>5. /\ users' = [users EXCEPT ![u] = Missing]
      /\ loose' = loose \union Overtaken(c, u, {})
      /\ word' = [word EXCEPT ![u] = IF Rival(c, u) THEN Missing ELSE "gone"]
      /\ cache' = cache /\ Stale(Covers(u, "id"))
      /\ calls' = [calls EXCEPT ![c] = Tail(@)]
      /\ UNCHANGED <<begun, overlaps, born, faults>>
    BY <1>1, <1>2 DEF delete, Proceed
<1>6. CopiesExplained' /\ CacheOK' /\ excused' \in SUBSET Keys
    BY <1>1, <1>3, <1>4, <1>5, WriteExplained
<1>7. /\ calls' \in [Slots -> Seq(Statements)]
      /\ \A d \in Slots : Orderly(calls[d])'
    BY <1>3, <1>5, CallsStep
<1>8. \A v \in Ids : users'[v] = IF v = u THEN Missing ELSE users[v]
    BY <1>4, <1>5 DEF Inv, TypeOK
<1>9. \A v \in Ids : Exists(v)' <=> (v # u /\ Exists(v))
    BY <1>8 DEF Exists
<1>10. loose \subseteq loose' /\ loose' \in SUBSET Numbers
    BY <1>5 DEF Inv, TypeOK, Overtaken
<1>11. \A v \in Ids : word'[v] = IF v # u THEN word[v] ELSE IF Rival(c, u) THEN Missing ELSE "gone"
    BY <1>4, <1>5 DEF Inv, TypeOK
<1>12. TypeOK'
  <2>1. word' \in [Ids -> Words]
      BY <1>4, <1>5 DEF Inv, TypeOK, Words
  <2> QED
      BY <1>4, <1>5, <1>6, <1>7, <1>10, <2>1 DEF Inv, TypeOK
<1>13. u \in born
    BY <1>1, <1>2, <1>3, <1>4, FirstIs DEF WordKept
<1>14. Fresh'
  <2> SUFFICES ASSUME NEW v \in Ids, Exists(v)' \/ word'[v] = "gone" PROVE v \in born
      BY <1>5 DEF Fresh
  <2> QED
      BY <1>9, <1>11, <1>13 DEF Inv, Fresh
<1>15. LastWordStands'
  <2> SUFFICES ASSUME NEW v \in Ids
               PROVE  CASE word'[v] = Missing -> TRUE
                        [] word'[v] = "gone" -> ~Exists(v)'
                        [] OTHER -> Exists(v)' /\ users'[v].status = word'[v]
      BY DEF LastWordStands
  <2>1. CASE v = u
      BY <1>9, <1>11, <2>1
  <2>2. CASE v # u
      BY <1>8, <1>9, <1>11, <2>2 DEF Inv, LastWordStands
  <2> QED
      BY <2>1, <2>2
<1>16. OneUserPerNumber'
    BY <1>8, <1>9, <1>10 DEF Inv, OneUserPerNumber
<1>17. Kept'
  <2> SUFFICES ASSUME NEW d \in Slots, NEW j \in DOMAIN calls'[d]
               PROVE  WordKept(calls[d][j])' /\ PhoneKept(calls[d][j])'
      BY DEF Kept
  <2>0. calls[c] # Idle /\ Writes(Head(calls[c])) /\ Head(calls[c]).user = u
      BY <1>1, <1>2, <1>3, <1>4
  <2>1. PICK i \in DOMAIN calls[d] :
          /\ calls'[d][j] = calls[d][i] /\ WordKept(calls[d][i]) /\ PhoneKept(calls[d][i])
          /\ Writes(calls[d][i]) /\ calls[d][i].user = u => d # c
      BY <1>0, <2>0
  <2>2. PICK t : t = calls[d][i]
      OBVIOUS
  <2>3. CASE t.what # "save"
    <3>1. Writes(t) => t.user \in born'
        BY <1>5, <2>1, <2>2 DEF WordKept
    <3>2. WordKept(t)' /\ PhoneKept(t)'
        BY <2>3, <3>1 DEF WordKept, PhoneKept
    <3> QED
        BY <2>1, <2>2, <3>2
  <2>4. CASE t.what = "save"
    <3>1. t \in Saving
      <4>1. calls[d] \in Seq(Statements)
          BY DEF Inv, TypeOK
      <4> QED
          BY <2>2, <2>4, <4>1, StatementKinds
    <3>2. /\ t.user \in Ids /\ t.row.phone \in Numbers \X Prefixes
          /\ WordKept(t) /\ PhoneKept(t) /\ Writes(t)
        BY <2>1, <2>2, <2>4, <3>1, SavingArgs DEF Writes
    <3>3. CASE t.user = u
      <4>1. Rival(c, u) /\ d # c
          BY <2>1, <2>2, <3>2, <3>3, RivalIs
      <4>2. WordKept(t)'
          BY <1>4, <1>5, <1>11, <1>13, <3>2, <3>3, <4>1, NullAssumption DEF WordKept
      <4>3. t.row.phone[1] \in Overtaken(c, u, {})
          BY <2>2, <2>4, <3>2, <3>3, <4>1 DEF Overtaken
      <4>4. PhoneKept(t)'
          BY <1>5, <4>3 DEF PhoneKept
      <4> QED
          BY <2>1, <2>2, <4>2, <4>4
    <3>4. CASE t.user # u
      <4>1. WordKept(t)'
          BY <1>5, <1>11, <3>2, <3>4 DEF WordKept
      <4>2. ASSUME \/ t.row.phone[1] \in loose
                   \/ Exists(t.user) /\ users[t.user].phone = t.row.phone
            PROVE  PhoneKept(t)'
          BY <1>8, <1>10, <3>2, <3>4, <4>2 DEF PhoneKept, Exists
      <4>3. ASSUME ~Exists(t.user) /\ t.row.phone[2] = "0" /\ NumberIsNew(t.row.phone[1])
            PROVE  PhoneKept(t)'
        <5>1. NumberIsNew(t.row.phone[1])'
            BY <1>8, <4>3 DEF NumberIsNew, Exists
        <5> QED
            BY <1>8, <3>2, <3>4, <4>3, <5>1 DEF PhoneKept, Exists, NumberIsNew
      <4>4. PhoneKept(t)'
          BY <4>2, <4>3, <3>2, <2>4 DEF PhoneKept
      <4> QED
          BY <2>1, <2>2, <4>1, <4>4
    <3> QED
        BY <3>3, <3>4
  <2> QED
      BY <2>3, <2>4
<1> QED
    BY <1>6, <1>7, <1>12, <1>14, <1>15, <1>16, <1>17 DEF Inv
-----------------------------------------------------------------------------
LEMMA StutterKeeps == ASSUME Inv, UNCHANGED vars PROVE Inv'
<1>1. UNCHANGED <<users, born, cache, calls, begun, overlaps, excused, loose, word, faults>>
    BY DEF vars, requests
<1>2. TypeOK'
    BY <1>1 DEF Inv, TypeOK, CacheOK
<1>3. Fresh' /\ LastWordStands' /\ OneUserPerNumber'
    BY <1>1 DEF Inv, Fresh, LastWordStands, OneUserPerNumber, Exists
<1>4. Kept' /\ \A d \in Slots : Orderly(calls[d])'
  <2>1. Kept'
    <3>1. ASSUME NEW d \in Slots, NEW i \in DOMAIN calls[d]
          PROVE  WordKept(calls[d][i])' /\ PhoneKept(calls[d][i])'
      <4>1. PICK s : s = calls[d][i] /\ WordKept(s) /\ PhoneKept(s)
          BY DEF Inv, Kept
      <4>2. calls' = calls
          BY <1>1
      <4>3. WordKept(s)'
          BY <1>1, <4>1 DEF WordKept
      <4>4. PhoneKept(s)'
          BY <1>1, <4>1 DEF PhoneKept, Exists, NumberIsNew
      <4> QED
          BY <4>1, <4>2, <4>3, <4>4
    <3> QED
        BY <1>1, <3>1 DEF Kept
  <2>2. \A d \in Slots : Orderly(calls[d])'
      BY <1>1 DEF Inv, Orderly, InOrder, Undropped
  <2> QED
      BY <2>1, <2>2
<1>5. CopiesExplained'
  <2>1. \A j \in Keys : Answer(j)' = Answer(j)
      BY <1>1, AnswerSame
  <2> QED
      BY <1>1, <2>1 DEF Inv, CopiesExplained, Undropped
<1> QED
    BY <1>2, <1>3, <1>4, <1>5 DEF Inv

LEMMA NextInv == Inv /\ [Next]_vars => Inv'
<1> SUFFICES ASSUME Inv, [Next]_vars PROVE Inv'
    OBVIOUS
<1>1. ASSUME NEW c \in Slots, Statement(c) PROVE Inv'
    BY <1>1, SaveKeeps, DeleteKeeps, FillKeeps, DropKeeps, KeysKeeps DEF Statement
<1>2. ASSUME NEW c \in Slots, Fault(c) PROVE Inv'
    BY <1>2, RefusedKeeps, CacheFailsKeeps, DiesKeeps DEF Fault
<1> QED
    BY <1>1, <1>2, RequestKeeps, ExpiresKeeps, StutterKeeps DEF Next

-----------------------------------------------------------------------------
\* Every reachable state is as the invariant says.
THEOREM UsersInvariant == Spec => []Inv
BY InitInv, NextInv, PTL DEF Spec

\* create never gives one telephone number to two users: two share one only
\* when a PATCH typed it or an older copy of a row brought it back (create,
\* findByPhone).
THEOREM NumbersStayApart == Spec => []OneUserPerNumber
<1>1. Inv => OneUserPerNumber
    BY DEF Inv
<1> QED
    BY <1>1, UsersInvariant, PTL

\* The last status given to a user stands and a removed user stays removed,
\* unless a request held an older copy of the row (save, delete).
THEOREM LastWordAlwaysStands == Spec => []LastWordStands
<1>1. Inv => LastWordStands
    BY DEF Inv
<1> QED
    BY <1>1, UsersInvariant, PTL

\* A copy in the cache is what the database says, or about to be dropped, or
\* old for a known reason (invalidateUserCache and every caller of it).
THEOREM CopiesAlwaysExplained == Spec => []CopiesExplained
<1>1. Inv => CopiesExplained
    BY DEF Inv
<1> QED
    BY <1>1, UsersInvariant, PTL
=============================================================================
