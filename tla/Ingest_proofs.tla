---------------------------- MODULE Ingest_proofs ----------------------------
(***************************************************************************)
(* For any files, chunk size, number of attempts, replays and faults: a    *)
(* batch shown as PARSED is complete, and what is known of a subscriber's  *)
(* activation is never overwritten.                                        *)
(*                                                                         *)
(* The worker is what the proof is about.  A line it has read is in a      *)
(* buffer until it is stored (Covered), the statements it still has to     *)
(* send are in their order and empty its buffers before the batch is       *)
(* marked (InOrder), and what it selected is current until its upsert.     *)
(***************************************************************************)
EXTENDS Ingest, FiniteSetTheorems, SequenceTheorems, WellFoundedInduction, TLAPS

JobRows == [file : Files, attempts : Nat, stalls : Nat, state : {"waiting", "active", "completed", "failed"}]

LoansOK ==
    \A k \in loans : k = [id |-> k.id, who |-> k.who, ref |-> k.ref,
                          issuedAt |-> k.issuedAt, recovered |-> k.recovered]

TypeOK ==
    /\ batches \in [Files -> BatchRows \union {Missing}]
    /\ jobs \in Seq(JobRows)
    /\ upload = [f \in Files |-> upload[f]] /\ replaying = [f \in Files |-> replaying[f]]
    /\ marks \in SUBSET Files
    /\ cdr \in [LineIds -> Nat]
    /\ LoansOK
    /\ subscribers = [s \in Msisdns |-> [activated |-> subscribers[s].activated,
                                         class |-> subscribers[s].class]]

\* Only a batch that was saved is replayed, parsed or marked.
Known(f) == batches[f] # Missing
SavedFirst ==
    /\ \A f \in Files : upload[f] = "saved" \/ replaying[f] \in {"found", "saved"} => Known(f)
    /\ \A i \in DOMAIN jobs : Known(jobs[i].file)
    /\ \A f \in marks : Known(f)

\* An accepted line has its record, or a discrepancy tells of it.
Dated(f, n) ==
    \/ subscribers[Lines(f)[n].who].activated = Lines(f)[n].when
    \/ Conflict(f, n, "activated_at") \in discrepancies

Classed(f, n) ==
    \/ Lines(f)[n].class \in {Missing, subscribers[Lines(f)[n].who].class}
    \/ Conflict(f, n, "service_class_id") \in discrepancies

Stored(f, n) ==
    /\ Source(f) \in {"refill", "sdp"} => cdr[<<f, n>>] >= 1
    /\ Source(f) = "vendor" /\ IsKind(f, n, "loan") =>
          \E k \in loans : k.id = mapVendorLoan(Lines(f)[n]).id
    /\ Source(f) = "vendor" /\ IsKind(f, n, "recovery") =>
          vendorRecoveryId(Lines(f)[n]) \in recoveries
    /\ Source(f) = "airtel-activation" => Dated(f, n) /\ Classed(f, n)

\* What is stored of a subscriber after the upsert of a line, before its
\* discrepancies are logged: what was found, or what the line says.
Upserted(f, found, n) ==
    LET l     == Lines(f)[n]
        known == found[l.who]
        now   == subscribers[l.who]
    IN  /\ now.activated = IF known.activated = Missing THEN l.when ELSE known.activated
        /\ now.class = IF known.class = Missing THEN l.class ELSE known.class

LastDetail(f) ==
    CASE Source(f) \in {"refill", "sdp"} -> "cdr"
      [] Source(f) = "vendor" -> "recoveries"
      [] OTHER -> "discrepancies"

StatementsOf(f) ==
    {"rows", "parsed", "link"} \union
    CASE Source(f) \in {"refill", "sdp"} -> {"cdr"}
      [] Source(f) = "vendor" -> {"loans", "recoveries"}
      [] OTHER -> {"select", "upsert", "discrepancies"}

Before(todo, i, statement) == \E j \in 1 .. i - 1 : todo[j] = statement

\* Each statement comes after what it relies on: once it is the next one, its
\* own premise holds; the batch is marked when the buffers are empty.
InOrder(f, w, i) ==
    /\ w.todo[i] \in StatementsOf(f)
    /\ w.todo[i] = "upsert" =>
          IF i = 1 THEN w.found = subscribers ELSE w.todo[i - 1] = "select"
    /\ w.todo[i] = "discrepancies" =>
          IF i = 1 THEN \A n \in w.buffer : Upserted(f, w.found, n) ELSE w.todo[i - 1] = "upsert"
    /\ w.todo[i] = "recoveries" =>
          IF i = 1 THEN \A n \in w.buffer : ~IsKind(f, n, "loan") ELSE w.todo[i - 1] = "loans"
    /\ w.todo[i] = "parsed" =>
          /\ w.next > Len(Lines(f))
          /\ w.buffer = {} \/ Before(w.todo, i, LastDetail(f))
          /\ w.rowBuffer = {} \/ Before(w.todo, i, "rows")

Covered(f, w, n) ==
    /\ n \in w.rowBuffer \/ RowKey(f, n) \in rows
    /\ Accepted(f, n) => n \in w.buffer \/ Stored(f, n)

WorkerOK(f, w) ==
    /\ w.next \in Nat
    /\ w.buffer \in SUBSET {n \in DOMAIN Lines(f) : Accepted(f, n)}
    /\ w.rowBuffer \in SUBSET DOMAIN Lines(f)
    /\ w.todo \in Seq(StatementsOf(f))
    /\ \A i \in DOMAIN w.todo : InOrder(f, w, i)
    /\ \A n \in DOMAIN Lines(f) : n < w.next => Covered(f, w, n)

\* Accounted, with the record of a line by name.
Complete(f) ==
    /\ batches[f].total = Len(Lines(f))
    /\ batches[f].ok = Cardinality({n \in DOMAIN Lines(f) : Accepted(f, n)})
    /\ \A n \in DOMAIN Lines(f) : RowKey(f, n) \in rows /\ (Accepted(f, n) => Stored(f, n))

ParsedComplete == \A f \in Files : Known(f) /\ batches[f].status = "PARSED" => Complete(f)

\* The worker and its file are named first, so that a primed WorkerOK is about
\* the tables alone.
WorkerSound ==
    \A w \in {worker} \ {Idle} :
        w.job \in DOMAIN jobs /\ \A f \in {jobs[w.job].file} : WorkerOK(f, w)

Inv == TypeOK /\ SavedFirst /\ ParsedComplete /\ WorkerSound
-----------------------------------------------------------------------------
(* Sequences of statements, lines and sets of lines.                       *)
LEMMA Rest ==
    ASSUME NEW S, NEW s \in Seq(S), s # <<>>
    PROVE  /\ Head(s) = s[1] /\ Head(s) \in S /\ Tail(s) \in Seq(S)
           /\ Len(s) \in Nat \ {0} /\ Len(Tail(s)) = Len(s) - 1
           /\ DOMAIN Tail(s) = 1 .. Len(s) - 1 /\ DOMAIN s = 1 .. Len(s)
           /\ \A i \in 1 .. Len(s) - 1 : i + 1 \in DOMAIN s /\ Tail(s)[i] = s[i + 1]
OBVIOUS

LEMMA LinesAre ==
    ASSUME NEW f \in Files
    PROVE  /\ Len(Lines(f)) \in Nat /\ DOMAIN Lines(f) = 1 .. Len(Lines(f))
           /\ Source(f) \in {"refill", "sdp", "vendor", "airtel-activation"}
<1>1. ASSUME NEW S, NEW s \in Seq(S) PROVE Len(s) \in Nat /\ DOMAIN s = 1 .. Len(s)
    BY <1>1
<1>2. Lines(f) \in Seq({Lines(f)[n] : n \in DOMAIN Lines(f)})
    BY IngestAssumption
<1>3. Source(f) \in {"refill", "sdp", "vendor", "airtel-activation"}
    BY IngestAssumption
<1> QED
    BY <1>1, <1>2, <1>3, Zenon

\* What process, processRefill and the others count is a number.
LEMMA Counted ==
    ASSUME NEW f \in Files, NEW S \in SUBSET DOMAIN Lines(f)
    PROVE  Cardinality(S) \in Nat
<1>1. IsFiniteSet(DOMAIN Lines(f))
    BY LinesAre, FS_Interval
<1> QED
    BY <1>1, FS_Subset, FS_CardinalityType

\* The first line of a chunk that has some property is well defined.
LEMMA FirstOf ==
    ASSUME NEW S \in SUBSET Nat, S # {}
    PROVE  \E i \in S : \A j \in S : i <= j
<1>1. PICK i \in S : \A j \in S : <<j, i>> \notin OpToRel(<, Nat)
    BY WFMin, NatLessThanWellFounded, Zenon
<1>2. \A j \in S : ~(j < i)
    BY <1>1, Zenon DEF OpToRel
<1> QED
    BY <1>2

-----------------------------------------------------------------------------
(* No step takes back what is stored.                                      *)

SubscriberKept(s) ==
    /\ subscribers[s].activated # Missing => subscribers'[s].activated = subscribers[s].activated
    /\ subscribers[s].class # Missing => subscribers'[s].class = subscribers[s].class

\* What the tables have they keep.
Grows ==
    /\ rows \subseteq rows' /\ recoveries \subseteq recoveries'
    /\ discrepancies \subseteq discrepancies'
    /\ \A i \in LineIds : cdr'[i] >= cdr[i]
    /\ \A k \in loans : \E m \in loans' : m.id = k.id
    /\ \A s \in Msisdns : SubscriberKept(s)

LEMMA LineId == ASSUME NEW f \in Files, NEW n \in DOMAIN Lines(f) PROVE <<f, n>> \in LineIds
BY DEF LineIds

LEMMA ActivationLine ==
    ASSUME NEW f \in Files, NEW n \in DOMAIN Lines(f), Accepted(f, n), Source(f) = "airtel-activation"
    PROVE  /\ Lines(f)[n].who \in Msisdns
           /\ Lines(f)[n].when # Missing
BY MsisdnsAssumption DEF Accepted, parseActivation, Good

LEMMA StoredStays ==
    ASSUME TypeOK, Grows, cdr' \in [LineIds -> Nat],
           NEW f \in Files, NEW n \in DOMAIN Lines(f), Accepted(f, n), Stored(f, n)
    PROVE  Stored(f, n)'
<1>1. CASE Source(f) \in {"refill", "sdp"}
  <2>1. cdr'[<<f, n>>] >= cdr[<<f, n>>] /\ cdr[<<f, n>>] >= 1
           /\ cdr[<<f, n>>] \in Nat /\ cdr'[<<f, n>>] \in Nat
      BY <1>1, LineId DEF Grows, Stored, TypeOK
  <2> QED
      BY <2>1, <1>1 DEF Stored
<1>2. CASE Source(f) = "vendor"
    BY <1>2 DEF Stored, Grows
<1>3. CASE Source(f) = "airtel-activation"
  <2>1. Lines(f)[n].who \in Msisdns /\ Lines(f)[n].when # Missing
      BY <1>3, ActivationLine
  <2>2. SubscriberKept(Lines(f)[n].who)
      BY <2>1 DEF Grows
  <2>3. Dated(f, n)' /\ Classed(f, n)'
      BY <2>1, <2>2, <1>3 DEF Stored, Dated, Classed, Grows, SubscriberKept
  <2> QED
      BY <2>3, <1>3 DEF Stored
<1> QED
    BY <1>1, <1>2, <1>3, LinesAre

LEMMA SameGrows ==
    ASSUME TypeOK, UNCHANGED fileVars
    PROVE  Grows
<1>1. \A i \in LineIds : cdr[i] \in Nat
    BY DEF TypeOK
<1> QED
    BY <1>1 DEF Grows, SubscriberKept, fileVars
-----------------------------------------------------------------------------
(* What a flush sends, before any of it is sent.                           *)

\* Statements that come after what they rely on, none of them first.
Unsent(f, t) ==
    /\ t \in Seq(StatementsOf(f))
    /\ \A i \in DOMAIN t :
         /\ t[i] = "upsert" => i # 1 /\ t[i - 1] = "select"
         /\ t[i] = "discrepancies" => i # 1 /\ t[i - 1] = "upsert"
         /\ t[i] = "recoveries" => i # 1 /\ t[i - 1] = "loans"

LEMMA Concat ==
    ASSUME NEW S, NEW s \in Seq(S), NEW t \in Seq(S)
    PROVE  /\ s \o t \in Seq(S) /\ Len(s \o t) = Len(s) + Len(t)
           /\ Len(s) \in Nat /\ Len(t) \in Nat
           /\ DOMAIN s = 1 .. Len(s) /\ DOMAIN t = 1 .. Len(t)
           /\ DOMAIN (s \o t) = 1 .. Len(s) + Len(t)
           /\ \A i \in 1 .. Len(s) : (s \o t)[i] = s[i]
           /\ \A i \in 1 .. Len(t) : (s \o t)[Len(s) + i] = t[i]
OBVIOUS

LEMMA UnsentJoin ==
    ASSUME NEW f, NEW s, NEW t, Unsent(f, s), Unsent(f, t)
    PROVE  Unsent(f, s \o t)
<1> DEFINE S == StatementsOf(f)
           u == s \o t
<1>0. s \in Seq(S) /\ t \in Seq(S)
    BY DEF Unsent
<1>1. /\ u \in Seq(S)
      /\ Len(s) \in Nat /\ Len(t) \in Nat
      /\ DOMAIN s = 1 .. Len(s) /\ DOMAIN t = 1 .. Len(t) /\ DOMAIN u = 1 .. Len(s) + Len(t)
      /\ \A i \in 1 .. Len(s) : u[i] = s[i]
      /\ \A i \in 1 .. Len(t) : u[Len(s) + i] = t[i]
    BY <1>0, Concat
<1> HIDE DEF u, S
<1>2. ASSUME NEW i \in DOMAIN u
      PROVE  /\ u[i] = "upsert" => i # 1 /\ u[i - 1] = "select"
             /\ u[i] = "discrepancies" => i # 1 /\ u[i - 1] = "upsert"
             /\ u[i] = "recoveries" => i # 1 /\ u[i - 1] = "loans"
  <2>1. CASE i \in 1 .. Len(s)
    <3>1. u[i] = s[i] /\ (i # 1 => u[i - 1] = s[i - 1])
        BY <1>1, <2>1
    <3> QED
        BY <3>1, <1>1, <2>1 DEF Unsent
  <2>2. CASE i \notin 1 .. Len(s)
    <3>1. PICK j \in 1 .. Len(t) : i = Len(s) + j
      <4>1. i - Len(s) \in 1 .. Len(t) /\ i = Len(s) + (i - Len(s))
          BY <1>1, <2>2, <1>2
      <4> QED
          BY <4>1
    <3>2. u[i] = t[j] /\ (j # 1 => u[i - 1] = t[j - 1] /\ i # 1)
      <4>1. u[i] = t[j]
          BY <3>1, <1>1
      <4>2. ASSUME j # 1 PROVE u[i - 1] = t[j - 1] /\ i # 1
        <5>1. j - 1 \in 1 .. Len(t) /\ i - 1 = Len(s) + (j - 1) /\ i # 1
            BY <4>2, <3>1, <1>1
        <5> QED
            BY <5>1, <1>1
      <4> QED
          BY <4>1, <4>2
    <3>3. /\ t[j] = "upsert" => j # 1 /\ t[j - 1] = "select"
          /\ t[j] = "discrepancies" => j # 1 /\ t[j - 1] = "upsert"
          /\ t[j] = "recoveries" => j # 1 /\ t[j - 1] = "loans"
        BY <1>1 DEF Unsent
    <3> QED
        BY <3>2, <3>3
  <2> QED
      BY <2>1, <2>2
<1> QED
    BY <1>1, <1>2 DEF Unsent, S, u

LEMMA DetailUnsent ==
    ASSUME NEW f \in Files
    PROVE  /\ Unsent(f, DetailStatements(f))
           /\ \A i \in DOMAIN DetailStatements(f) : DetailStatements(f)[i] # "parsed"
           /\ \E i \in DOMAIN DetailStatements(f) : DetailStatements(f)[i] = LastDetail(f)
<1>1. CASE Source(f) \in {"refill", "sdp"}
  <2>1. DetailStatements(f) = <<"cdr">> /\ "cdr" \in StatementsOf(f) /\ LastDetail(f) = "cdr"
      BY <1>1 DEF DetailStatements, StatementsOf, LastDetail
  <2> QED
      BY <2>1 DEF Unsent
<1>2. CASE Source(f) = "vendor"
  <2>1. /\ DetailStatements(f) = <<"loans", "recoveries">>
        /\ {"loans", "recoveries"} \subseteq StatementsOf(f) /\ LastDetail(f) = "recoveries"
      BY <1>2 DEF DetailStatements, StatementsOf, LastDetail
  <2> QED
      BY <2>1 DEF Unsent
<1>3. CASE Source(f) = "airtel-activation"
  <2>1. /\ DetailStatements(f) = <<"select", "upsert", "discrepancies">>
        /\ {"select", "upsert", "discrepancies"} \subseteq StatementsOf(f)
        /\ LastDetail(f) = "discrepancies"
      BY <1>3 DEF DetailStatements, StatementsOf, LastDetail
  <2> QED
      BY <2>1 DEF Unsent
<1> QED
    BY <1>1, <1>2, <1>3, LinesAre

LEMMA EmptyUnsent == ASSUME NEW f PROVE Unsent(f, <<>>)
BY DEF Unsent

LEMMA RowsUnsent == ASSUME NEW f PROVE Unsent(f, <<"rows">>)
<1>1. "rows" \in StatementsOf(f)
    BY DEF StatementsOf
<1> QED
    BY <1>1 DEF Unsent

LEMMA EndUnsent == ASSUME NEW f PROVE Unsent(f, <<"parsed", "link">>)
<1>1. {"parsed", "link"} \subseteq StatementsOf(f)
    BY DEF StatementsOf
<1> QED
    BY <1>1 DEF Unsent

\* Flush sends the detail statements when there are accepted lines, and the
\* rows when there are lines; it does not mark the batch.
LEMMA FlushUnsent ==
    ASSUME NEW f \in Files, NEW buffer, NEW rowBuffer
    PROVE  LET t == Flush(f, buffer, rowBuffer)
           IN  /\ Unsent(f, t)
               /\ \A i \in DOMAIN t : t[i] # "parsed"
               /\ buffer # {} => \E i \in DOMAIN t : t[i] = LastDetail(f)
               /\ rowBuffer # {} => \E i \in DOMAIN t : t[i] = "rows"
<1> DEFINE s == IF buffer = {} THEN <<>> ELSE DetailStatements(f)
           t == IF rowBuffer = {} THEN <<>> ELSE <<"rows">>
           u == s \o t
           S == StatementsOf(f)
<1>1. /\ Unsent(f, s) /\ \A i \in DOMAIN s : s[i] # "parsed"
      /\ buffer # {} => \E i \in DOMAIN s : s[i] = LastDetail(f)
  <2>1. CASE buffer = {}
      BY <2>1, EmptyUnsent
  <2>2. CASE buffer # {}
      BY <2>2, DetailUnsent
  <2> QED
      BY <2>1, <2>2
<1>2. /\ Unsent(f, t) /\ \A i \in DOMAIN t : t[i] # "parsed"
      /\ rowBuffer # {} => \E i \in DOMAIN t : t[i] = "rows"
  <2>1. CASE rowBuffer = {}
      BY <2>1, EmptyUnsent
  <2>2. CASE rowBuffer # {}
    <3>1. t = <<"rows">>
        BY <2>2
    <3> QED
        BY <3>1, RowsUnsent
  <2> QED
      BY <2>1, <2>2
<1>3. s \in Seq(S) /\ t \in Seq(S)
    BY <1>1, <1>2 DEF Unsent
<1>4. u = Flush(f, buffer, rowBuffer)
    BY DEF Flush
<1> HIDE DEF s, t
<1>5. /\ Len(s) \in Nat /\ Len(t) \in Nat
      /\ DOMAIN s = 1 .. Len(s) /\ DOMAIN t = 1 .. Len(t) /\ DOMAIN u = 1 .. Len(s) + Len(t)
      /\ \A i \in 1 .. Len(s) : u[i] = s[i]
      /\ \A i \in 1 .. Len(t) : u[Len(s) + i] = t[i]
    BY <1>3, Concat
<1>6. Unsent(f, u)
    BY <1>1, <1>2, UnsentJoin
<1> HIDE DEF u, S
<1>7. \A i \in DOMAIN s : i \in DOMAIN u /\ u[i] = s[i]
    BY <1>5
<1>8. \A i \in DOMAIN t : Len(s) + i \in DOMAIN u /\ u[Len(s) + i] = t[i]
    BY <1>5
<1>9. \A i \in DOMAIN u : u[i] # "parsed"
  <2> SUFFICES ASSUME NEW i \in DOMAIN u PROVE u[i] # "parsed"
      OBVIOUS
  <2>1. CASE i \in DOMAIN s
      BY <2>1, <1>7, <1>1
  <2>2. CASE i \notin DOMAIN s
    <3>1. i - Len(s) \in DOMAIN t /\ Len(s) + (i - Len(s)) = i
        BY <2>2, <1>5
    <3> QED
        BY <3>1, <1>8, <1>2
  <2> QED
      BY <2>1, <2>2
<1> QED
    BY <1>1, <1>2, <1>4, <1>6, <1>7, <1>8, <1>9

LEMMA FlushAtUnsent ==
    ASSUME NEW f \in Files, NEW buffer, NEW rowBuffer
    PROVE  LET t == FlushAt(f, buffer, rowBuffer)
           IN  Unsent(f, t) /\ \A i \in DOMAIN t : t[i] # "parsed"
<1> DEFINE Full(lines) == Cardinality(lines) >= BATCH_SIZE
           some == IF Full(buffer) THEN buffer ELSE {}
           rest == IF Full(rowBuffer) THEN rowBuffer ELSE {}
<1>1. \/ FlushAt(f, buffer, rowBuffer) = Flush(f, some, rest)
      \/ FlushAt(f, buffer, rowBuffer) = Flush(f, buffer, rowBuffer)
      \/ FlushAt(f, buffer, rowBuffer) = <<>>
    BY DEF FlushAt
<1> HIDE DEF some, rest
<1>2. CASE FlushAt(f, buffer, rowBuffer) = Flush(f, some, rest)
    BY <1>2, FlushUnsent
<1>3. CASE FlushAt(f, buffer, rowBuffer) = Flush(f, buffer, rowBuffer)
    BY <1>3, FlushUnsent
<1>4. CASE FlushAt(f, buffer, rowBuffer) = <<>>
    BY <1>4, EmptyUnsent
<1> QED
    BY <1>1, <1>2, <1>3, <1>4

LEMMA LastFlushUnsent ==
    ASSUME NEW f \in Files, NEW buffer, NEW rowBuffer
    PROVE  LET t == Flush(f, buffer, rowBuffer) \o <<"parsed", "link">>
           IN  /\ Unsent(f, t)
               /\ \A i \in DOMAIN t : t[i] = "parsed" =>
                    /\ buffer = {} \/ Before(t, i, LastDetail(f))
                    /\ rowBuffer = {} \/ Before(t, i, "rows")
<1> DEFINE s == Flush(f, buffer, rowBuffer)
           e == <<"parsed", "link">>
           t == s \o e
           S == StatementsOf(f)
<1>1. /\ Unsent(f, s) /\ \A i \in DOMAIN s : s[i] # "parsed"
      /\ buffer # {} => \E i \in DOMAIN s : s[i] = LastDetail(f)
      /\ rowBuffer # {} => \E i \in DOMAIN s : s[i] = "rows"
    BY FlushUnsent
<1>2. Unsent(f, e)
    BY EndUnsent
<1>3. s \in Seq(S) /\ e \in Seq(S)
    BY <1>1, <1>2 DEF Unsent
<1> HIDE DEF s, e
<1>4. /\ Len(s) \in Nat /\ Len(e) \in Nat
      /\ DOMAIN s = 1 .. Len(s) /\ DOMAIN t = 1 .. Len(s) + Len(e)
      /\ \A i \in 1 .. Len(s) : t[i] = s[i]
    BY <1>3, Concat
<1>5. Unsent(f, t)
    BY <1>1, <1>2, UnsentJoin
<1> HIDE DEF t, S
<1>6. ASSUME NEW i \in DOMAIN t, t[i] = "parsed"
      PROVE  /\ buffer = {} \/ Before(t, i, LastDetail(f))
             /\ rowBuffer = {} \/ Before(t, i, "rows")
  <2>1. i \notin DOMAIN s
      BY <1>1, <1>4, <1>6
  <2>2. \A j \in DOMAIN s : j \in 1 .. i - 1 /\ t[j] = s[j]
      BY <2>1, <1>4, <1>6
  <2> QED
      BY <2>2, <1>1 DEF Before
<1> QED
    BY <1>5, <1>6 DEF t, s, e

\* A flush that has not begun is in order.
LEMMA UnsentInOrder ==
    ASSUME NEW f \in Files, NEW w, Unsent(f, w.todo), NEW i \in DOMAIN w.todo,
           w.todo[i] = "parsed" =>
              /\ w.next > Len(Lines(f))
              /\ w.buffer = {} \/ Before(w.todo, i, LastDetail(f))
              /\ w.rowBuffer = {} \/ Before(w.todo, i, "rows")
    PROVE  InOrder(f, w, i)'
<1>1. w.todo[i] \in StatementsOf(f)
    BY DEF Unsent
<1> QED
    BY <1>1 DEF InOrder, Unsent

LEMMA CoveredStays ==
    ASSUME TypeOK, Grows, cdr' \in [LineIds -> Nat],
           NEW f \in Files, NEW w, NEW n \in DOMAIN Lines(f), Covered(f, w, n)
    PROVE  Covered(f, w, n)'
<1>1. Accepted(f, n) /\ Stored(f, n) => Stored(f, n)'
    BY StoredStays
<1> QED
    BY <1>1 DEF Covered, Grows

-----------------------------------------------------------------------------
(* One statement done: what leaves a buffer is stored, and the premise of  *)
(* the next statement holds.                                               *)
LEMMA Advance ==
    ASSUME TypeOK, Grows, cdr' \in [LineIds -> Nat],
           NEW f \in Files, NEW w, WorkerOK(f, w), w.todo # <<>>,
           NEW B \in SUBSET w.buffer, NEW R \in SUBSET w.rowBuffer, NEW v,
           v.next = w.next, v.buffer = B, v.rowBuffer = R, v.todo = Tail(w.todo),
           \A n \in w.buffer \ B : Stored(f, n)',
           \A n \in w.rowBuffer \ R : RowKey(f, n) \in rows',
           Head(w.todo) = "select" => v.found = subscribers',
           Head(w.todo) = "upsert" => \A n \in B : Upserted(f, v.found, n)',
           Head(w.todo) = "loans" => \A n \in B : ~IsKind(f, n, "loan"),
           Head(w.todo) = LastDetail(f) => B = {},
           Head(w.todo) = "rows" => R = {}
    PROVE  WorkerOK(f, v)'
<1> DEFINE S == StatementsOf(f)
           s == w.todo
           t == Tail(s)
<1>1. s \in Seq(S)
    BY DEF WorkerOK
<1>2. /\ Head(s) = s[1] /\ t \in Seq(S)
      /\ Len(s) \in Nat \ {0} /\ DOMAIN t = 1 .. Len(s) - 1 /\ DOMAIN s = 1 .. Len(s)
      /\ \A i \in 1 .. Len(s) - 1 : i + 1 \in DOMAIN s /\ t[i] = s[i + 1]
    BY <1>1, Rest
<1> HIDE DEF S, s, t
<1>3. ASSUME NEW i \in DOMAIN t PROVE InOrder(f, v, i)'
  <2>1. /\ i \in Nat \ {0} /\ i + 1 \in DOMAIN s /\ t[i] = s[i + 1] /\ (i + 1) - 1 = i /\ i + 1 # 1
        /\ i = 1 => s[i] = Head(s)
        /\ i # 1 => t[i - 1] = s[i]
    <3>1. i \in 1 .. Len(s) - 1
        BY <1>2, <1>3
    <3>2. ASSUME i # 1 PROVE t[i - 1] = s[i]
      <4>1. i - 1 \in 1 .. Len(s) - 1 /\ (i - 1) + 1 = i
          BY <3>1, <3>2, <1>2
      <4> QED
          BY <4>1, <1>2
    <3> QED
        BY <3>1, <3>2, <1>2
  <2>2. InOrder(f, w, i + 1)
      BY <2>1 DEF WorkerOK, s
  <2>3. /\ t[i] \in S
        /\ t[i] = "upsert" => s[i] = "select"
        /\ t[i] = "discrepancies" => s[i] = "upsert"
        /\ t[i] = "recoveries" => s[i] = "loans"
        /\ t[i] = "parsed" =>
              /\ w.next > Len(Lines(f))
              /\ w.buffer = {} \/ Before(s, i + 1, LastDetail(f))
              /\ w.rowBuffer = {} \/ Before(s, i + 1, "rows")
      BY <2>1, <2>2 DEF InOrder, S, s
  <2>4. ASSUME NEW x, Before(s, i + 1, x) PROVE Head(s) = x \/ Before(t, i, x)
    <3>1. PICK j \in 1 .. (i + 1) - 1 : s[j] = x
        BY <2>4 DEF Before
    <3>2. CASE j = 1
        BY <3>1, <3>2, <1>2
    <3>3. CASE j # 1
      <4>1. j - 1 \in 1 .. i - 1 /\ j - 1 \in 1 .. Len(s) - 1 /\ (j - 1) + 1 = j
          BY <3>1, <3>3, <2>1, <1>2
      <4>2. t[j - 1] = x
          BY <4>1, <3>1, <1>2
      <4> QED
          BY <4>1, <4>2 DEF Before
    <3> QED
        BY <3>2, <3>3
  <2>5. t[i] = "parsed" =>
              /\ v.next > Len(Lines(f))
              /\ v.buffer = {} \/ Before(t, i, LastDetail(f))
              /\ v.rowBuffer = {} \/ Before(t, i, "rows")
      BY <2>3, <2>4 DEF s
  <2>6. v.todo = t
      BY DEF t, s
  <2>7. t[i] = "upsert" => IF i = 1 THEN v.found = subscribers' ELSE t[i - 1] = "select"
      BY <2>1, <2>3 DEF s
  <2>8. t[i] = "discrepancies" =>
          IF i = 1 THEN \A n \in v.buffer : Upserted(f, v.found, n)' ELSE t[i - 1] = "upsert"
      BY <2>1, <2>3 DEF s
  <2>9. t[i] = "recoveries" =>
          IF i = 1 THEN \A n \in v.buffer : ~IsKind(f, n, "loan") ELSE t[i - 1] = "loans"
      BY <2>1, <2>3 DEF s
  <2> QED
      BY <2>3, <2>5, <2>6, <2>7, <2>8, <2>9 DEF InOrder, S
<1>4. ASSUME NEW n \in DOMAIN Lines(f), n < v.next PROVE Covered(f, v, n)'
  <2>1. Covered(f, w, n)
      BY <1>4 DEF WorkerOK
  <2>2. Covered(f, w, n)'
      BY <2>1, CoveredStays
  <2> QED
      BY <2>2 DEF Covered
<1>5. v.todo \in Seq(S) /\ DOMAIN v.todo = DOMAIN t
    BY <1>2 DEF t, s
<1> QED
    BY <1>3, <1>4, <1>5 DEF WorkerOK, S

-----------------------------------------------------------------------------
(* What steps have in common.                                              *)
LEMMA WorkerJob ==
    ASSUME Inv, worker # Idle
    PROVE  /\ worker.job \in DOMAIN jobs /\ jobs[worker.job] \in JobRows
           /\ File \in Files /\ Known(File) /\ WorkerOK(File, worker)
<1>1. worker.job \in DOMAIN jobs /\ WorkerOK(File, worker)
    BY DEF Inv, WorkerSound, File
<1>2. jobs[worker.job] \in JobRows
    BY <1>1 DEF Inv, TypeOK
<1> QED
    BY <1>1, <1>2 DEF Inv, SavedFirst, JobRows, File

LEMMA JobFiles ==
    ASSUME Inv, NEW i \in DOMAIN jobs
    PROVE  jobs[i] \in JobRows /\ jobs[i].file \in Files /\ Known(jobs[i].file)
<1>1. jobs[i] \in JobRows
    BY DEF Inv, TypeOK
<1> QED
    BY <1>1 DEF JobRows, Inv, SavedFirst

LEMMA StatusSet ==
    ASSUME TypeOK, NEW f \in Files, Known(f), NEW st \in Statuses, SetStatus(f, st)
    PROVE  /\ batches' \in [Files -> BatchRows \union {Missing}]
           /\ \A g \in Files : Known(g) => batches'[g] # Missing
           /\ \A g \in Files : g # f => batches'[g] = batches[g]
           /\ batches'[f].status = st
<1>1. batches[f] \in BatchRows
    BY DEF TypeOK, Known
<1>2. [batches[f] EXCEPT !.status = st] \in BatchRows /\ [batches[f] EXCEPT !.status = st].status = st
    BY <1>1 DEF BatchRows
<1>3. batches' = [batches EXCEPT ![f] = [batches[f] EXCEPT !.status = st]]
    BY DEF SetStatus
<1> QED
    BY <1>1, <1>2, <1>3, NullAssumption DEF TypeOK, Known

LEMMA RowSet ==
    ASSUME TypeOK, NEW f \in Files, NEW row \in BatchRows, batches' = [batches EXCEPT ![f] = row]
    PROVE  /\ batches' \in [Files -> BatchRows \union {Missing}]
           /\ \A g \in Files : Known(g) => batches'[g] # Missing
           /\ \A g \in Files : g # f => batches'[g] = batches[g]
           /\ batches'[f] = row /\ batches'[f] # Missing
BY NullAssumption DEF TypeOK, Known

\* A batch that keeps its row, or is not PARSED, is none to worry about.
LEMMA ParsedStays ==
    ASSUME Inv, Grows, cdr' \in [LineIds -> Nat],
           \A f \in Files : batches'[f] = batches[f] \/ batches'[f].status # "PARSED"
    PROVE  ParsedComplete'
<1> SUFFICES ASSUME NEW f \in Files, Known(f)', batches'[f].status = "PARSED"
             PROVE  Complete(f)'
    BY DEF ParsedComplete
<1>1. batches'[f] = batches[f] /\ Complete(f)
    BY DEF Inv, ParsedComplete, Known
<1>2. ASSUME NEW n \in DOMAIN Lines(f)
      PROVE  RowKey(f, n) \in rows' /\ (Accepted(f, n) => Stored(f, n)')
    BY <1>1, <1>2, StoredStays DEF Inv, Complete, Grows
<1> QED
    BY <1>1, <1>2 DEF Complete

LEMMA SameParsed ==
    ASSUME Inv, UNCHANGED <<batches, fileVars>>
    PROVE  ParsedComplete'
<1>1. Grows /\ cdr' \in [LineIds -> Nat]
    BY SameGrows DEF Inv, TypeOK, fileVars
<1> QED
    BY <1>1, ParsedStays

\* Nobody but the worker changes what it relies on.
LEMMA WorkerStays ==
    ASSUME Inv, Grows, cdr' \in [LineIds -> Nat], UNCHANGED <<worker, subscribers>>,
           \A i \in DOMAIN jobs : i \in DOMAIN jobs' /\ jobs'[i].file = jobs[i].file
    PROVE  WorkerSound'
<1> SUFFICES ASSUME worker # Idle
             PROVE  /\ worker.job \in DOMAIN jobs'
                    /\ \A f \in {jobs'[worker.job].file} : WorkerOK(f, worker)'
    BY DEF WorkerSound, Idle
<1>1. /\ worker.job \in DOMAIN jobs /\ File \in Files /\ WorkerOK(File, worker)
      /\ jobs'[worker.job].file = File
    BY WorkerJob DEF File
<1>2. PICK f \in Files : f = File
    BY <1>1
<1>3. PICK w : w = worker
    OBVIOUS
<1>4. ASSUME NEW n \in DOMAIN Lines(f), Covered(f, w, n) PROVE Covered(f, w, n)'
    BY <1>4, CoveredStays DEF Inv
<1>5. ASSUME NEW i \in DOMAIN w.todo, InOrder(f, w, i) PROVE InOrder(f, w, i)'
    BY <1>5 DEF InOrder, Upserted
<1>6. WorkerOK(f, w)
    BY <1>1, <1>2, <1>3
<1>7. WorkerOK(f, w)'
    BY <1>4, <1>5, <1>6 DEF WorkerOK
<1>8. \A g \in {jobs'[worker.job].file} : g = f
    BY <1>1, <1>2
<1> QED
    BY <1>1, <1>2, <1>3, <1>7, <1>8

LEMMA AddJobKeeps ==
    ASSUME TypeOK, NEW f \in Files, AddJob(f)
    PROVE  /\ jobs' \in Seq(JobRows)
           /\ \A i \in DOMAIN jobs : i \in DOMAIN jobs' /\ jobs'[i] = jobs[i]
           /\ \A i \in DOMAIN jobs' : i \in DOMAIN jobs \/ jobs'[i].file = f
<1> DEFINE j == [file |-> f, attempts |-> 0, stalls |-> 0, state |-> "waiting"]
<1>1. j \in JobRows /\ j.file = f
    BY DEF JobRows
<1>2. jobs' = Append(jobs, j) /\ jobs \in Seq(JobRows)
    BY DEF AddJob, TypeOK
<1> HIDE DEF j
<1> QED
    BY <1>1, <1>2

\* A job changes its state; it stays a job of its file.
LEMMA JobSet ==
    ASSUME TypeOK, NEW i \in DOMAIN jobs, NEW j \in JobRows, j.file = jobs[i].file,
           jobs' = [jobs EXCEPT ![i] = j]
    PROVE  /\ jobs' \in Seq(JobRows) /\ DOMAIN jobs' = DOMAIN jobs
           /\ \A k \in DOMAIN jobs : jobs'[k].file = jobs[k].file
<1>1. jobs \in Seq(JobRows)
    BY DEF TypeOK
<1> QED
    BY <1>1

LEMMA QuietKeeps ==
    ASSUME Inv, UNCHANGED <<batches, jobs, worker, upload, replaying, marks, fileVars>>
    PROVE  Inv'
<1>1. Grows /\ cdr' \in [LineIds -> Nat]
    BY SameGrows DEF Inv, TypeOK, fileVars
<1>2. TypeOK'
    BY DEF Inv, TypeOK, LoansOK, fileVars
<1>3. SavedFirst'
    BY DEF Inv, SavedFirst, Known
<1>4. ParsedComplete'
    BY SameParsed
<1>5. WorkerSound'
    BY <1>1, WorkerStays DEF fileVars
<1> QED
    BY <1>2, <1>3, <1>4, <1>5 DEF Inv

-----------------------------------------------------------------------------
(* Requests, marks and sweeps.                                             *)
LEMMA FreshRow == Batch("RECEIVED", 0, 0) \in BatchRows /\ Batch("RECEIVED", 0, 0).status # "PARSED"
BY DEF Batch, BatchRows, Statuses

\* A step that gives one batch a row, not PARSED, and leaves worker, jobs and
\* tables alone.
LEMMA RowKeeps ==
    ASSUME Inv, NEW f \in Files, NEW row \in BatchRows, row.status # "PARSED",
           batches' = [batches EXCEPT ![f] = row],
           UNCHANGED <<jobs, worker, marks, fileVars>>,
           upload' = [g \in Files |-> upload'[g]], replaying' = [g \in Files |-> replaying'[g]],
           \A g \in Files : g # f /\ (upload'[g] = "saved" \/ replaying'[g] \in {"found", "saved"})
                               => Known(g)
    PROVE  Inv'
<1>1. Grows /\ cdr' \in [LineIds -> Nat]
    BY SameGrows DEF Inv, TypeOK, fileVars
<1>2. /\ batches' \in [Files -> BatchRows \union {Missing}]
      /\ \A g \in Files : Known(g) => batches'[g] # Missing
      /\ \A g \in Files : g # f => batches'[g] = batches[g]
      /\ batches'[f] = row /\ batches'[f] # Missing
    BY RowSet DEF Inv
<1>3. TypeOK'
    BY <1>2 DEF Inv, TypeOK, LoansOK, fileVars
<1>4. SavedFirst'
  <2>1. \A i \in DOMAIN jobs : jobs[i].file \in Files /\ Known(jobs[i].file)
      BY JobFiles
  <2>2. \A g \in Files : g = f \/ Known(g) => batches'[g] # Missing
      BY <1>2
  <2>3. marks \subseteq Files
      BY DEF Inv, TypeOK
  <2> QED
      BY <2>1, <2>2, <2>3 DEF Inv, SavedFirst, Known
<1>5. ParsedComplete'
  <2>1. \A g \in Files : batches'[g] = batches[g] \/ batches'[g].status # "PARSED"
      BY <1>2
  <2> QED
      BY <2>1, <1>1, ParsedStays
<1>6. WorkerSound'
    BY <1>1, WorkerStays DEF fileVars
<1> QED
    BY <1>3, <1>4, <1>5, <1>6 DEF Inv

LEMMA ReceiveKeeps == ASSUME Inv, NEW f \in Files, receive(f) PROVE Inv'
<1>1. /\ batches' = [batches EXCEPT ![f] = Batch("RECEIVED", 0, 0)]
      /\ upload' = [upload EXCEPT ![f] = "saved"]
      /\ UNCHANGED <<jobs, worker, replaying, marks, fileVars>>
    BY DEF receive
<1>2. upload = [g \in Files |-> upload[g]] /\ replaying = [g \in Files |-> replaying[g]]
    BY DEF Inv, TypeOK
<1>3. upload' = [g \in Files |-> upload'[g]] /\ \A g \in Files : g # f => upload'[g] = upload[g]
    BY <1>1, <1>2
<1>4. replaying' = [g \in Files |-> replaying'[g]]
    BY <1>1, <1>2
<1>5. \A g \in Files : g # f /\ (upload'[g] = "saved" \/ replaying'[g] \in {"found", "saved"}) => Known(g)
    BY <1>1, <1>3 DEF Inv, SavedFirst
<1> QED
    BY <1>1, <1>3, <1>4, <1>5, FreshRow, RowKeeps

LEMMA ReplaySaveKeeps == ASSUME Inv, NEW f \in Files, replaySave(f) PROVE Inv'
<1>1. /\ batches' = [batches EXCEPT ![f] = Batch("RECEIVED", 0, 0)]
      /\ replaying' = [replaying EXCEPT ![f] = "saved"]
      /\ UNCHANGED <<jobs, worker, upload, marks, fileVars>>
    BY DEF replaySave
<1>2. upload = [g \in Files |-> upload[g]] /\ replaying = [g \in Files |-> replaying[g]]
    BY DEF Inv, TypeOK
<1>3. replaying' = [g \in Files |-> replaying'[g]] /\ \A g \in Files : g # f => replaying'[g] = replaying[g]
    BY <1>1, <1>2
<1>4. upload' = [g \in Files |-> upload'[g]]
    BY <1>1, <1>2
<1>5. \A g \in Files : g # f /\ (upload'[g] = "saved" \/ replaying'[g] \in {"found", "saved"}) => Known(g)
    BY <1>1, <1>3 DEF Inv, SavedFirst
<1> QED
    BY <1>1, <1>3, <1>4, <1>5, FreshRow, RowKeeps

\* A step of requests that saves nothing: it may add a job of a batch there is.
LEMMA RequestKeeps ==
    ASSUME Inv, UNCHANGED <<batches, worker, marks, fileVars>>,
           \/ UNCHANGED jobs
           \/ \E f \in Files : AddJob(f) /\ Known(f),
           upload' = [g \in Files |-> upload'[g]], replaying' = [g \in Files |-> replaying'[g]],
           \A g \in Files : upload'[g] = "saved" \/ replaying'[g] \in {"found", "saved"} => Known(g)
    PROVE  Inv'
<1>1. Grows /\ cdr' \in [LineIds -> Nat]
    BY SameGrows DEF Inv, TypeOK, fileVars
<1>2. /\ jobs' \in Seq(JobRows)
      /\ \A i \in DOMAIN jobs : i \in DOMAIN jobs' /\ jobs'[i] = jobs[i]
      /\ \A i \in DOMAIN jobs' : i \in DOMAIN jobs \/ Known(jobs'[i].file)
  <2>1. CASE UNCHANGED jobs
      BY <2>1 DEF Inv, TypeOK
  <2>2. CASE \E f \in Files : AddJob(f) /\ Known(f)
    <3>1. PICK f \in Files : AddJob(f) /\ Known(f)
        BY <2>2
    <3>2. /\ jobs' \in Seq(JobRows)
          /\ \A i \in DOMAIN jobs : i \in DOMAIN jobs' /\ jobs'[i] = jobs[i]
          /\ \A i \in DOMAIN jobs' : i \in DOMAIN jobs \/ jobs'[i].file = f
        BY <3>1, AddJobKeeps DEF Inv
    <3> QED
        BY <3>1, <3>2 DEF Known
  <2> QED
      BY <2>1, <2>2
<1>3. TypeOK'
    BY <1>2 DEF Inv, TypeOK, LoansOK, fileVars
<1>4. SavedFirst'
    BY <1>2 DEF Inv, SavedFirst, Known
<1>5. ParsedComplete'
    BY SameParsed
<1>6. WorkerSound'
    BY <1>1, <1>2, WorkerStays DEF fileVars
<1> QED
    BY <1>3, <1>4, <1>5, <1>6 DEF Inv

LEMMA NoNullStep == Idle \notin {"found", "saved"}
BY NullAssumption DEF Idle

LEMMA EnqueueKeeps ==
    ASSUME Inv, NEW f \in Files, enqueueParse(f) \/ replay(f) \/ replayEnqueue(f) \/ apiDies(f)
    PROVE  Inv'
<1>1. upload = [g \in Files |-> upload[g]] /\ replaying = [g \in Files |-> replaying[g]]
    BY DEF Inv, TypeOK
<1>2. \A g \in Files : upload[g] = "saved" \/ replaying[g] \in {"found", "saved"} => Known(g)
    BY DEF Inv, SavedFirst
<1>3. CASE enqueueParse(f)
  <2>1. /\ AddJob(f) /\ upload[f] = "saved" /\ upload' = [upload EXCEPT ![f] = Idle]
        /\ UNCHANGED <<batches, worker, replaying, marks, fileVars>>
      BY <1>3 DEF enqueueParse
  <2> QED
      BY <2>1, <1>1, <1>2, NoNullStep, RequestKeeps
<1>4. CASE replay(f)
  <2>1. /\ UNCHANGED jobs /\ Known(f) /\ replaying' = [replaying EXCEPT ![f] = "found"]
        /\ UNCHANGED <<batches, worker, upload, marks, fileVars>>
      BY <1>4 DEF replay, Known
  <2> QED
      BY <2>1, <1>1, <1>2, RequestKeeps
<1>5. CASE replayEnqueue(f)
  <2>1. /\ AddJob(f) /\ replaying[f] = "saved" /\ replaying' = [replaying EXCEPT ![f] = Idle]
        /\ UNCHANGED <<batches, worker, upload, marks, fileVars>>
      BY <1>5 DEF replayEnqueue
  <2> QED
      BY <2>1, <1>1, <1>2, NoNullStep, RequestKeeps
<1>6. CASE apiDies(f)
  <2>1. /\ UNCHANGED jobs /\ upload' = [upload EXCEPT ![f] = Idle]
        /\ replaying' = [replaying EXCEPT ![f] = Idle]
        /\ UNCHANGED <<batches, worker, marks, fileVars>>
      BY <1>6 DEF apiDies
  <2> QED
      BY <2>1, <1>1, <1>2, NoNullStep, RequestKeeps
<1> QED
    BY <1>3, <1>4, <1>5, <1>6

LEMMA SavedFirstStays ==
    ASSUME Inv, UNCHANGED <<upload, replaying>>,
           \A g \in Files : Known(g) => batches'[g] # Missing,
           \A i \in DOMAIN jobs' : i \in DOMAIN jobs /\ jobs'[i].file = jobs[i].file,
           NEW f \in Files, Known(f), marks' \subseteq marks \union {f}
    PROVE  SavedFirst'
<1>1. \A i \in DOMAIN jobs : jobs[i].file \in Files /\ Known(jobs[i].file)
    BY JobFiles
<1>2. \A g \in marks' : g \in Files /\ Known(g)
    BY DEF Inv, SavedFirst, TypeOK
<1> QED
    BY <1>1, <1>2 DEF Inv, SavedFirst, Known

\* The batch is marked by the event of a job given up (onFailed).
LEMMA OnFailedKeeps == ASSUME Inv, NEW f \in Files, onFailed(f) PROVE Inv'
<1>1. /\ f \in marks /\ marks' = marks \ {f} /\ SetStatus(f, "FAILED")
      /\ UNCHANGED <<jobs, worker, upload, replaying, fileVars>>
    BY DEF onFailed
<1>2. Known(f) /\ TypeOK
    BY <1>1 DEF Inv, SavedFirst
<1>3. /\ batches' \in [Files -> BatchRows \union {Missing}]
      /\ \A g \in Files : Known(g) => batches'[g] # Missing
      /\ \A g \in Files : g # f => batches'[g] = batches[g]
      /\ batches'[f].status = "FAILED"
    BY <1>1, <1>2, StatusSet DEF Statuses
<1>4. Grows /\ cdr' \in [LineIds -> Nat]
    BY <1>1, <1>2, SameGrows DEF TypeOK, fileVars
<1>5. TypeOK'
    BY <1>1, <1>2, <1>3 DEF TypeOK, LoansOK, fileVars
<1>6. SavedFirst'
    BY <1>1, <1>2, <1>3, SavedFirstStays
<1>7. ParsedComplete'
    BY <1>3, <1>4, ParsedStays
<1>8. WorkerSound'
    BY <1>1, <1>4, WorkerStays DEF fileVars
<1> QED
    BY <1>5, <1>6, <1>7, <1>8 DEF Inv

-----------------------------------------------------------------------------
(* The worker's statements.                                                *)
LEMMA TablesKeep ==
    ASSUME Inv, UNCHANGED <<batches, jobs, upload, replaying, marks>>,
           Grows, cdr' \in [LineIds -> Nat], LoansOK',
           UNCHANGED subscribers \/
              subscribers' = [s \in Msisdns |-> [activated |-> subscribers'[s].activated,
                                                 class |-> subscribers'[s].class]],
           WorkerSound'
    PROVE  Inv'
<1>1. TypeOK'
    BY DEF Inv, TypeOK
<1>2. SavedFirst'
    BY DEF Inv, SavedFirst, Known
<1>3. ParsedComplete'
    BY ParsedStays
<1> QED
    BY <1>1, <1>2, <1>3 DEF Inv

LEMMA StatementSound ==
    ASSUME Inv, worker # Idle, worker.todo # <<>>, Grows, cdr' \in [LineIds -> Nat], UNCHANGED jobs,
           NEW f, f = File,
           NEW B \in SUBSET worker.buffer, NEW R \in SUBSET worker.rowBuffer, NEW found,
           Working(worker.next, B, R, found, Tail(worker.todo)),
           \A n \in worker.buffer \ B : Stored(f, n)',
           \A n \in worker.rowBuffer \ R : RowKey(f, n) \in rows',
           Head(worker.todo) = "select" => found = subscribers',
           Head(worker.todo) = "upsert" => \A n \in B : Upserted(f, found, n)',
           Head(worker.todo) = "loans" => \A n \in B : ~IsKind(f, n, "loan"),
           Head(worker.todo) = LastDetail(f) => B = {},
           Head(worker.todo) = "rows" => R = {}
    PROVE  WorkerSound'
<1>1. PICK w : w = worker
    OBVIOUS
<1>2. w.job \in DOMAIN jobs /\ f \in Files /\ WorkerOK(f, w) /\ f = jobs[w.job].file
    BY <1>1, WorkerJob DEF File
<1> DEFINE v == [job |-> w.job, next |-> w.next, buffer |-> B, rowBuffer |-> R, found |-> found,
                 todo |-> Tail(w.todo)]
<1>3. worker' = v
    BY <1>1 DEF Working
<1>4. /\ v.job = w.job /\ v.next = w.next /\ v.buffer = B /\ v.rowBuffer = R
      /\ v.found = found /\ v.todo = Tail(w.todo)
    OBVIOUS
<1> HIDE DEF v
<1>5. WorkerOK(f, v)'
    BY <1>1, <1>2, <1>4, Advance, ZenonT(60) DEF Inv
<1>6. v.job \in DOMAIN jobs' /\ jobs'[v.job].file = f
    BY <1>2, <1>4
<1> QED
    BY <1>3, <1>5, <1>6 DEF WorkerSound

LEMMA NextStatement ==
    ASSUME Inv, NEW x, Doing(x)
    PROVE  /\ worker # Idle /\ worker.todo # <<>> /\ Head(worker.todo) = x
           /\ x \in StatementsOf(File) /\ InOrder(File, worker, 1) /\ worker.todo[1] = x
           /\ worker.buffer \subseteq {n \in DOMAIN Lines(File) : Accepted(File, n)}
           /\ worker.rowBuffer \subseteq DOMAIN Lines(File)
<1>1. worker # Idle /\ worker.todo # <<>> /\ Head(worker.todo) = x
    BY DEF Doing
<1>2. WorkerOK(File, worker)
    BY <1>1, WorkerJob
<1>3. worker.todo \in Seq(StatementsOf(File))
    BY <1>2 DEF WorkerOK
<1>4. 1 \in DOMAIN worker.todo /\ Head(worker.todo) = worker.todo[1]
    BY <1>1, <1>3
<1> QED
    BY <1>1, <1>2, <1>3, <1>4 DEF WorkerOK, InOrder

\* Which sources send which statement.
LEMMA SourceOf ==
    ASSUME NEW f \in Files, NEW x \in StatementsOf(f)
    PROVE  /\ x = "cdr" => Source(f) \in {"refill", "sdp"}
           /\ x \in {"loans", "recoveries"} => Source(f) = "vendor"
           /\ x \in {"select", "upsert", "discrepancies"} => Source(f) = "airtel-activation"
           /\ x = LastDetail(f) => x \in {"cdr", "recoveries", "discrepancies"}
<1>1. CASE Source(f) \in {"refill", "sdp"}
    BY <1>1 DEF StatementsOf, LastDetail
<1>2. CASE Source(f) = "vendor"
    BY <1>2 DEF StatementsOf, LastDetail
<1>3. CASE Source(f) = "airtel-activation"
    BY <1>3 DEF StatementsOf, LastDetail
<1> QED
    BY <1>1, <1>2, <1>3, LinesAre

LEMMA InsertCdrKeeps == ASSUME Inv, insertCdr PROVE Inv'
<1>1. /\ Doing("cdr")
      /\ cdr' = [i \in LineIds |-> IF i[1] = File /\ i[2] \in worker.buffer THEN cdr[i] + 1 ELSE cdr[i]]
      /\ Working(worker.next, {}, worker.rowBuffer, worker.found, Tail(worker.todo))
      /\ UNCHANGED <<batches, jobs, upload, replaying, marks, rows, loans, recoveries, subscribers,
                     discrepancies>>
    BY DEF insertCdr, Done
<1>2. PICK f : f = File
    OBVIOUS
<1>3. /\ worker # Idle /\ worker.todo # <<>> /\ Head(worker.todo) = "cdr"
      /\ "cdr" \in StatementsOf(f)
      /\ worker.buffer \subseteq {n \in DOMAIN Lines(f) : Accepted(f, n)}
    BY <1>1, <1>2, NextStatement
<1>4. f \in Files
    BY <1>2, <1>3, WorkerJob
<1>5. Source(f) \in {"refill", "sdp"}
    BY <1>3, <1>4, SourceOf
<1>6. \A i \in LineIds : cdr[i] \in Nat
    BY DEF Inv, TypeOK
<1>7. cdr' \in [LineIds -> Nat] /\ \A i \in LineIds : cdr'[i] >= cdr[i]
    BY <1>1, <1>6
<1>8. Grows
    BY <1>1, <1>7 DEF Grows, SubscriberKept
<1>9. ASSUME NEW n \in worker.buffer PROVE Stored(f, n)'
  <2>1. n \in DOMAIN Lines(f) /\ <<f, n>> \in LineIds
      BY <1>3, <1>4, <1>9, LineId
  <2>2. cdr'[<<f, n>>] = cdr[<<f, n>>] + 1 /\ cdr[<<f, n>>] \in Nat
      BY <2>1, <1>1, <1>2, <1>6, <1>9
  <2> QED
      BY <2>2, <1>5 DEF Stored
<1>10. WorkerSound'
  <2>1. PICK found, R : found = worker.found /\ R = worker.rowBuffer
      OBVIOUS
  <2>2. Working(worker.next, {}, R, found, Tail(worker.todo))
      BY <1>1, <2>1
  <2>3. \A n \in worker.buffer \ {} : Stored(f, n)'
      BY <1>9
  <2> QED
      BY <1>1, <1>2, <1>3, <1>7, <1>8, <2>1, <2>2, <2>3, StatementSound
<1>11. LoansOK'
    BY <1>1 DEF Inv, TypeOK, LoansOK
<1> QED
    BY <1>1, <1>7, <1>8, <1>10, <1>11, TablesKeep

LEMMA InsertRowsKeeps == ASSUME Inv, insertRows PROVE Inv'
<1>1. /\ Doing("rows")
      /\ rows' = rows \union {RowKey(File, n) : n \in worker.rowBuffer}
      /\ Working(worker.next, worker.buffer, {}, worker.found, Tail(worker.todo))
      /\ UNCHANGED <<batches, jobs, upload, replaying, marks, cdr, loans, recoveries, subscribers,
                     discrepancies>>
    BY DEF insertRows, Done
<1>2. PICK f : f = File
    OBVIOUS
<1>3. /\ worker # Idle /\ worker.todo # <<>> /\ Head(worker.todo) = "rows"
      /\ "rows" \in StatementsOf(f)
    BY <1>1, <1>2, NextStatement
<1>4. f \in Files
    BY <1>2, <1>3, WorkerJob
<1>5. LastDetail(f) # "rows"
    BY <1>3, <1>4, SourceOf
<1>6. cdr' \in [LineIds -> Nat]
    BY <1>1 DEF Inv, TypeOK
<1>7. Grows
    BY <1>1, <1>6 DEF Grows, SubscriberKept
<1>8. WorkerSound'
  <2>1. PICK found, B : found = worker.found /\ B = worker.buffer
      OBVIOUS
  <2>2. Working(worker.next, B, {}, found, Tail(worker.todo))
      BY <1>1, <2>1
  <2>3. \A n \in worker.rowBuffer \ {} : RowKey(f, n) \in rows'
      BY <1>1, <1>2
  <2> QED
      BY <1>1, <1>2, <1>3, <1>5, <1>6, <1>7, <2>1, <2>2, <2>3, StatementSound
<1>9. LoansOK'
    BY <1>1 DEF Inv, TypeOK, LoansOK
<1> QED
    BY <1>1, <1>6, <1>7, <1>8, <1>9, TablesKeep

LEMMA InsertRecoveriesKeeps == ASSUME Inv, insertRecoveries PROVE Inv'
<1>1. /\ Doing("recoveries")
      /\ recoveries' = recoveries \union {vendorRecoveryId(Lines(File)[n]) : n \in worker.buffer}
      /\ Working(worker.next, {}, worker.rowBuffer, worker.found, Tail(worker.todo))
      /\ UNCHANGED <<batches, jobs, upload, replaying, marks, rows, cdr, loans, subscribers,
                     discrepancies>>
    BY DEF insertRecoveries, Done
<1>2. PICK f : f = File
    OBVIOUS
<1>3. /\ worker # Idle /\ worker.todo # <<>> /\ Head(worker.todo) = "recoveries"
      /\ "recoveries" \in StatementsOf(f)
      /\ \A n \in worker.buffer : ~IsKind(f, n, "loan")
    BY <1>1, <1>2, NextStatement DEF InOrder
<1>4. f \in Files
    BY <1>2, <1>3, WorkerJob
<1>5. Source(f) = "vendor"
    BY <1>3, <1>4, SourceOf
<1>6. cdr' \in [LineIds -> Nat]
    BY <1>1 DEF Inv, TypeOK
<1>7. Grows
    BY <1>1, <1>6 DEF Grows, SubscriberKept
<1>8. \A n \in worker.buffer : Stored(f, n)'
    BY <1>1, <1>2, <1>3, <1>5 DEF Stored
<1>9. WorkerSound'
  <2>1. PICK found, R : found = worker.found /\ R = worker.rowBuffer
      OBVIOUS
  <2>2. Working(worker.next, {}, R, found, Tail(worker.todo))
      BY <1>1, <2>1
  <2>3. \A n \in worker.buffer \ {} : Stored(f, n)'
      BY <1>8
  <2> QED
      BY <1>1, <1>2, <1>3, <1>6, <1>7, <2>1, <2>2, <2>3, StatementSound
<1>10. LoansOK'
    BY <1>1 DEF Inv, TypeOK, LoansOK
<1> QED
    BY <1>1, <1>6, <1>7, <1>9, <1>10, TablesKeep

\* Of the lines of a chunk that name one loan the first one is inserted, unless
\* the loan is there: then it stays as it is.
LEMMA InsertLoansKeeps == ASSUME Inv, insertLoans PROVE Inv'
<1>1. PICK f : f = File
    OBVIOUS
<1> DEFINE Id(n) == mapVendorLoan(Lines(f)[n]).id
           lines == {n \in worker.buffer : IsKind(f, n, "loan")}
           fresh == {n \in lines : \A m \in lines : m < n => Id(m) # Id(n)}
           new == {l \in {mapVendorLoan(Lines(f)[n]) : n \in fresh} : \A k \in loans : k.id # l.id}
<1>2. /\ Doing("loans")
      /\ loans' = loans \union new
      /\ Working(worker.next, worker.buffer \ lines, worker.rowBuffer, worker.found, Tail(worker.todo))
      /\ UNCHANGED <<batches, jobs, upload, replaying, marks, rows, cdr, recoveries, subscribers,
                     discrepancies>>
    BY <1>1 DEF insertLoans, Done
<1>3. /\ worker # Idle /\ worker.todo # <<>> /\ Head(worker.todo) = "loans"
      /\ "loans" \in StatementsOf(f)
      /\ worker.buffer \subseteq {n \in DOMAIN Lines(f) : Accepted(f, n)}
    BY <1>1, <1>2, NextStatement
<1>4. f \in Files
    BY <1>1, <1>3, WorkerJob
<1>5. Source(f) = "vendor" /\ LastDetail(f) # "loans"
    BY <1>3, <1>4, SourceOf
<1>6. cdr' \in [LineIds -> Nat]
    BY <1>2 DEF Inv, TypeOK
<1>7. Grows
    BY <1>2, <1>6 DEF Grows, SubscriberKept
<1>8. ASSUME NEW n \in lines PROVE \E k \in loans' : k.id = Id(n)
  <2> DEFINE S == {m \in lines : Id(m) = Id(n)}
  <2>1. S \in SUBSET Nat /\ n \in S
      BY <1>3, <1>4, <1>8, LinesAre
  <2>2. PICK i \in S : \A j \in S : i <= j
      BY <2>1, FirstOf
  <2>3. i \in fresh
    <3>1. ASSUME NEW m \in lines, m < i, Id(m) = Id(i) PROVE FALSE
      <4>1. m \in S /\ m \in Nat /\ i \in Nat
          BY <2>1, <2>2, <3>1
      <4> QED
          BY <4>1, <2>2, <3>1
    <3> QED
        BY <3>1, <2>2
  <2>4. Id(i) = Id(n)
      BY <2>2
  <2>5. CASE \E k \in loans : k.id = Id(i)
      BY <2>4, <2>5, <1>2
  <2>6. CASE \A k \in loans : k.id # Id(i)
    <3>1. mapVendorLoan(Lines(f)[i]) \in new
        BY <2>3, <2>6
    <3> QED
        BY <3>1, <2>4, <1>2
  <2> QED
      BY <2>5, <2>6
<1>9. \A n \in lines : Stored(f, n)'
  <2> SUFFICES ASSUME NEW n \in lines PROVE Stored(f, n)'
      OBVIOUS
  <2>1. ~IsKind(f, n, "recovery")
      BY DEF IsKind
  <2> QED
      BY <2>1, <1>5, <1>8 DEF Stored
<1>10. WorkerSound'
  <2>1. PICK found, R, B : found = worker.found /\ R = worker.rowBuffer /\ B = worker.buffer \ lines
      OBVIOUS
  <2>2. Working(worker.next, B, R, found, Tail(worker.todo))
      BY <1>2, <2>1
  <2>3. B \in SUBSET worker.buffer /\ R \in SUBSET worker.rowBuffer
      BY <2>1
  <2>4. \A n \in worker.buffer \ B : Stored(f, n)'
      BY <1>9, <2>1
  <2>5. \A n \in B : ~IsKind(f, n, "loan")
      BY <2>1
  <2>6. \A n \in worker.rowBuffer \ R : RowKey(f, n) \in rows'
      BY <2>1
  <2> HIDE DEF lines
  <2> QED
      BY <1>1, <1>2, <1>3, <1>5, <1>6, <1>7, <2>2, <2>3, <2>4, <2>5, <2>6, StatementSound
<1>11. LoansOK'
  <2>1. \A k \in new : k = [id |-> k.id, who |-> k.who, ref |-> k.ref,
                            issuedAt |-> k.issuedAt, recovered |-> k.recovered]
      BY DEF mapVendorLoan
  <2> QED
      BY <2>1, <1>2 DEF Inv, TypeOK, LoansOK
<1> QED
    BY <1>2, <1>6, <1>7, <1>10, <1>11, TablesKeep

LEMMA SelectKeeps == ASSUME Inv, selectSubscribers PROVE Inv'
<1>1. /\ Doing("select")
      /\ Working(worker.next, worker.buffer, worker.rowBuffer, subscribers, Tail(worker.todo))
      /\ UNCHANGED <<batches, jobs, upload, replaying, marks, fileVars>>
    BY DEF selectSubscribers
<1>2. PICK f : f = File
    OBVIOUS
<1>3. /\ worker # Idle /\ worker.todo # <<>> /\ Head(worker.todo) = "select"
      /\ "select" \in StatementsOf(f)
    BY <1>1, <1>2, NextStatement
<1>4. f \in Files
    BY <1>2, <1>3, WorkerJob
<1>5. LastDetail(f) # "select"
    BY <1>3, <1>4, SourceOf
<1>6. Grows /\ cdr' \in [LineIds -> Nat] /\ LoansOK' /\ UNCHANGED subscribers
    BY <1>1, SameGrows DEF Inv, TypeOK, LoansOK, fileVars
<1>7. WorkerSound'
  <2>1. PICK found, B, R : found = subscribers /\ B = worker.buffer /\ R = worker.rowBuffer
      OBVIOUS
  <2>2. Working(worker.next, B, R, found, Tail(worker.todo))
      BY <1>1, <2>1
  <2>3. found = subscribers'
      BY <1>6, <2>1
  <2> QED
      BY <1>1, <1>2, <1>3, <1>5, <1>6, <2>1, <2>2, <2>3, StatementSound
<1> QED
    BY <1>1, <1>6, <1>7, TablesKeep

\* The upsert starts from what the worker has found, and that is what there is:
\* what is known is kept, what is not is filled from the one line of the chunk
\* that names the subscriber (flushActivation).
LEMMA UpsertFills ==
    ASSUME Inv, upsertSubscribers, NEW f, f = File, NEW found, found = worker.found
    PROVE  /\ \A s \in Msisdns : SubscriberKept(s)
           /\ \A n \in worker.buffer : Upserted(f, found, n)'
<1>1. f = File /\ found = worker.found
    OBVIOUS
<1>2. /\ Doing("upsert") /\ ~TwiceInStatement
      /\ subscribers' =
           [s \in Msisdns |->
              LET of == {n \in Upserting : Lines(f)[n].who = s}
              IN  IF of = {} THEN subscribers[s]
                  ELSE Filled(found[s], Lines(f)[CHOOSE n \in of : TRUE])]
    BY <1>1 DEF upsertSubscribers
<1>3. /\ worker # Idle
      /\ "upsert" \in StatementsOf(f) /\ found = subscribers
      /\ worker.buffer \subseteq {n \in DOMAIN Lines(f) : Accepted(f, n)}
    BY <1>1, <1>2, NextStatement DEF InOrder
<1>4. f \in Files
    BY <1>1, <1>3, WorkerJob
<1>5. Source(f) = "airtel-activation"
    BY <1>3, <1>4, SourceOf
<1>6. \A n \in Upserting : n \in worker.buffer
    BY DEF Upserting
<1>7. \A m, n \in Upserting : Lines(f)[m].who = Lines(f)[n].who => m = n
    BY <1>1, <1>2 DEF TwiceInStatement
<1>8. \A n \in worker.buffer :
         (subscribers[Lines(f)[n].who].activated = Missing
          \/ subscribers[Lines(f)[n].who].class = Missing) => n \in Upserting
    BY <1>1, <1>3 DEF Upserting
<1>9. ASSUME NEW s \in Msisdns
      PROVE  \/ subscribers'[s] = subscribers[s] /\ \A n \in Upserting : Lines(f)[n].who # s
             \/ \E n \in Upserting : Lines(f)[n].who = s
                                     /\ subscribers'[s] = Filled(subscribers[s], Lines(f)[n])
  <2> DEFINE of == {n \in Upserting : Lines(f)[n].who = s}
  <2>1. subscribers'[s] = IF of = {} THEN subscribers[s]
                          ELSE Filled(found[s], Lines(f)[CHOOSE n \in of : TRUE])
      BY <1>2
  <2>2. CASE of = {}
      BY <2>1, <2>2
  <2>3. CASE of # {}
    <3>1. (CHOOSE n \in of : TRUE) \in of
        BY <2>3
    <3> QED
        BY <2>1, <2>3, <3>1, <1>3
  <2> QED
      BY <2>2, <2>3
<1>10. \A s \in Msisdns : SubscriberKept(s)
  <2> SUFFICES ASSUME NEW s \in Msisdns PROVE SubscriberKept(s)
      OBVIOUS
  <2>1. CASE subscribers'[s] = subscribers[s]
      BY <2>1 DEF SubscriberKept
  <2>2. CASE \E n \in Upserting : subscribers'[s] = Filled(subscribers[s], Lines(f)[n])
      BY <2>2 DEF SubscriberKept, Filled
  <2> QED
      BY <2>1, <2>2, <1>9
<1>11. ASSUME NEW n \in worker.buffer PROVE Upserted(f, found, n)'
  <2>1. n \in DOMAIN Lines(f) /\ Accepted(f, n)
      BY <1>3, <1>11
  <2>2. PICK s \in Msisdns : s = Lines(f)[n].who
      BY <2>1, <1>4, <1>5, ActivationLine
  <2>3. CASE subscribers'[s] = subscribers[s] /\ \A m \in Upserting : Lines(f)[m].who # s
    <3>1. subscribers[s].activated # Missing /\ subscribers[s].class # Missing
        BY <2>2, <2>3, <1>8, <1>11
    <3> QED
        BY <2>2, <2>3, <3>1, <1>3 DEF Upserted
  <2>4. CASE \E m \in Upserting : Lines(f)[m].who = s
                                  /\ subscribers'[s] = Filled(subscribers[s], Lines(f)[m])
    <3>1. PICK m \in Upserting : Lines(f)[m].who = s
                                 /\ subscribers'[s] = Filled(subscribers[s], Lines(f)[m])
        BY <2>4
    <3>2. CASE n \in Upserting
      <4>1. m = n
          BY <3>1, <3>2, <1>7, <2>2
      <4> QED
          BY <3>1, <4>1, <2>2, <1>3 DEF Upserted, Filled
    <3>3. CASE n \notin Upserting
      <4>1. subscribers[s].activated # Missing /\ subscribers[s].class # Missing
          BY <2>2, <3>3, <1>8, <1>11
      <4> QED
          BY <3>1, <4>1, <2>2, <1>3 DEF Upserted, Filled
    <3> QED
        BY <3>2, <3>3
  <2> QED
      BY <2>3, <2>4, <1>9
<1> QED
    BY <1>10, <1>11

LEMMA UpsertKeeps == ASSUME Inv, upsertSubscribers PROVE Inv'
<1>1. /\ Doing("upsert")
      /\ Working(worker.next, worker.buffer, worker.rowBuffer, worker.found, Tail(worker.todo))
      /\ UNCHANGED <<batches, jobs, upload, replaying, marks, rows, cdr, loans, recoveries,
                     discrepancies>>
    BY DEF upsertSubscribers, Done
<1>2. PICK f : f = File
    OBVIOUS
<1>3. PICK found, B, R : found = worker.found /\ B = worker.buffer /\ R = worker.rowBuffer
    OBVIOUS
<1>4. /\ worker # Idle /\ worker.todo # <<>> /\ Head(worker.todo) = "upsert"
      /\ "upsert" \in StatementsOf(f)
    BY <1>1, <1>2, NextStatement
<1>5. f \in Files
    BY <1>2, <1>4, WorkerJob
<1>6. LastDetail(f) # "upsert"
    BY <1>4, <1>5, SourceOf
<1>7. /\ \A s \in Msisdns : SubscriberKept(s)
      /\ \A n \in worker.buffer : Upserted(f, found, n)'
    BY <1>2, <1>3, UpsertFills
<1>8. cdr' \in [LineIds -> Nat] /\ LoansOK'
    BY <1>1 DEF Inv, TypeOK, LoansOK
<1>9. Grows
    BY <1>1, <1>7, <1>8 DEF Grows
<1>10. WorkerSound'
  <2>1. Working(worker.next, B, R, found, Tail(worker.todo))
      BY <1>1, <1>3
  <2>2. \A n \in B : Upserted(f, found, n)'
      BY <1>3, <1>7
  <2> QED
      BY <1>1, <1>2, <1>3, <1>4, <1>6, <1>8, <1>9, <2>1, <2>2, StatementSound
<1>11. subscribers' = [s \in Msisdns |-> [activated |-> subscribers'[s].activated,
                                          class |-> subscribers'[s].class]]
  <2>1. subscribers' = [s \in Msisdns |-> subscribers'[s]]
      BY DEF upsertSubscribers
  <2>2. ASSUME NEW s \in Msisdns
        PROVE  subscribers'[s] = [activated |-> subscribers'[s].activated,
                                  class |-> subscribers'[s].class]
    <3> DEFINE of == {n \in Upserting : Lines(File)[n].who = s}
               l == Lines(File)[CHOOSE n \in of : TRUE]
    <3>1. subscribers'[s] = subscribers[s] \/ subscribers'[s] = Filled(worker.found[s], l)
        BY DEF upsertSubscribers
    <3>2. subscribers[s] = [activated |-> subscribers[s].activated, class |-> subscribers[s].class]
        BY DEF Inv, TypeOK
    <3> HIDE DEF l
    <3> QED
        BY <3>1, <3>2 DEF Filled
  <2> QED
      BY <2>1, <2>2
<1> QED
    BY <1>1, <1>8, <1>9, <1>10, <1>11, TablesKeep

\* What differs from what is kept is told of (flushActivation).
LEMMA DiscrepanciesKeep == ASSUME Inv, logDiscrepancies PROVE Inv'
<1>1. PICK f : f = File
    OBVIOUS
<1>2. PICK found, B, R : found = worker.found /\ B = worker.buffer /\ R = worker.rowBuffer
    OBVIOUS
<1> DEFINE Differs(known, given) == known # Missing /\ given # Missing /\ known # given
           Known1(n) == found[Lines(f)[n].who]
<1>3. /\ Doing("discrepancies")
      /\ discrepancies' = discrepancies
               \union {Conflict(f, n, "activated_at") : n \in
                         {m \in B : Differs(Known1(m).activated, Lines(f)[m].when)}}
               \union {Conflict(f, n, "service_class_id") : n \in
                         {m \in B : Differs(Known1(m).class, Lines(f)[m].class)}}
      /\ Working(worker.next, {}, R, found, Tail(worker.todo))
      /\ UNCHANGED <<batches, jobs, upload, replaying, marks, rows, cdr, loans, recoveries, subscribers>>
    BY <1>1, <1>2 DEF logDiscrepancies, Done
<1>4. /\ worker # Idle /\ worker.todo # <<>> /\ Head(worker.todo) = "discrepancies"
      /\ "discrepancies" \in StatementsOf(f)
      /\ B \subseteq {n \in DOMAIN Lines(f) : Accepted(f, n)}
      /\ \A n \in B : Upserted(f, found, n)
    BY <1>1, <1>2, <1>3, NextStatement DEF InOrder
<1>5. f \in Files
    BY <1>1, <1>4, WorkerJob
<1>6. Source(f) = "airtel-activation"
    BY <1>4, <1>5, SourceOf
<1>7. cdr' \in [LineIds -> Nat] /\ LoansOK' /\ UNCHANGED subscribers
    BY <1>3 DEF Inv, TypeOK, LoansOK
<1>8. Grows
    BY <1>3, <1>7 DEF Grows, SubscriberKept
<1>9. ASSUME NEW n \in B PROVE Stored(f, n)'
  <2>1. Lines(f)[n].when # Missing
      BY <1>4, <1>5, <1>6, <1>9, ActivationLine
  <2>2. Differs(Known1(n).activated, Lines(f)[n].when) => Conflict(f, n, "activated_at") \in discrepancies'
      BY <1>3, <1>9
  <2>3. Differs(Known1(n).class, Lines(f)[n].class) => Conflict(f, n, "service_class_id") \in discrepancies'
      BY <1>3, <1>9
  <2>4. Upserted(f, found, n)
      BY <1>4, <1>9
  <2>5. Dated(f, n)'
      BY <2>1, <2>2, <2>4, <1>7 DEF Upserted, Dated
  <2>6. Classed(f, n)'
      BY <2>3, <2>4, <1>7 DEF Upserted, Classed
  <2> QED
      BY <2>5, <2>6, <1>6 DEF Stored
<1>10. WorkerSound'
  <2>1. \A n \in worker.buffer \ {} : Stored(f, n)'
      BY <1>2, <1>9
  <2> QED
      BY <1>1, <1>2, <1>3, <1>4, <1>7, <1>8, <2>1, StatementSound
<1> QED
    BY <1>3, <1>7, <1>8, <1>10, TablesKeep

\* The batch is marked when all its lines are read and stored.
LEMMA ParsedKeeps == ASSUME Inv, parsed PROVE Inv'
<1>1. PICK f : f = File
    OBVIOUS
<1>2. PICK found, B, R : found = worker.found /\ B = worker.buffer /\ R = worker.rowBuffer
    OBVIOUS
<1> DEFINE row == Batch("PARSED", Len(Lines(f)), Cardinality({n \in DOMAIN Lines(f) : Accepted(f, n)}))
<1>3. /\ Doing("parsed")
      /\ batches' = [batches EXCEPT ![f] = row]
      /\ Working(worker.next, B, R, found, Tail(worker.todo))
      /\ UNCHANGED <<jobs, upload, replaying, marks, fileVars>>
    BY <1>1, <1>2 DEF parsed, Done
<1>4. /\ worker # Idle /\ worker.todo # <<>> /\ Head(worker.todo) = "parsed"
      /\ worker.todo[1] = "parsed" /\ InOrder(f, worker, 1)
      /\ "parsed" \in StatementsOf(f)
    BY <1>1, <1>3, NextStatement
<1>5. f \in Files /\ WorkerOK(f, worker) /\ Known(f)
    BY <1>1, <1>4, WorkerJob
<1>6. LastDetail(f) # "parsed"
    BY <1>4, <1>5, SourceOf
<1>7. worker.next > Len(Lines(f)) /\ worker.buffer = {} /\ worker.rowBuffer = {}
  <2>1. \A x : ~Before(worker.todo, 1, x)
      BY DEF Before
  <2> QED
      BY <2>1, <1>4 DEF InOrder
<1>8. \A n \in DOMAIN Lines(f) : RowKey(f, n) \in rows /\ (Accepted(f, n) => Stored(f, n))
  <2> SUFFICES ASSUME NEW n \in DOMAIN Lines(f)
               PROVE  RowKey(f, n) \in rows /\ (Accepted(f, n) => Stored(f, n))
      OBVIOUS
  <2>1. n < worker.next
      BY <1>5, <1>7, LinesAre DEF WorkerOK
  <2>2. Covered(f, worker, n)
      BY <2>1, <1>5 DEF WorkerOK
  <2> QED
      BY <2>2, <1>7 DEF Covered
<1>9. row \in BatchRows /\ row = [status |-> "PARSED", total |-> Len(Lines(f)),
                                  ok |-> Cardinality({n \in DOMAIN Lines(f) : Accepted(f, n)})]
  <2>1. {n \in DOMAIN Lines(f) : Accepted(f, n)} \in SUBSET DOMAIN Lines(f)
      OBVIOUS
  <2>2. Cardinality({n \in DOMAIN Lines(f) : Accepted(f, n)}) \in Nat /\ Len(Lines(f)) \in Nat
      BY <2>1, <1>5, Counted, LinesAre
  <2> QED
      BY <2>2 DEF Batch, BatchRows, Statuses
<1> HIDE DEF row
<1>10. /\ batches' \in [Files -> BatchRows \union {Missing}]
       /\ \A g \in Files : Known(g) => batches'[g] # Missing
       /\ \A g \in Files : g # f => batches'[g] = batches[g]
       /\ batches'[f] = row
    BY <1>3, <1>5, <1>9, RowSet DEF Inv
<1>11. Grows /\ cdr' \in [LineIds -> Nat]
    BY <1>3, SameGrows DEF Inv, TypeOK, fileVars
<1>12. TypeOK'
    BY <1>3, <1>10 DEF Inv, TypeOK, LoansOK, fileVars
<1>13. SavedFirst'
    BY <1>3, <1>5, <1>10, SavedFirstStays
<1>14. ParsedComplete'
  <2> SUFFICES ASSUME NEW g \in Files, batches'[g] # Missing, batches'[g].status = "PARSED"
               PROVE  Complete(g)'
      BY DEF ParsedComplete, Known
  <2>1. ASSUME NEW n \in DOMAIN Lines(g), Accepted(g, n), Stored(g, n) PROVE Stored(g, n)'
      BY <2>1, <1>11, StoredStays DEF Inv
  <2>2. CASE g = f
    <3>1. batches'[f].total = Len(Lines(f))
          /\ batches'[f].ok = Cardinality({n \in DOMAIN Lines(f) : Accepted(f, n)})
        BY <1>9, <1>10
    <3>2. \A n \in DOMAIN Lines(f) : RowKey(f, n) \in rows' /\ (Accepted(f, n) => Stored(f, n)')
        BY <1>8, <1>3, <2>1, <2>2 DEF fileVars
    <3> QED
        BY <3>1, <3>2, <2>2 DEF Complete
  <2>3. CASE g # f
    <3>1. batches'[g] = batches[g] /\ Complete(g)
        BY <2>3, <1>10 DEF Inv, ParsedComplete, Known
    <3>2. \A n \in DOMAIN Lines(g) : RowKey(g, n) \in rows' /\ (Accepted(g, n) => Stored(g, n)')
        BY <3>1, <1>3, <2>1 DEF Complete, fileVars
    <3> QED
        BY <3>1, <3>2 DEF Complete
  <2> QED
      BY <2>2, <2>3
<1>15. WorkerSound'
    BY <1>1, <1>2, <1>3, <1>4, <1>6, <1>11, StatementSound
<1> QED
    BY <1>12, <1>13, <1>14, <1>15 DEF Inv

-----------------------------------------------------------------------------
(* Reading lines.                                                          *)
LEMMA ReadKeeps ==
    ASSUME Inv, worker # Idle,
           UNCHANGED <<batches, jobs, upload, replaying, marks, fileVars>>,
           NEW f, f = File, NEW next \in Nat, next >= worker.next,
           NEW B \in SUBSET {n \in DOMAIN Lines(f) : Accepted(f, n)}, worker.buffer \subseteq B,
           NEW R \in SUBSET DOMAIN Lines(f), worker.rowBuffer \subseteq R,
           \A n \in DOMAIN Lines(f) : n < next =>
              n < worker.next \/ (n \in R /\ (Accepted(f, n) => n \in B)),
           NEW todo, Unsent(f, todo),
           \A i \in DOMAIN todo : todo[i] = "parsed" =>
              /\ next > Len(Lines(f))
              /\ B = {} \/ Before(todo, i, LastDetail(f))
              /\ R = {} \/ Before(todo, i, "rows"),
           Working(next, B, R, Missing, todo)
    PROVE  Inv'
<1>1. PICK w : w = worker
    OBVIOUS
<1>2. w.job \in DOMAIN jobs /\ f \in Files /\ WorkerOK(f, w) /\ f = jobs[w.job].file
    BY <1>1, WorkerJob DEF File
<1> DEFINE v == [job |-> w.job, next |-> next, buffer |-> B, rowBuffer |-> R, found |-> Missing,
                 todo |-> todo]
<1>3. worker' = v
    BY <1>1 DEF Working
<1>4. v.job = w.job /\ v.next = next /\ v.buffer = B /\ v.rowBuffer = R /\ v.todo = todo
    OBVIOUS
<1> HIDE DEF v
<1>5. Grows /\ cdr' \in [LineIds -> Nat]
    BY SameGrows DEF Inv, TypeOK, fileVars
<1>6. ASSUME NEW i \in DOMAIN todo PROVE InOrder(f, v, i)'
  <2>1. Unsent(f, v.todo) /\ i \in DOMAIN v.todo
      BY <1>4, <1>6
  <2>2. v.todo[i] = "parsed" =>
              /\ v.next > Len(Lines(f))
              /\ v.buffer = {} \/ Before(v.todo, i, LastDetail(f))
              /\ v.rowBuffer = {} \/ Before(v.todo, i, "rows")
      BY <1>4, <1>6
  <2> QED
      BY <1>2, <2>1, <2>2, UnsentInOrder
<1>7. ASSUME NEW n \in DOMAIN Lines(f), n < next PROVE Covered(f, v, n)'
  <2>1. CASE n < w.next
    <3>1. Covered(f, w, n)
        BY <2>1, <1>2 DEF WorkerOK
    <3>2. Covered(f, w, n)'
        BY <3>1, <1>2, <1>5, CoveredStays DEF Inv
    <3> QED
        BY <3>2, <1>1, <1>4 DEF Covered
  <2>2. CASE ~(n < w.next)
      BY <2>2, <1>1, <1>4, <1>7 DEF Covered
  <2> QED
      BY <2>1, <2>2
<1>8. todo \in Seq(StatementsOf(f))
    BY DEF Unsent
<1>9. WorkerOK(f, v)'
    BY <1>4, <1>6, <1>7, <1>8 DEF WorkerOK
<1>10. WorkerSound'
  <2>1. v.job \in DOMAIN jobs' /\ jobs'[v.job].file = f
      BY <1>2, <1>4
  <2> QED
      BY <2>1, <1>3, <1>9 DEF WorkerSound
<1>11. LoansOK' /\ UNCHANGED subscribers
    BY DEF Inv, TypeOK, LoansOK, fileVars
<1> QED
    BY <1>5, <1>10, <1>11, TablesKeep

LEMMA NextLineKeeps == ASSUME Inv, nextLine PROVE Inv'
<1>1. PICK f, n : f = File /\ n = worker.next
    OBVIOUS
<1>2. PICK B, R : B = worker.buffer \union {m \in {n} : Accepted(f, m)} /\ R = worker.rowBuffer \union {n}
    OBVIOUS
<1>3. /\ worker # Idle /\ n \in DOMAIN Lines(f)
      /\ Working(n + 1, B, R, Missing, FlushAt(f, B, R))
      /\ UNCHANGED <<batches, jobs, upload, replaying, marks, fileVars>>
    BY <1>1, <1>2 DEF nextLine
<1>4. f \in Files /\ WorkerOK(f, worker)
    BY <1>1, <1>3, WorkerJob
<1>5. /\ n \in Nat /\ n + 1 \in Nat /\ n + 1 >= worker.next
      /\ worker.buffer \in SUBSET {m \in DOMAIN Lines(f) : Accepted(f, m)}
      /\ worker.rowBuffer \in SUBSET DOMAIN Lines(f)
    BY <1>1, <1>4 DEF WorkerOK
<1>6. /\ B \in SUBSET {m \in DOMAIN Lines(f) : Accepted(f, m)} /\ worker.buffer \subseteq B
      /\ R \in SUBSET DOMAIN Lines(f) /\ worker.rowBuffer \subseteq R
    BY <1>2, <1>3, <1>5
<1>7. \A m \in DOMAIN Lines(f) : m < n + 1 =>
          m < worker.next \/ (m \in R /\ (Accepted(f, m) => m \in B))
    BY <1>1, <1>2, <1>4, <1>5, LinesAre
<1>8. PICK todo : todo = FlushAt(f, B, R)
    OBVIOUS
<1>9. Unsent(f, todo) /\ \A i \in DOMAIN todo : todo[i] # "parsed"
    BY <1>4, <1>8, FlushAtUnsent
<1>10. Working(n + 1, B, R, Missing, todo)
    BY <1>3, <1>8
<1> QED
    BY <1>1, <1>3, <1>5, <1>6, <1>7, <1>9, <1>10, ReadKeeps

LEMMA LastFlushKeeps == ASSUME Inv, lastFlush PROVE Inv'
<1>1. PICK f, n : f = File /\ n = worker.next
    OBVIOUS
<1>2. PICK B, R : B = worker.buffer /\ R = worker.rowBuffer
    OBVIOUS
<1>3. PICK todo : todo = Flush(f, B, R) \o <<"parsed", "link">>
    OBVIOUS
<1>4. /\ worker # Idle /\ n = Len(Lines(f)) + 1
      /\ Working(n + 1, B, R, Missing, todo)
      /\ UNCHANGED <<batches, jobs, upload, replaying, marks, fileVars>>
    BY <1>1, <1>2, <1>3 DEF lastFlush
<1>5. f \in Files /\ WorkerOK(f, worker)
    BY <1>1, <1>4, WorkerJob
<1>6. /\ n \in Nat /\ n + 1 \in Nat /\ n + 1 >= worker.next /\ n + 1 > Len(Lines(f))
      /\ B \in SUBSET {m \in DOMAIN Lines(f) : Accepted(f, m)} /\ worker.buffer \subseteq B
      /\ R \in SUBSET DOMAIN Lines(f) /\ worker.rowBuffer \subseteq R
    BY <1>1, <1>2, <1>4, <1>5, LinesAre DEF WorkerOK
<1>7. \A m \in DOMAIN Lines(f) : m < n + 1 => m < worker.next
    BY <1>1, <1>4, <1>5, LinesAre
<1>8. /\ Unsent(f, todo)
      /\ \A i \in DOMAIN todo : todo[i] = "parsed" =>
              /\ B = {} \/ Before(todo, i, LastDetail(f))
              /\ R = {} \/ Before(todo, i, "rows")
    BY <1>3, <1>5, LastFlushUnsent
<1>9. \A m \in DOMAIN Lines(f) : m < n + 1 =>
          m < worker.next \/ (m \in R /\ (Accepted(f, m) => m \in B))
    BY <1>7
<1>10. \A i \in DOMAIN todo : todo[i] = "parsed" =>
              /\ n + 1 > Len(Lines(f))
              /\ B = {} \/ Before(todo, i, LastDetail(f))
              /\ R = {} \/ Before(todo, i, "rows")
    BY <1>6, <1>8
<1> QED
    BY <1>1, <1>4, <1>6, <1>8, <1>9, <1>10, ReadKeeps

-----------------------------------------------------------------------------
(* The end of an attempt, and the rest.                                    *)
LEMMA IdleSound == ASSUME worker' = Idle PROVE WorkerSound'
BY DEF WorkerSound, Idle

\* The worker's attempt is over: its job has a new state, its batch may have a
\* new status.
LEMMA AttemptOver ==
    ASSUME Inv, worker # Idle, worker' = Idle, UNCHANGED <<upload, replaying, fileVars>>,
           UNCHANGED batches \/ SetStatus(File, "FAILED"),
           NEW j \in JobRows, j.file = jobs[worker.job].file, jobs' = [jobs EXCEPT ![worker.job] = j],
           marks' \subseteq marks \union {File}
    PROVE  Inv'
<1>1. PICK f, i : f = File /\ i = worker.job
    OBVIOUS
<1>2. i \in DOMAIN jobs /\ f \in Files /\ Known(f) /\ TypeOK
    BY <1>1, WorkerJob DEF Inv
<1>3. /\ jobs' \in Seq(JobRows) /\ DOMAIN jobs' = DOMAIN jobs
      /\ \A k \in DOMAIN jobs : jobs'[k].file = jobs[k].file
    BY <1>1, <1>2, JobSet
<1>4. /\ batches' \in [Files -> BatchRows \union {Missing}]
      /\ \A g \in Files : Known(g) => batches'[g] # Missing
      /\ \A g \in Files : batches'[g] = batches[g] \/ batches'[g].status # "PARSED"
  <2>1. CASE UNCHANGED batches
      BY <2>1 DEF Inv, TypeOK, Known
  <2>2. CASE SetStatus(f, "FAILED")
    <3>1. "FAILED" \in Statuses
        BY DEF Statuses
    <3>2. /\ batches' \in [Files -> BatchRows \union {Missing}]
          /\ \A g \in Files : Known(g) => batches'[g] # Missing
          /\ \A g \in Files : g # f => batches'[g] = batches[g]
          /\ batches'[f].status = "FAILED"
        BY <2>2, <3>1, <1>2, StatusSet
    <3> QED
        BY <3>2
  <2> QED
      BY <2>1, <2>2, <1>1
<1>5. Grows /\ cdr' \in [LineIds -> Nat]
    BY SameGrows DEF Inv, TypeOK, fileVars
<1>6. marks' \in SUBSET Files
    BY <1>1, <1>2 DEF TypeOK
<1>7. TypeOK'
    BY <1>3, <1>4, <1>6 DEF Inv, TypeOK, LoansOK, fileVars
<1>8. SavedFirst'
    BY <1>1, <1>2, <1>3, <1>4, SavedFirstStays
<1>9. ParsedComplete'
    BY <1>4, <1>5, ParsedStays
<1> QED
    BY <1>7, <1>8, <1>9, IdleSound DEF Inv

LEMMA LinkKeeps == ASSUME Inv, link PROVE Inv'
<1>1. /\ worker # Idle /\ worker' = Idle
      /\ jobs' = [jobs EXCEPT ![worker.job].state = "completed"]
      /\ UNCHANGED <<batches, upload, replaying, marks, fileVars>>
    BY DEF link, Doing
<1>2. jobs[worker.job] \in JobRows
    BY <1>1, WorkerJob
<1>3. PICK j : j = [jobs[worker.job] EXCEPT !.state = "completed"]
    OBVIOUS
<1>4. j \in JobRows /\ j.file = jobs[worker.job].file
    BY <1>2, <1>3 DEF JobRows
<1>5. jobs' = [jobs EXCEPT ![worker.job] = j]
    BY <1>1, <1>3
<1> QED
    BY <1>1, <1>4, <1>5, AttemptOver

LEMMA FailsKeeps == ASSUME Inv, attemptFails PROVE Inv'
<1>1. PICK j : j = [file |-> jobs[worker.job].file, attempts |-> jobs[worker.job].attempts + 1,
                    stalls |-> jobs[worker.job].stalls,
                    state |-> IF jobs[worker.job].attempts + 1 < Attempts THEN "waiting" ELSE "failed"]
    OBVIOUS
<1>2. /\ worker # Idle /\ worker' = Idle /\ SetStatus(File, "FAILED")
      /\ jobs' = [jobs EXCEPT ![worker.job] = j]
      /\ marks' = marks \union {File}
      /\ UNCHANGED <<upload, replaying, fileVars>>
    BY <1>1 DEF attemptFails
<1>3. jobs[worker.job] \in JobRows
    BY <1>2, WorkerJob
<1>4. j \in JobRows /\ j.file = jobs[worker.job].file
    BY <1>1, <1>3 DEF JobRows
<1> QED
    BY <1>2, <1>4, AttemptOver

LEMMA DiesKeeps == ASSUME Inv, workerDies PROVE Inv'
<1>1. PICK j : j = [file |-> jobs[worker.job].file, attempts |-> jobs[worker.job].attempts,
                    stalls |-> jobs[worker.job].stalls + 1,
                    state |-> IF jobs[worker.job].stalls = 0 THEN "waiting" ELSE "failed"]
    OBVIOUS
<1>2. /\ worker # Idle /\ worker' = Idle
      /\ jobs' = [jobs EXCEPT ![worker.job] = j]
      /\ marks' \subseteq {File}
      /\ UNCHANGED <<batches, upload, replaying, fileVars>>
    BY <1>1 DEF workerDies, File
<1>3. jobs[worker.job] \in JobRows
    BY <1>2, WorkerJob
<1>4. j \in JobRows /\ j.file = jobs[worker.job].file
    BY <1>1, <1>3 DEF JobRows
<1> QED
    BY <1>2, <1>4, AttemptOver

LEMMA ProcessKeeps == ASSUME Inv, NEW i \in DOMAIN jobs, process(i) PROVE Inv'
<1>1. PICK f : f = jobs[i].file
    OBVIOUS
<1>2. PICK j : j = [jobs[i] EXCEPT !.state = "active"]
    OBVIOUS
<1> DEFINE v == [job |-> i, next |-> 1, buffer |-> {}, rowBuffer |-> {}, found |-> Missing, todo |-> <<>>]
<1>3. /\ worker' = v /\ SetStatus(f, "PARSING")
      /\ jobs' = [jobs EXCEPT ![i] = j]
      /\ UNCHANGED <<upload, replaying, marks, fileVars>>
    BY <1>1, <1>2 DEF process
<1>4. jobs[i] \in JobRows /\ f \in Files /\ Known(f) /\ TypeOK
    BY <1>1, JobFiles DEF Inv
<1>5. j \in JobRows /\ j.file = jobs[i].file
    BY <1>2, <1>4 DEF JobRows
<1>6. /\ jobs' \in Seq(JobRows) /\ DOMAIN jobs' = DOMAIN jobs
      /\ \A k \in DOMAIN jobs : jobs'[k].file = jobs[k].file
    BY <1>3, <1>4, <1>5, JobSet
<1>7. "PARSING" \in Statuses
    BY DEF Statuses
<1>8. /\ batches' \in [Files -> BatchRows \union {Missing}]
      /\ \A g \in Files : Known(g) => batches'[g] # Missing
      /\ \A g \in Files : g # f => batches'[g] = batches[g]
      /\ batches'[f].status = "PARSING"
    BY <1>3, <1>4, <1>7, StatusSet
<1>9. Grows /\ cdr' \in [LineIds -> Nat]
    BY <1>3, <1>4, SameGrows DEF TypeOK, fileVars
<1>10. TypeOK'
    BY <1>3, <1>6, <1>8 DEF Inv, TypeOK, LoansOK, fileVars
<1>11. SavedFirst'
    BY <1>3, <1>4, <1>6, <1>8, SavedFirstStays
<1>12. ParsedComplete'
    BY <1>8, <1>9, ParsedStays
<1>13. WorkerOK(f, v)'
  <2>1. v.next = 1 /\ v.buffer = {} /\ v.rowBuffer = {} /\ v.todo = <<>>
      OBVIOUS
  <2>2. \A n \in DOMAIN Lines(f) : ~(n < 1)
      BY <1>4, LinesAre
  <2> HIDE DEF v
  <2> QED
      BY <2>1, <2>2 DEF WorkerOK
<1>14. WorkerSound'
  <2>1. v.job = i
      OBVIOUS
  <2> HIDE DEF v
  <2>2. v.job \in DOMAIN jobs' /\ jobs'[v.job].file = f
      BY <2>1, <1>1, <1>6
  <2> QED
      BY <2>2, <1>3, <1>13 DEF WorkerSound
<1> QED
    BY <1>10, <1>11, <1>12, <1>14 DEF Inv

LEMMA RecoveredKeeps == ASSUME Inv, NEW l \in loans, loanRecovered(l) PROVE Inv'
<1>1. PICK m : m = [l EXCEPT !.recovered = TRUE]
    OBVIOUS
<1>2. /\ loans' = (loans \ {l}) \union {m}
      /\ UNCHANGED <<batches, jobs, worker, upload, replaying, marks, rows, cdr, recoveries,
                     subscribers, discrepancies>>
    BY <1>1 DEF loanRecovered
<1>3. l = [id |-> l.id, who |-> l.who, ref |-> l.ref, issuedAt |-> l.issuedAt, recovered |-> l.recovered]
    BY DEF Inv, TypeOK, LoansOK
<1>4. m = [id |-> l.id, who |-> l.who, ref |-> l.ref, issuedAt |-> l.issuedAt, recovered |-> TRUE]
    BY <1>1, <1>3
<1>5. m.id = l.id /\ m = [id |-> m.id, who |-> m.who, ref |-> m.ref,
                          issuedAt |-> m.issuedAt, recovered |-> m.recovered]
    BY <1>4
<1>6. cdr' \in [LineIds -> Nat] /\ \A i \in LineIds : cdr'[i] >= cdr[i]
    BY <1>2 DEF Inv, TypeOK
<1>7. \A k \in loans : \E n \in loans' : n.id = k.id
    BY <1>2, <1>5
<1>8. Grows
    BY <1>2, <1>6, <1>7 DEF Grows, SubscriberKept
<1>9. LoansOK'
    BY <1>2, <1>5 DEF Inv, TypeOK, LoansOK
<1>10. WorkerSound'
    BY <1>2, <1>6, <1>8, WorkerStays
<1> QED
    BY <1>2, <1>6, <1>8, <1>9, <1>10, TablesKeep

-----------------------------------------------------------------------------
LEMMA InitInv == Init => Inv
<1> SUFFICES ASSUME Init PROVE Inv
    OBVIOUS
<1>1. Idle \notin {"found", "saved"}
    BY NoNullStep
<1>2. TypeOK
    BY DEF Init, TypeOK, LoansOK, NoSubscriber
<1>3. SavedFirst /\ ParsedComplete /\ WorkerSound
    BY <1>1 DEF Init, SavedFirst, ParsedComplete, WorkerSound, Known
<1> QED
    BY <1>2, <1>3 DEF Inv

LEMMA StepInv == ASSUME Inv, [Next]_vars PROVE Inv'
<1>1. ASSUME NEW f \in Files, receive(f) PROVE Inv'
    BY <1>1, ReceiveKeeps
<1>2. ASSUME NEW f \in Files, enqueueParse(f) \/ apiDies(f) \/ replay(f) \/ replayEnqueue(f) PROVE Inv'
    BY <1>2, EnqueueKeeps
<1>3. ASSUME NEW f \in Files, replaySave(f) PROVE Inv'
    BY <1>3, ReplaySaveKeeps
<1>4. ASSUME NEW f \in Files, onFailed(f) PROVE Inv'
    BY <1>4, OnFailedKeeps
<1>5. ASSUME NEW i \in DOMAIN jobs, process(i) PROVE Inv'
    BY <1>5, ProcessKeeps
<1>6. CASE nextLine \/ lastFlush
    BY <1>6, NextLineKeeps, LastFlushKeeps
<1>7. CASE Statement
    BY <1>7, InsertCdrKeeps, InsertLoansKeeps, InsertRecoveriesKeeps, InsertRowsKeeps, SelectKeeps,
       UpsertKeeps, DiscrepanciesKeep, ParsedKeeps, LinkKeeps DEF Statement
<1>8. CASE attemptFails \/ workerDies
    BY <1>8, FailsKeeps, DiesKeeps
<1>9. ASSUME NEW f \in Files, sweepJob(f) PROVE Inv'
    BY <1>9, QuietKeeps DEF sweepJob
<1>10. CASE daily
    BY <1>10, QuietKeeps DEF daily
<1>11. ASSUME NEW l \in loans, loanRecovered(l) PROVE Inv'
    BY <1>11, RecoveredKeeps
<1>12. CASE UNCHANGED vars
    BY <1>12, QuietKeeps DEF vars
<1> QED
    BY <1>1, <1>2, <1>3, <1>4, <1>5, <1>6, <1>7, <1>8, <1>9, <1>10, <1>11, <1>12 DEF Next

LEMMA InvAccounted == Inv => Accounted
<1> SUFFICES ASSUME Inv, NEW f \in Files, batches[f] # Missing, batches[f].status = "PARSED"
             PROVE  LET accepted == {n \in DOMAIN Lines(f) : Accepted(f, n)}
                    IN  /\ batches[f].total = Len(Lines(f)) /\ batches[f].ok = Cardinality(accepted)
                        /\ \A n \in DOMAIN Lines(f) : RowKey(f, n) \in rows
                        /\ \A n \in accepted :
                             LET l == Lines(f)[n]
                             IN  CASE Source(f) \in {"refill", "sdp"} -> cdr[<<f, n>>] >= 1
                                   [] Source(f) = "vendor" ->
                                        IF l.kind = "loan" THEN \E k \in loans : k.id = mapVendorLoan(l).id
                                        ELSE vendorRecoveryId(l) \in recoveries
                                   [] OTHER ->
                                        /\ \/ subscribers[l.who].activated = l.when
                                           \/ Conflict(f, n, "activated_at") \in discrepancies
                                        /\ \/ l.class \in {Missing, subscribers[l.who].class}
                                           \/ Conflict(f, n, "service_class_id") \in discrepancies
    BY DEF Accounted
<1>1. Complete(f)
    BY DEF Inv, ParsedComplete, Known
<1>2. ASSUME NEW n \in DOMAIN Lines(f), Accepted(f, n)
      PROVE  LET l == Lines(f)[n]
             IN  CASE Source(f) \in {"refill", "sdp"} -> cdr[<<f, n>>] >= 1
                   [] Source(f) = "vendor" ->
                        IF l.kind = "loan" THEN \E k \in loans : k.id = mapVendorLoan(l).id
                        ELSE vendorRecoveryId(l) \in recoveries
                   [] OTHER ->
                        /\ \/ subscribers[l.who].activated = l.when
                           \/ Conflict(f, n, "activated_at") \in discrepancies
                        /\ \/ l.class \in {Missing, subscribers[l.who].class}
                           \/ Conflict(f, n, "service_class_id") \in discrepancies
  <2>1. Stored(f, n)
      BY <1>1, <1>2 DEF Complete
  <2>2. CASE Source(f) \in {"refill", "sdp"}
      BY <2>1, <2>2 DEF Stored
  <2>3. CASE Source(f) = "vendor"
    <3>1. Lines(f)[n].kind \in {"loan", "recovery"}
        BY <1>2, <2>3 DEF Accepted, parseVendor
    <3> QED
        BY <2>1, <2>3, <3>1 DEF Stored, IsKind
  <2>4. CASE Source(f) = "airtel-activation"
      BY <2>1, <2>4 DEF Stored, Dated, Classed
  <2> QED
      BY <2>2, <2>3, <2>4, LinesAre
<1> QED
    BY <1>1, <1>2 DEF Complete

\* The invariant of the ingest (IngestService, IngestProcessor): each line the
\* worker has read is in a buffer or stored, and the statements still to send
\* are in their order.
THEOREM IngestInvariant == Spec => []Inv
<1>1. Inv /\ [Next]_vars => Inv'
    BY StepInv
<1> QED
    BY InitInv, <1>1, PTL DEF Spec

\* A batch shown as PARSED is complete, for any files, chunk size, failures,
\* retries and replays (processRefill, processSdp, processVendor,
\* processActivation).
THEOREM ParsedIsComplete == Spec => []Accounted
BY IngestInvariant, InvAccounted, PTL

-----------------------------------------------------------------------------
(* Trusted data.                                                           *)
LEMMA StepKeepsTrusted ==
    ASSUME Inv, [Next]_vars
    PROVE  \A s \in Msisdns : SubscriberKept(s)
<1>1. CASE upsertSubscribers
  <2>1. PICK f, found : f = File /\ found = worker.found
      OBVIOUS
  <2> QED
      BY <1>1, <2>1, UpsertFills
<1>2. CASE UNCHANGED subscribers
    BY <1>2 DEF SubscriberKept
<1>3. upsertSubscribers \/ UNCHANGED subscribers
    BY DEF Next, Statement, vars, fileVars, receive, enqueueParse, apiDies, replay, replaySave,
       replayEnqueue, onFailed, process, nextLine, lastFlush, insertCdr, insertLoans,
       insertRecoveries, insertRows, selectSubscribers, logDiscrepancies, parsed, link,
       attemptFails, workerDies, sweepJob, daily, loanRecovered
<1> QED
    BY <1>1, <1>2, <1>3

\* A known activation date or service class is never overwritten, in whatever
\* order lines, files, retries and replays come (flushActivation).
THEOREM TrustedIsKept == Spec => TrustedKept
<1>1. Inv /\ [Next]_vars =>
        [\A s \in Msisdns :
           /\ subscribers[s].activated # Missing => subscribers'[s].activated = subscribers[s].activated
           /\ subscribers[s].class # Missing => subscribers'[s].class = subscribers[s].class]_vars
    BY StepKeepsTrusted DEF SubscriberKept
<1> QED
    BY <1>1, IngestInvariant, PTL DEF Spec, TrustedKept
=============================================================================
