--------------------------- MODULE ProfileContract ---------------------------
(***************************************************************************)
(* What GET /profile promises its caller, whatever decides and however the *)
(* audit log is written: a trans_ref whose decision has been recorded is   *)
(* answered with that decision while the idempotency window lasts, the     *)
(* recorded decision is one that was really served for that trans_ref, and *)
(* it never changes.  Before the decision is recorded, a repeated request  *)
(* may be decided anew.                                                    *)
(***************************************************************************)
CONSTANTS
    Calls,      \* requests
    Refs,       \* trans_ref values
    RefOf,      \* the trans_ref of a request
    Limits,     \* naira limits an answer can carry; 0 denies
    Unknown     \* no answer yet, or nothing recorded

VARIABLES
    asking,     \* requests that are being decided
    answer,     \* what a request was answered
    recorded,   \* the decision on file for a trans_ref
    fresh       \* trans_refs whose decision is still inside the window

contractVars == <<asking, answer, recorded, fresh>>

Init ==
    /\ asking = {}
    /\ answer = [c \in Calls |-> Unknown]
    /\ recorded = [t \in Refs |-> Unknown]
    /\ fresh = Refs

\* A replay is answered at once with what is on file ...
Replay(c) ==
    /\ c \notin asking /\ answer[c] = Unknown
    /\ RefOf[c] \in fresh /\ recorded[RefOf[c]] # Unknown
    /\ answer' = [answer EXCEPT ![c] = recorded[RefOf[c]]]
    /\ UNCHANGED <<asking, recorded, fresh>>

\* ... and only a request that finds nothing there is decided.
Ask(c) ==
    /\ c \notin asking /\ answer[c] = Unknown
    /\ RefOf[c] \in fresh => recorded[RefOf[c]] = Unknown
    /\ asking' = asking \union {c}
    /\ UNCHANGED <<answer, recorded, fresh>>

Decide(c) ==
    /\ c \in asking
    /\ asking' = asking \ {c}
    /\ \E v \in Limits : answer' = [answer EXCEPT ![c] = v]
    /\ UNCHANGED <<recorded, fresh>>

Served(t) == {answer[c] : c \in {d \in Calls : RefOf[d] = t}} \ {Unknown}

\* Some of the decisions served and not on file are put on file.
Record ==
    /\ recorded' \in [Refs -> Limits \union {Unknown}]
    /\ \A t \in Refs : recorded'[t] # recorded[t] =>
          recorded[t] = Unknown /\ recorded'[t] \in Served(t)
    /\ UNCHANGED <<asking, answer, fresh>>

Expire(t) ==
    /\ recorded[t] # Unknown
    /\ fresh' = fresh \ {t}
    /\ UNCHANGED <<asking, answer, recorded>>

Next ==
    \/ \E c \in Calls : Replay(c) \/ Ask(c) \/ Decide(c)
    \/ Record
    \/ \E t \in Refs : Expire(t)

Spec == Init /\ [][Next]_contractVars
=============================================================================
