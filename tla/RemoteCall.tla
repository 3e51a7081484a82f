---------------------------- MODULE RemoteCall -----------------------------
(***************************************************************************)
(* What a forward pass promises its callers, with no workers, no network   *)
(* and no routes: a call makes at most MaxTries attempts, one at a time;   *)
(* it returns an answer to its own payload or an empty one; and it returns *)
(* an error only when every attempt has failed, or before the first when   *)
(* no request can be built from its payload.                               *)
(***************************************************************************)
EXTENDS Naturals

CONSTANTS Callers, MaxTries

VARIABLES
    tries,     \* per caller: attempts made so far
    busy,      \* per caller: an attempt is under way
    outcome    \* per caller

vars == <<tries, busy, outcome>>

Outcomes == {"none", "answer", "empty", "error"}

Init ==
    /\ tries = [c \in Callers |-> 0]
    /\ busy = [c \in Callers |-> FALSE]
    /\ outcome = [c \in Callers |-> "none"]

Attempt(c) ==
    /\ outcome[c] = "none" /\ ~busy[c] /\ tries[c] < MaxTries
    /\ tries' = [tries EXCEPT ![c] = @ + 1]
    /\ busy' = [busy EXCEPT ![c] = TRUE]
    /\ UNCHANGED outcome

Return(c) ==
    /\ outcome[c] = "none" /\ busy[c]
    /\ outcome' \in {[outcome EXCEPT ![c] = o] : o \in {"answer", "empty"}}
    /\ UNCHANGED <<tries, busy>>

AttemptFails(c) ==
    /\ outcome[c] = "none" /\ busy[c] /\ tries[c] < MaxTries
    /\ busy' = [busy EXCEPT ![c] = FALSE]
    /\ UNCHANGED <<tries, outcome>>

GiveUp(c) ==
    /\ outcome[c] = "none" /\ busy[c] /\ tries[c] = MaxTries
    /\ outcome' = [outcome EXCEPT ![c] = "error"]
    /\ UNCHANGED <<tries, busy>>

Reject(c) ==
    /\ outcome[c] = "none" /\ tries[c] = 0
    /\ outcome' = [outcome EXCEPT ![c] = "error"]
    /\ UNCHANGED <<tries, busy>>

Next == \E c \in Callers :
    Attempt(c) \/ Return(c) \/ AttemptFails(c) \/ GiveUp(c) \/ Reject(c)

Spec == Init /\ [][Next]_vars
=============================================================================
