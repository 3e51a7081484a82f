------------------------------ MODULE Pipeline ------------------------------
(***************************************************************************)
(* What run_stream_client promises the loop that feeds it: payloads are    *)
(* answered one by one, in the order they were asked, each at most once    *)
(* and never with the answer to another; the session may fail at any time, *)
(* after which nothing is answered.                                        *)
(***************************************************************************)
EXTENDS Naturals, Sequences

CONSTANT Window     \* how many payloads may be outstanding

VARIABLES
    asked,      \* how many payloads have been submitted
    replies,    \* the payloads answered so far, in the order of the answers
    open

vars == <<asked, replies, open>>

Init == asked = 0 /\ replies = <<>> /\ open = TRUE

Ask ==
    /\ open /\ asked - Len(replies) < Window
    /\ asked' = asked + 1
    /\ UNCHANGED <<replies, open>>

Answer ==
    /\ open /\ Len(replies) < asked
    /\ replies' = Append(replies, Len(replies) + 1)
    /\ open' \in BOOLEAN      \* an answer may be the last
    /\ UNCHANGED asked

Close == open /\ open' = FALSE /\ UNCHANGED <<asked, replies>>

Next == Ask \/ Answer \/ Close
Spec == Init /\ [][Next]_vars
=============================================================================
