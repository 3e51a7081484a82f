-------------------------------- MODULE Ping --------------------------------
(***************************************************************************)
(* PingAggregator: the last round-trip time to each peer, and when it was  *)
(* measured, in two maps of the same keys.                                 *)
(***************************************************************************)
EXTENDS Integers, Functions

CONSTANTS
    Peers, Rtts,
    max_age,     \* the age every caller passes
    MaxTime      \* bound of the clock

VARIABLES
    now, rtts, last_ping,
    recent    \* history: the table of measurements that they should amount to

Nothing == [p \in {} |-> 0]
Table == INSTANCE ExpiringTable WITH Keys <- Peers, Ttl <- max_age + 1, left <- recent

PingInit == rtts = Nothing /\ last_ping = Nothing /\ Table!Init

RecordRtt(peer, rtt) ==
    /\ rtts' = [p \in DOMAIN rtts \cup {peer} |-> IF p = peer THEN rtt ELSE rtts[p]]
    /\ last_ping' = [p \in DOMAIN last_ping \cup {peer} |-> IF p = peer THEN now ELSE last_ping[p]]

\* An age is stale when it is strictly greater than max_age; so is a peer that
\* has no time.
Stale(peer) == peer \in DOMAIN last_ping => now - last_ping[peer] > max_age

\* Mutant: a measurement of just the age allowed goes too.
RetainRecentStrictly ==
    LET kept == {p \in DOMAIN rtts : ~Stale(p) /\ now - last_ping[p] < max_age}
    IN  rtts' = Restrict(rtts, kept) /\ last_ping' = Restrict(last_ping, kept)

RetainRecent ==
    LET stale_keys == {p \in DOMAIN rtts : Stale(p)}
    IN  /\ rtts' = Restrict(rtts, DOMAIN rtts \ stale_keys)
        /\ last_ping' = Restrict(last_ping, DOMAIN last_ping \ stale_keys)

PingStep ==
    /\ \/ RetainRecent /\ UNCHANGED recent
       \/ \E p \in Peers, r \in Rtts : RecordRtt(p, r) /\ Table!Learn(p)
    /\ UNCHANGED now

-----------------------------------------------------------------------------
(* Properties *)

\* A peer's round-trip time is not stale, and is kept, from its last ping for
\* max_age, that moment included, whenever retain_recent runs; and the two
\* maps never disagree on whom they are about.
RttsAreRecent ==
    /\ DOMAIN rtts = DOMAIN last_ping
    /\ \A p \in Peers : /\ Stale(p) <=> recent[p] = 0
                        /\ recent[p] > 0 => p \in DOMAIN rtts
=============================================================================
